------------------------- MODULE VoiceSystemProofs -------------------------
(***************************************************************************)
(* Proofs about the add-on and the service together, for any number of     *)
(* sessions, texts and ends of the service.                                *)
(*                                                                         *)
(* The argument is about the conversation on the one open connection: the  *)
(* add-on's record x, the requests U and lines D under way, the service's  *)
(* handler h, and whether the backend is the streaming one (b).  What      *)
(* is under way makes up for every difference between the two sides.       *)
(***************************************************************************)
EXTENDS VoiceSystem, TLAPS

Ends == {"finished", "result", "error"}

IsText(m) == m.type \in {"partial", "final"}

\* The segment that the text after m belongs to.
After(m) == IF m.type = "final" THEN m.segment + 1 ELSE m.segment

\* The text of every exception and of every offline result is one line of text.
Printable == OneLine \subseteq {TRUE}

-----------------------------------------------------------------------------
(* The conversation                                                        *)

\* Each line is one the add-on takes when it comes to it.
Lines(b, x, D) ==
    \A k \in 1 .. Len(D) :
        /\ D[k].type \notin {"ready", "busy"} => D[k].id = x.id
        /\ D[k].type \notin {"error", "result"} \/ Printable => D[k].valid
        /\ IsText(D[k]) \/ D[k].type = "finished" => b
        /\ D[k].type = "result" =>
             /\ ~b /\ D[k].text = 1
             /\ x.phase = "transcribing"
                \/ \E j \in 1 .. k - 1 : D[j].type = "transcribing"

\* The texts continue the add-on's numbers one by one ...
Numbers(x, D) ==
    \A k \in 1 .. Len(D) : IsText(D[k]) =>
        /\ x.seq < D[k].seq
        /\ D[k].seq = x.seq + 1 => D[k].segment = x.segment
        /\ D[k].seq = x.seq + 1
           \/ \E j \in 1 .. k - 1 : IsText(D[j]) /\ D[k].seq = D[j].seq + 1
        /\ \A j \in 1 .. k - 1 : IsText(D[j]) =>
             /\ D[j].seq < D[k].seq
             /\ D[k].seq = D[j].seq + 1 => D[k].segment = After(D[j])

\* ... up to those of the handler.
Count(x, D, h) ==
    h.at # "gone" =>
        /\ x.seq <= h.seq
        /\ x.seq = h.seq => x.segment = h.segment
        /\ x.seq = h.seq
           \/ \E k \in 1 .. Len(D) : IsText(D[k]) /\ D[k].seq = h.seq
        /\ \A k \in 1 .. Len(D) : IsText(D[k]) =>
             /\ D[k].seq <= h.seq
             /\ D[k].seq = h.seq => h.segment = After(D[k])

\* Until the recording has begun, one side waits for one line of the other.
Opening(b, x, U, D, h) ==
    /\ h.at = "new" => x.phase = "connecting" /\ U = <<>> /\ D = <<>> /\ h.phase = "idle"
    /\ x.phase = "connecting" =>
         /\ U = <<>> /\ Len(D) <= 1
         /\ \A k \in 1 .. Len(D) :
              \/ D[k].type = "ready" /\ D[k].protocol = IF b THEN 2 ELSE 1
              \/ D[k].type = "busy" /\ h.at = "gone"
         /\ h.phase = "idle" /\ (h.at = "serving" => D # <<>>)
    /\ x.phase # "connecting" => x.streaming = b
    /\ x.phase = "starting" =>
         /\ U # <<>> => Len(U) = 1 /\ U[1].type = "start" /\ D = <<>> /\ h.phase = "idle"
         /\ h.phase # "idle" => D # <<>>
         /\ D # <<>> =>
              \/ D[1].type = "recording"
              \/ D[1].type = "error" /\ Len(D) = 1 /\ h.phase = "idle"

\* Once it has, the only request is the stop.
Stopping(x, U) ==
    x.phase \in Hearing =>
        /\ Len(U) <= 1
        /\ U # <<>> => U[1].type = "stop" /\ x.phase # "recording"

\* The lines under way bring the add-on to the phase of the handler ...
Leading(x, U, D, h) ==
    /\ h.phase # "idle" => \A k \in 1 .. Len(D) : D[k].type \notin Ends
    /\ h.phase = "recording" =>
         /\ x.phase # "transcribing"
         /\ \A k \in 1 .. Len(D) : D[k].type # "transcribing"
         /\ x.phase = "stopping" => U # <<>>
    /\ h.phase = "transcribing" =>
         x.phase = "transcribing" \/ \E k \in 1 .. Len(D) : D[k].type = "transcribing"

\* ... and to the end of the session when the handler has ended it.
Ending(x, U, D, h) ==
    Printable /\ h.at = "serving" /\ h.phase = "idle" =>
        \/ x.phase = "connecting"
        \/ x.phase = "starting" /\ U # <<>>
        \/ \E k \in 1 .. Len(D) : D[k].type \in Ends

Talk(b, x, U, D, h) ==
    /\ Lines(b, x, D) /\ Numbers(x, D) /\ Count(x, D, h)
    /\ Opening(b, x, U, D, h) /\ Stopping(x, U)
    /\ Leading(x, U, D, h) /\ Ending(x, U, D, h)

-----------------------------------------------------------------------------
(* The inductive invariant                                                 *)

\* The add-on's end is open exactly while the session waits for lines.
Links ==
    /\ \A i \in Sessions : link[i] = "unused" <=> i > next
    /\ \A i \in Sessions : link[i] = "open" <=> s.id = i /\ s.phase \notin {"idle", "preview"}
    /\ s.id <= next /\ (s.phase = "idle" <=> s.id = NoSession)

\* A handler that has not come to its loop, or has left it, has no recording;
\* one of them has the microphone.
Handlers ==
    /\ \A i \in Sessions :
         /\ svc[i].at # "serving" => svc[i].phase = "idle"
         /\ svc[i].at = "closing" => link[i] = "closed"
         /\ link[i] = "unused" => svc[i].at = "new"
         /\ svc[i].at = "new" => svc[i] = Handler /\ up[i] = <<>> /\ down[i] = <<>>
    /\ \A i, j \in Sessions :
         svc[i].at \in {"serving", "closing"} /\ svc[j].at \in {"serving", "closing"} => i = j

Conversation ==
    s.phase \notin {"idle", "preview"} =>
        Talk(streaming, s, up[s.id], down[s.id], svc[s.id])

IInv == TypeOK /\ Links /\ Handlers /\ Conversation

-----------------------------------------------------------------------------
(* Sequences and records                                                   *)

SessionRecord ==
    [phase : SessionPhases, id : Nat, context : {Field, NoContext},
     continuous : BOOLEAN, streaming : BOOLEAN, preview : 0 .. 1,
     segment : Nat, seq : Nat, pending : {<<>>}, error : {FALSE}]

RequestLine == [type : {"start", "stop", "cancel"}, id : Sessions, continuous : BOOLEAN]

HandlerRecord ==
    [at : {"new", "serving", "closing", "gone"},
     phase : {"idle", "recording", "transcribing"}, continuous : BOOLEAN,
     segment : Nat, seq : 0 .. MaxTexts, previous : 0 .. NoText]

\* A line appended to a queue comes after those that were there.
LEMMA Added ==
    ASSUME NEW S, NEW D \in Seq(S), NEW m \in S
    PROVE  /\ D \o <<m>> \in Seq(S) /\ Append(D, m) = D \o <<m>>
           /\ Len(D \o <<m>>) = Len(D) + 1
           /\ \A k \in 1 .. Len(D) : (D \o <<m>>)[k] = D[k]
           /\ (D \o <<m>>)[Len(D) + 1] = m
           /\ D \o <<m>> # <<>>
           /\ D = <<>> => Len(D) = 0
           /\ D # <<>> => Len(D) > 0
OBVIOUS

\* The queue without its head.
LEMMA Removed ==
    ASSUME NEW S, NEW D \in Seq(S), D # <<>>
    PROVE  /\ Tail(D) \in Seq(S) /\ Head(D) = D[1] /\ D[1] \in S
           /\ Len(D) \in Nat /\ Len(D) > 0
           /\ Len(Tail(D)) = Len(D) - 1
           /\ \A k \in 1 .. Len(D) - 1 : Tail(D)[k] = D[k + 1]
           /\ Len(D) = 1 => Tail(D) = <<>>
           /\ Tail(D) # <<>> => Len(D) > 1
PROOF
<1>1. /\ Tail(D) \in Seq(S) /\ Head(D) = D[1]
      /\ Len(D) \in Nat /\ Len(D) > 0
      /\ Len(Tail(D)) = Len(D) - 1
      /\ \A k \in 1 .. Len(D) - 1 : Tail(D)[k] = D[k + 1]
  OBVIOUS
<1>2. D[1] \in S
  BY <1>1
<1>3. \A T \in Seq(S) : T = <<>> <=> Len(T) = 0
  OBVIOUS
<1> QED BY <1>1, <1>2, <1>3

\* reset() leaves a session that is idle and has no number.
LEMMA BlankTyped ==
    /\ Blank \in SessionRecord
    /\ Blank.error = FALSE /\ Blank.pending = <<>> /\ Blank.phase = "idle" /\ Blank.id = 0
PROOF
<1>1. Blank \in SessionRecord
  BY DEF SessionRecord, Blank, SessionPhases, NoSession
<1>2. Blank.error = FALSE /\ Blank.pending = <<>> /\ Blank.phase = "idle" /\ Blank.id = 0
  BY DEF Blank, NoSession
<1> QED BY <1>1, <1>2

LEMMA ResetIsBlank ==
    ASSUME NEW x \in SessionRecord
    PROVE  Reset(x) = Blank
PROOF
<1>1. x.error = FALSE
  BY DEF SessionRecord
<1>2. [Blank EXCEPT !.error = FALSE] = Blank
  BY BlankTyped DEF SessionRecord
<1> QED BY <1>1, <1>2 DEF Reset

LEMMA HandlersTyped == Handler \in HandlerRecord /\ Gone \in HandlerRecord
PROOF
<1>1. 0 \in 0 .. MaxTexts /\ NoText \in 0 .. NoText /\ 1 \in Nat
  BY VoiceSystemAssumption DEF NoText
<1>2. Handler \in HandlerRecord
  BY <1>1 DEF HandlerRecord, Handler
<1>3. Gone \in HandlerRecord
  BY <1>2 DEF HandlerRecord, Gone
<1> QED BY <1>2, <1>3

\* HandleLine's session after a line that is not the `ready' that is due
Hears(x, m) == [[Heard(x, m) EXCEPT !.pending = <<>>] EXCEPT !.error = FALSE]

\* What a line does to the session that hears it, if the session goes on.
LEMMA HeardCases ==
    ASSUME NEW x \in SessionRecord, NEW m \in Message, x.phase # "idle",
           ~ Welcomes(x, m),
           NEW y, y = Hears(x, m)
    PROVE  /\ y \in SessionRecord
           /\ \/ y = Blank
              \/ /\ y.phase = "preview" /\ y.id = x.id
              \/ y = x
              \/ /\ m.type = "recording" /\ x.phase = "starting"
                 /\ y = [x EXCEPT !.phase = "recording"]
              \/ /\ m.type = "transcribing" /\ x.phase \in {"recording", "stopping"}
                 /\ y = [x EXCEPT !.phase = "transcribing"]
              \/ /\ IsText(m) /\ x.phase \in Hearing
                 /\ m.segment = x.segment /\ m.seq > x.seq
                 /\ y.seq = m.seq /\ y.segment = After(m)
                 /\ y.phase = x.phase /\ y.id = x.id /\ y.streaming = x.streaming
PROOF
<1> USE DEF SessionPhases, Hearing, Early, Hears
<1> DEFINE z == Heard(x, m)
<1>1. \A e : [[[Blank EXCEPT !.error = e] EXCEPT !.pending = <<>>] EXCEPT !.error = FALSE] = Blank
  BY BlankTyped DEF SessionRecord
<1>2. [[Failed(x) EXCEPT !.pending = <<>>] EXCEPT !.error = FALSE] = Blank
  BY <1>1 DEF Failed, Reset
<1>3. [[Reset(x) EXCEPT !.pending = <<>>] EXCEPT !.error = FALSE] = Blank
  BY <1>1 DEF Reset
<1>4. [[x EXCEPT !.pending = <<>>] EXCEPT !.error = FALSE] = x
  BY DEF SessionRecord
<1>5. Blank \in SessionRecord
  BY BlankTyped
<1>6. CASE z = x
  BY <1>4, <1>6
<1>7. CASE z = Failed(x) \/ z = Reset(x)
  BY <1>2, <1>3, <1>5, <1>7
<1>8. CASE z = [x EXCEPT !.phase = "recording"] /\ m.type = "recording" /\ x.phase = "starting"
  <2>1. y = [x EXCEPT !.phase = "recording"]
    BY <1>8 DEF SessionRecord
  <2> QED BY <2>1, <1>8 DEF SessionRecord
<1>9. CASE /\ z = [x EXCEPT !.phase = "transcribing"] /\ m.type = "transcribing"
           /\ x.phase \in {"recording", "stopping"}
  <2>1. y = [x EXCEPT !.phase = "transcribing"]
    BY <1>9 DEF SessionRecord
  <2> QED BY <2>1, <1>9 DEF SessionRecord
<1>10. CASE z = [x EXCEPT !.phase = "preview", !.preview = m.text]
  <2>1. y = [x EXCEPT !.phase = "preview", !.preview = m.text]
    BY <1>10 DEF SessionRecord
  <2>2. m.text \in 0 .. 1
    BY DEF Message
  <2>3. y \in SessionRecord
    BY <2>1, <2>2 DEF SessionRecord
  <2> QED BY <2>1, <2>3 DEF SessionRecord
<1>11. CASE z = Texted(x, m) /\ IsText(m) /\ x.phase \in Hearing /\ ExpectedText(x, m)
  <2>1. m.segment \in Nat /\ m.seq \in Nat /\ m.text \in 0 .. 1
    BY DEF Message
  <2>2. CASE m.type = "partial"
    <3>1. y = [x EXCEPT !.seq = m.seq, !.preview = m.text]
      BY <2>2, <1>11 DEF SessionRecord, Texted
    <3>2. y \in SessionRecord
      BY <2>1, <3>1 DEF SessionRecord
    <3> QED BY <2>1, <2>2, <3>1, <3>2, <1>11 DEF SessionRecord, ExpectedText, After
  <2>3. CASE m.type = "final"
    <3>1. y = [x EXCEPT !.seq = m.seq, !.preview = 0, !.segment = @ + 1]
      BY <2>3, <1>11 DEF SessionRecord, Texted
    <3> DEFINE r == [x EXCEPT !.seq = m.seq, !.preview = 0]
    <3>2. 0 \in 0 .. 1 /\ x.segment + 1 \in Nat /\ r.segment = x.segment
      BY DEF SessionRecord
    <3>3. r \in SessionRecord
      BY <2>1, <3>2 DEF SessionRecord
    <3>4. \A n \in Nat : [r EXCEPT !.segment = n] \in SessionRecord
      <4> HIDE DEF r
      <4> QED BY <3>3 DEF SessionRecord
    <3>5. y = [r EXCEPT !.segment = x.segment + 1]
      BY <3>1 DEF SessionRecord
    <3>6. y \in SessionRecord
      <4> HIDE DEF r
      <4> QED BY <3>2, <3>4, <3>5
    <3> QED BY <2>1, <2>3, <3>1, <3>6, <1>11, ZenonT(60) DEF SessionRecord, ExpectedText, After
  <2> QED BY <2>2, <2>3, <1>11 DEF IsText
<1>12. CASE m.type \in {"error", "busy"} /\ x.phase \in Early
  <2>1. z = Refused(x, m)
    BY <1>12 DEF Heard
  <2>2. z = x \/ z = Failed(x)
    BY <2>1 DEF Refused
  <2> QED BY <2>2, <1>6, <1>7
<1>13. CASE ~(m.type \in {"error", "busy"} /\ x.phase \in Early)
            /\ m.id = x.id /\ x.phase # "idle" /\ m.type # "ready"
  <2>1. z = Informed(x, m)
    BY <1>13 DEF Heard
  <2> QED BY <2>1, <1>6, <1>7, <1>8, <1>9, <1>10, <1>11 DEF Informed, Texted, IsText
<1>14. CASE ~(m.type \in {"error", "busy"} /\ x.phase \in Early)
            /\ ~(m.id = x.id /\ x.phase # "idle" /\ m.type # "ready")
  BY <1>6, <1>14 DEF Heard
<1> QED BY <1>12, <1>13, <1>14

\* A text that is due is taken.
LEMMA TextTaken ==
    ASSUME NEW x \in SessionRecord, NEW m \in Message,
           IsText(m), x.phase \in Hearing, x.streaming, m.id = x.id, ExpectedText(x, m)
    PROVE  Hears(x, m).seq = m.seq /\ Hears(x, m).segment = After(m)
PROOF
<1>1. Heard(x, m) = Texted(x, m)
  <2>1. Heard(x, m) = Informed(x, m)
    BY DEF Heard, Hearing, Early, IsText
  <2>2. Informed(x, m) = Texted(x, m)
    BY DEF Informed, IsText, Hearing
  <2> QED BY <2>1, <2>2
<1>2. CASE m.type = "partial"
  <2>1. Heard(x, m) = [x EXCEPT !.seq = m.seq, !.preview = m.text]
    BY <1>1, <1>2 DEF Texted
  <2> QED BY <2>1, <1>2 DEF Hears, SessionRecord, ExpectedText, After
<1>3. CASE m.type = "final"
  <2>1. Heard(x, m) = [x EXCEPT !.seq = m.seq, !.preview = 0, !.pending = <<m.text>>,
                                !.segment = @ + 1]
    BY <1>1, <1>3 DEF Texted
  <2> QED BY <2>1, <1>3 DEF Hears, SessionRecord, ExpectedText, After
<1> QED BY <1>2, <1>3 DEF IsText

\* So is every other line that is due: the phase it leads to.
LEMMA LineTaken ==
    ASSUME NEW x \in SessionRecord, NEW m \in Message, m.id = x.id,
           x.phase \notin {"idle", "preview"}
    PROVE  /\ m.type = "recording" /\ x.phase = "starting" => Hears(x, m).phase = "recording"
           /\ m.type = "transcribing" /\ x.phase \in {"recording", "stopping"}
                => Hears(x, m).phase = "transcribing"
           /\ m.type = "error" /\ m.valid => Hears(x, m).phase = "idle"
           /\ m.type = "finished" /\ x.streaming /\ x.phase \in Hearing
                => Hears(x, m).phase = "idle"
           /\ m.type = "result" /\ ~x.streaming /\ x.phase = "transcribing" /\ m.valid
                /\ m.text = 1 => Hears(x, m).phase = "preview"
PROOF
<1> USE DEF Hearing, Early
<1>2. \A z : Heard(x, m) = Reset(z) => Hears(x, m).phase = "idle"
  BY DEF Hears, Reset, Blank
<1>4. m.type = "recording" /\ x.phase = "starting" => Hears(x, m).phase = "recording"
  <2> SUFFICES ASSUME m.type = "recording", x.phase = "starting"
               PROVE  Hears(x, m).phase = "recording"
    OBVIOUS
  <2>1. Heard(x, m) = Informed(x, m)
    BY DEF Heard
  <2>2. Informed(x, m) = [x EXCEPT !.phase = "recording"]
    BY DEF Informed
  <2> QED BY <2>1, <2>2 DEF Hears, SessionRecord
<1>5. m.type = "transcribing" /\ x.phase \in {"recording", "stopping"}
        => Hears(x, m).phase = "transcribing"
  <2> SUFFICES ASSUME m.type = "transcribing", x.phase \in {"recording", "stopping"}
               PROVE  Hears(x, m).phase = "transcribing"
    OBVIOUS
  <2>1. Heard(x, m) = Informed(x, m)
    BY DEF Heard
  <2>2. Informed(x, m) = [x EXCEPT !.phase = "transcribing"]
    BY DEF Informed
  <2> QED BY <2>1, <2>2 DEF Hears, SessionRecord
<1>6. m.type = "error" /\ m.valid => Hears(x, m).phase = "idle"
  <2> SUFFICES ASSUME m.type = "error", m.valid
               PROVE  Hears(x, m).phase = "idle"
    OBVIOUS
  <2>1. CASE x.phase \in Early
    <3>1. Heard(x, m) = Refused(x, m)
      BY <2>1 DEF Heard
    <3>2. Refused(x, m) = Reset([x EXCEPT !.error = TRUE])
      BY DEF Refused, Failed
    <3> QED BY <3>1, <3>2, <1>2
  <2>2. CASE x.phase \notin Early
    <3>1. Heard(x, m) = Informed(x, m)
      BY <2>2 DEF Heard
    <3>2. Informed(x, m) = Reset([x EXCEPT !.error = TRUE])
      BY DEF Informed, Failed
    <3> QED BY <3>1, <3>2, <1>2
  <2> QED BY <2>1, <2>2
<1>7. m.type = "finished" /\ x.streaming /\ x.phase \in Hearing => Hears(x, m).phase = "idle"
  <2> SUFFICES ASSUME m.type = "finished", x.streaming, x.phase \in Hearing
               PROVE  Hears(x, m).phase = "idle"
    OBVIOUS
  <2>1. Heard(x, m) = Informed(x, m)
    BY DEF Heard
  <2>2. Informed(x, m) = Reset(x)
    BY DEF Informed
  <2> QED BY <2>1, <2>2, <1>2
<1>8. m.type = "result" /\ ~x.streaming /\ x.phase = "transcribing" /\ m.valid /\ m.text = 1
        => Hears(x, m).phase = "preview"
  <2> SUFFICES ASSUME m.type = "result", ~x.streaming, x.phase = "transcribing", m.valid,
                      m.text = 1
               PROVE  Hears(x, m).phase = "preview"
    OBVIOUS
  <2>1. Heard(x, m) = Informed(x, m)
    BY DEF Heard
  <2>2. Informed(x, m) = [x EXCEPT !.phase = "preview", !.preview = m.text]
    BY DEF Informed
  <2> QED BY <2>1, <2>2 DEF Hears, SessionRecord
<1> QED BY <1>4, <1>5, <1>6, <1>7, <1>8

-----------------------------------------------------------------------------
(* The add-on hears a line                                                 *)

\* The numbers go on when the head of the queue has been heard.
LEMMA NumbersHeard ==
    ASSUME NEW x \in SessionRecord, NEW D \in Seq(Message), D # <<>>,
           NEW h \in HandlerRecord, Numbers(x, D), Count(x, D, h),
           NEW y \in SessionRecord,
           IF IsText(Head(D)) THEN y.seq = Head(D).seq /\ y.segment = After(Head(D))
                              ELSE y.seq = x.seq /\ y.segment = x.segment
    PROVE  Numbers(y, Tail(D)) /\ Count(y, Tail(D), h)
PROOF
<1> DEFINE T == Tail(D)
<1>1. /\ T \in Seq(Message) /\ Head(D) = D[1] /\ D[1] \in Message
      /\ Len(D) \in Nat /\ Len(D) > 0 /\ Len(T) = Len(D) - 1
      /\ \A k \in 1 .. Len(D) - 1 : T[k] = D[k + 1]
  BY Removed
<1>2. /\ x.seq \in Nat /\ x.segment \in Nat /\ y.seq \in Nat /\ y.segment \in Nat
      /\ h.seq \in Nat /\ h.segment \in Nat
  BY VoiceSystemAssumption DEF SessionRecord, HandlerRecord
<1>3. \A k \in 1 .. Len(D) : D[k].seq \in Nat /\ D[k].segment \in Nat
  <2>1. \A k \in 1 .. Len(D) : D[k] \in Message
    OBVIOUS
  <2> QED BY <2>1 DEF Message
<1> HIDE DEF T
<1>4. CASE ~IsText(D[1])
  <2>1. y.seq = x.seq /\ y.segment = x.segment
    BY <1>1, <1>4
  <2>2. Numbers(y, T)
    <3> SUFFICES ASSUME NEW k \in 1 .. Len(T), IsText(T[k])
                 PROVE  /\ x.seq < T[k].seq
                        /\ T[k].seq = x.seq + 1 => T[k].segment = x.segment
                        /\ T[k].seq = x.seq + 1
                           \/ \E j \in 1 .. k - 1 : IsText(T[j]) /\ T[k].seq = T[j].seq + 1
                        /\ \A j \in 1 .. k - 1 : IsText(T[j]) =>
                             /\ T[j].seq < T[k].seq
                             /\ T[k].seq = T[j].seq + 1 => T[k].segment = After(T[j])
      BY <2>1 DEF Numbers
    <3>1. k + 1 \in 1 .. Len(D) /\ T[k] = D[k + 1]
      BY <1>1
    <3>2. \A j \in 1 .. k - 1 : j + 1 \in 1 .. (k + 1) - 1 /\ T[j] = D[j + 1]
      BY <1>1
    <3>3. ASSUME NEW j \in 1 .. (k + 1) - 1, IsText(D[j])
          PROVE  j - 1 \in 1 .. k - 1 /\ T[j - 1] = D[j]
      <4>1. j # 1
        BY <1>4, <3>3
      <4> QED BY <4>1, <1>1
    <3>4. /\ x.seq < D[k + 1].seq
          /\ D[k + 1].seq = x.seq + 1 => D[k + 1].segment = x.segment
          /\ D[k + 1].seq = x.seq + 1
             \/ \E j \in 1 .. (k + 1) - 1 : IsText(D[j]) /\ D[k + 1].seq = D[j].seq + 1
          /\ \A j \in 1 .. (k + 1) - 1 : IsText(D[j]) =>
               /\ D[j].seq < D[k + 1].seq
               /\ D[k + 1].seq = D[j].seq + 1 => D[k + 1].segment = After(D[j])
      BY <3>1 DEF Numbers
    <3>5. \/ D[k + 1].seq = x.seq + 1
          \/ \E j \in 1 .. k - 1 : IsText(T[j]) /\ T[k].seq = T[j].seq + 1
      <4> SUFFICES ASSUME D[k + 1].seq # x.seq + 1
                   PROVE  \E j \in 1 .. k - 1 : IsText(T[j]) /\ T[k].seq = T[j].seq + 1
        OBVIOUS
      <4>1. PICK j \in 1 .. (k + 1) - 1 : IsText(D[j]) /\ D[k + 1].seq = D[j].seq + 1
        BY <3>4
      <4> QED BY <4>1, <3>1, <3>3
    <3> QED BY <3>1, <3>2, <3>4, <3>5
  <2>3. Count(y, T, h)
    <3>1. \A k \in 1 .. Len(T) : k + 1 \in 1 .. Len(D) /\ T[k] = D[k + 1]
      BY <1>1
    <3>2. ASSUME NEW k \in 1 .. Len(D), IsText(D[k])
          PROVE  k - 1 \in 1 .. Len(T) /\ T[k - 1] = D[k]
      <4>1. k # 1
        BY <1>4, <3>2
      <4> QED BY <4>1, <1>1
    <3> QED BY <3>1, <3>2, <2>1, ZenonT(60) DEF Count
  <2> QED BY <2>2, <2>3 DEF T
<1>5. CASE IsText(D[1])
  <2>1. y.seq = D[1].seq /\ y.segment = After(D[1])
    BY <1>1, <1>5
  <2>2. 1 \in 1 .. Len(D) /\ ~(\E j \in 1 .. 1 - 1 : TRUE)
    BY <1>1
  <2>3. D[1].seq = x.seq + 1 /\ D[1].segment = x.segment
    BY <2>2, <1>5 DEF Numbers
  <2>4. Numbers(y, T)
    <3> SUFFICES ASSUME NEW k \in 1 .. Len(T), IsText(T[k])
                 PROVE  /\ y.seq < T[k].seq
                        /\ T[k].seq = y.seq + 1 => T[k].segment = y.segment
                        /\ T[k].seq = y.seq + 1
                           \/ \E j \in 1 .. k - 1 : IsText(T[j]) /\ T[k].seq = T[j].seq + 1
                        /\ \A j \in 1 .. k - 1 : IsText(T[j]) =>
                             /\ T[j].seq < T[k].seq
                             /\ T[k].seq = T[j].seq + 1 => T[k].segment = After(T[j])
      BY DEF Numbers
    <3>1. k + 1 \in 1 .. Len(D) /\ T[k] = D[k + 1] /\ 1 \in 1 .. (k + 1) - 1
      BY <1>1
    <3>2. \A j \in 1 .. k - 1 : j + 1 \in 1 .. (k + 1) - 1 /\ T[j] = D[j + 1]
      BY <1>1
    <3>3. ASSUME NEW j \in 1 .. (k + 1) - 1, j # 1
          PROVE  j - 1 \in 1 .. k - 1 /\ T[j - 1] = D[j]
      BY <1>1, <3>3
    <3>4. /\ D[1].seq < D[k + 1].seq
          /\ D[k + 1].seq = D[1].seq + 1 => D[k + 1].segment = After(D[1])
          /\ D[k + 1].seq = x.seq + 1
             \/ \E j \in 1 .. (k + 1) - 1 : IsText(D[j]) /\ D[k + 1].seq = D[j].seq + 1
          /\ \A j \in 1 .. (k + 1) - 1 : IsText(D[j]) =>
               /\ D[j].seq < D[k + 1].seq
               /\ D[k + 1].seq = D[j].seq + 1 => D[k + 1].segment = After(D[j])
      BY <3>1, <1>5 DEF Numbers
    <3>5. D[1].seq \in Nat /\ D[k + 1].seq \in Nat
      BY <1>3, <2>2, <3>1
    <3>6. D[k + 1].seq # x.seq + 1
      BY <3>4, <3>5, <2>3
    <3>7. \/ D[k + 1].seq = D[1].seq + 1
          \/ \E j \in 1 .. k - 1 : IsText(T[j]) /\ T[k].seq = T[j].seq + 1
      <4>1. PICK j \in 1 .. (k + 1) - 1 : IsText(D[j]) /\ D[k + 1].seq = D[j].seq + 1
        BY <3>4, <3>6
      <4> QED BY <4>1, <3>1, <3>3
    <3> QED BY <3>1, <3>2, <3>4, <3>7, <2>1
  <2>5. Count(y, T, h)
    <3> SUFFICES ASSUME h.at # "gone"
                 PROVE  /\ y.seq <= h.seq
                        /\ y.seq = h.seq => y.segment = h.segment
                        /\ y.seq = h.seq
                           \/ \E k \in 1 .. Len(T) : IsText(T[k]) /\ T[k].seq = h.seq
                        /\ \A k \in 1 .. Len(T) : IsText(T[k]) =>
                             /\ T[k].seq <= h.seq
                             /\ T[k].seq = h.seq => h.segment = After(T[k])
      BY DEF Count
    <3>1. /\ x.seq <= h.seq
          /\ x.seq = h.seq
             \/ \E k \in 1 .. Len(D) : IsText(D[k]) /\ D[k].seq = h.seq
          /\ \A k \in 1 .. Len(D) : IsText(D[k]) =>
               /\ D[k].seq <= h.seq
               /\ D[k].seq = h.seq => h.segment = After(D[k])
      BY DEF Count
    <3>2. D[1].seq <= h.seq /\ (D[1].seq = h.seq => h.segment = After(D[1]))
      BY <3>1, <2>2, <1>5
    <3>3. \A k \in 1 .. Len(T) : k + 1 \in 1 .. Len(D) /\ T[k] = D[k + 1]
      BY <1>1
    <3>4. ASSUME NEW k \in 1 .. Len(D), k # 1
          PROVE  k - 1 \in 1 .. Len(T) /\ T[k - 1] = D[k]
      BY <1>1, <3>4
    <3>5. x.seq # h.seq
      BY <3>2, <2>3, <1>2
    <3>6. \/ y.seq = h.seq
          \/ \E k \in 1 .. Len(T) : IsText(T[k]) /\ T[k].seq = h.seq
      <4>1. PICK k \in 1 .. Len(D) : IsText(D[k]) /\ D[k].seq = h.seq
        BY <3>1, <3>5
      <4> QED BY <4>1, <3>4, <2>1
    <3> QED BY <3>1, <3>2, <3>3, <3>6, <2>1
  <2> QED BY <2>4, <2>5 DEF T
<1> QED BY <1>4, <1>5

\* A line that is heard, and not the session's end, leaves a conversation.
LEMMA HearTalks ==
    ASSUME NEW b \in BOOLEAN, NEW x \in SessionRecord, NEW U \in Seq(RequestLine),
           NEW D \in Seq(Message), D # <<>>, NEW h \in HandlerRecord,
           Talk(b, x, U, D, h), x.phase \notin {"idle", "preview"},
           h.at # "serving" => h.phase = "idle",
           ~ Welcomes(x, Head(D)),
           NEW y, y = Hears(x, Head(D)),
           y.phase \notin {"idle", "preview"}
    PROVE  Talk(b, y, U, Tail(D), h)
PROOF
<1> USE DEF Hearing, Early
<1> DEFINE T == Tail(D)
           m == Head(D)
<1>1. /\ T \in Seq(Message) /\ m = D[1] /\ m \in Message
      /\ Len(D) \in Nat /\ Len(D) > 0 /\ Len(T) = Len(D) - 1
      /\ \A k \in 1 .. Len(D) - 1 : T[k] = D[k + 1]
      /\ Len(D) = 1 => T = <<>>
      /\ T # <<>> => Len(D) > 1
  BY Removed
<1>2. /\ y \in SessionRecord
      /\ \/ y = x
         \/ /\ m.type = "recording" /\ x.phase = "starting"
            /\ y = [x EXCEPT !.phase = "recording"]
         \/ /\ m.type = "transcribing" /\ x.phase \in {"recording", "stopping"}
            /\ y = [x EXCEPT !.phase = "transcribing"]
         \/ /\ IsText(m) /\ x.phase \in Hearing
            /\ y.seq = m.seq /\ y.segment = After(m)
            /\ y.phase = x.phase /\ y.id = x.id /\ y.streaming = x.streaming
  <2>1. Blank.phase = "idle"
    BY BlankTyped
  <2>2. m \in Message /\ ~ Welcomes(x, m) /\ x.phase # "idle"
    BY <1>1
  <2> HIDE DEF m
  <2>3. y = Hears(x, m)
    BY DEF m
  <2>4. /\ y \in SessionRecord
        /\ \/ y = Blank
           \/ /\ y.phase = "preview" /\ y.id = x.id
           \/ y = x
           \/ /\ m.type = "recording" /\ x.phase = "starting"
              /\ y = [x EXCEPT !.phase = "recording"]
           \/ /\ m.type = "transcribing" /\ x.phase \in {"recording", "stopping"}
              /\ y = [x EXCEPT !.phase = "transcribing"]
           \/ /\ IsText(m) /\ x.phase \in Hearing
              /\ m.segment = x.segment /\ m.seq > x.seq
              /\ y.seq = m.seq /\ y.segment = After(m)
              /\ y.phase = x.phase /\ y.id = x.id /\ y.streaming = x.streaming
    BY <2>2, <2>3, HeardCases
  <2> QED BY <2>1, <2>4
<1>3. /\ Lines(b, x, D) /\ Numbers(x, D) /\ Count(x, D, h)
      /\ Opening(b, x, U, D, h) /\ Stopping(x, U)
      /\ Leading(x, U, D, h) /\ Ending(x, U, D, h)
  BY DEF Talk
<1>4. 1 \in 1 .. Len(D)
  BY <1>1
<1>5. \A k \in 1 .. Len(T) : k + 1 \in 1 .. Len(D) /\ T[k] = D[k + 1]
  BY <1>1
<1>6. ASSUME NEW k \in 1 .. Len(D), k # 1
      PROVE  k - 1 \in 1 .. Len(T) /\ T[k - 1] = D[k]
  BY <1>1, <1>6
<1> HIDE DEF T, m
\* the phase and the numbers the session comes to
<1>7. /\ y.id = x.id /\ y.streaming = x.streaming
      /\ \/ y.phase = x.phase
         \/ m.type = "recording" /\ x.phase = "starting" /\ y.phase = "recording"
         \/ /\ m.type = "transcribing" /\ x.phase \in {"recording", "stopping"}
            /\ y.phase = "transcribing"
  BY <1>2 DEF SessionRecord
<1>8. IF IsText(m) THEN y.seq = m.seq /\ y.segment = After(m)
                   ELSE y.seq = x.seq /\ y.segment = x.segment
  <2>1. CASE ~IsText(m)
    BY <2>1, <1>2 DEF SessionRecord
  <2>2. CASE IsText(m)
    <3>1. x.phase \in Hearing /\ x.streaming = b
      BY <2>2, <1>1, <1>3, <1>4 DEF Opening, IsText, SessionRecord, SessionPhases
    <3>2. m.id = x.id /\ m.valid /\ b
      BY <2>2, <1>1, <1>3, <1>4 DEF Lines, IsText
    <3>3. ExpectedText(x, m)
      <4>1. ~(\E j \in 1 .. 1 - 1 : TRUE)
        OBVIOUS
      <4>2. x.seq < D[1].seq /\ D[1].seq = x.seq + 1 /\ D[1].segment = x.segment
        BY <2>2, <1>1, <1>3, <1>4, <4>1 DEF Numbers
      <4> QED BY <4>2, <3>2, <1>1 DEF ExpectedText
    <3>4. y = Hears(x, m)
      BY DEF m
    <3> QED BY <2>2, <3>1, <3>2, <3>3, <3>4, <1>1, TextTaken
  <2> QED BY <2>1, <2>2
<1>9. Numbers(y, T) /\ Count(y, T, h)
  BY <1>2, <1>3, <1>8, NumbersHeard DEF T, m
\* the lines that are taken for sure
<1>10. /\ m.type = "recording" /\ x.phase = "starting" => y.phase = "recording"
       /\ m.type = "transcribing" /\ x.phase \in {"recording", "stopping"}
            => y.phase = "transcribing"
       /\ ~(m.type \in Ends /\ Printable)
  <2>1. m.type \notin {"ready", "busy"} => m.id = x.id
    BY <1>1, <1>3, <1>4 DEF Lines
  <2>2. y = Hears(x, m)
    BY DEF m
  <2>3. m.type = "recording" /\ x.phase = "starting" => y.phase = "recording"
    BY <2>1, <2>2, <1>1, LineTaken
  <2>4. m.type = "transcribing" /\ x.phase \in {"recording", "stopping"}
          => y.phase = "transcribing"
    BY <2>1, <2>2, <1>1, LineTaken
  <2>5. ASSUME m.type \in Ends, Printable PROVE FALSE
    <3>1. x.phase \notin {"connecting"} /\ x.streaming = b
      BY <2>5, <1>1, <1>3, <1>4 DEF Opening, Ends
    <3>2. m.valid /\ m.id = x.id
      BY <2>1, <2>5, <1>1, <1>3, <1>4 DEF Lines, Ends
    <3>3. CASE m.type = "error"
      BY <2>2, <3>2, <3>3, <1>1, LineTaken
    <3>4. CASE m.type = "finished"
      <4>1. x.phase \in Hearing /\ b
        BY <3>1, <3>4, <1>1, <1>3, <1>4 DEF Opening, Lines, SessionRecord, SessionPhases
      <4> QED BY <4>1, <2>2, <3>1, <3>2, <3>4, <1>1, LineTaken
    <3>5. CASE m.type = "result"
      <4>1. ~(\E j \in 1 .. 1 - 1 : TRUE)
        OBVIOUS
      <4>2. x.phase = "transcribing" /\ ~b /\ m.text = 1
        BY <4>1, <3>5, <1>1, <1>3, <1>4 DEF Lines
      <4> QED BY <4>2, <2>2, <3>1, <3>2, <3>5, <1>1, LineTaken
    <3> QED BY <3>3, <3>4, <3>5, <2>5 DEF Ends
  <2> QED BY <2>3, <2>4, <2>5
\* a `transcribing' that was under way still is, or has been heard
<1>11. ASSUME NEW k \in 1 .. Len(D), D[k].type = "transcribing"
       PROVE  y.phase = "transcribing" \/ (k # 1 /\ T[k - 1].type = "transcribing")
  <2>1. CASE k # 1
    BY <2>1, <1>6, <1>11
  <2>2. CASE k = 1
    <3>1. x.phase \notin {"connecting", "starting"}
      BY <2>2, <1>11, <1>3, <1>4 DEF Opening
    <3>2. x.phase \in {"recording", "stopping", "transcribing"}
      BY <3>1 DEF SessionRecord, SessionPhases
    <3> QED BY <3>2, <2>2, <1>1, <1>7, <1>10, <1>11
  <2> QED BY <2>1, <2>2
<1>12. Lines(b, y, T)
  <2> SUFFICES ASSUME NEW k \in 1 .. Len(T)
               PROVE  /\ T[k].type \notin {"ready", "busy"} => T[k].id = y.id
                      /\ T[k].type \notin {"error", "result"} \/ Printable => T[k].valid
                      /\ IsText(T[k]) \/ T[k].type = "finished" => b
                      /\ T[k].type = "result" =>
                           /\ ~b /\ T[k].text = 1
                           /\ y.phase = "transcribing"
                              \/ \E j \in 1 .. k - 1 : T[j].type = "transcribing"
    BY DEF Lines
  <2>1. k + 1 \in 1 .. Len(D) /\ T[k] = D[k + 1]
    BY <1>5
  <2>2. /\ D[k + 1].type \notin {"ready", "busy"} => D[k + 1].id = x.id
        /\ D[k + 1].type \notin {"error", "result"} \/ Printable => D[k + 1].valid
        /\ IsText(D[k + 1]) \/ D[k + 1].type = "finished" => b
        /\ D[k + 1].type = "result" =>
             /\ ~b /\ D[k + 1].text = 1
             /\ x.phase = "transcribing"
                \/ \E j \in 1 .. (k + 1) - 1 : D[j].type = "transcribing"
    BY <2>1, <1>3 DEF Lines
  <2>3. ASSUME NEW j \in 1 .. (k + 1) - 1, D[j].type = "transcribing"
        PROVE  y.phase = "transcribing" \/ \E i \in 1 .. k - 1 : T[i].type = "transcribing"
    <3>1. j \in 1 .. Len(D) /\ (j # 1 => j - 1 \in 1 .. k - 1)
      BY <2>1, <1>1
    <3> QED BY <3>1, <2>3, <1>11
  <2>4. x.phase = "transcribing" => y.phase = "transcribing"
    BY <1>7
  <2> QED BY <2>1, <2>2, <2>3, <2>4, <1>7
<1>13. Opening(b, y, U, T, h)
  <2>1. h.at # "new"
    BY <1>1, <1>3 DEF Opening
  <2>2. CASE y.phase = "connecting"
    <3>1. x.phase = "connecting"
      BY <2>2, <1>7
    <3>2. U = <<>> /\ Len(D) = 1 /\ h.phase = "idle"
      BY <3>1, <1>1, <1>3 DEF Opening
    <3>3. D[1].type = "busy" /\ h.at = "gone"
      <4>1. D[1].type = "ready" => D[1].protocol \in {1, 2}
        BY <3>1, <1>3, <1>4 DEF Opening
      <4>2. ~(D[1].type = "ready")
        BY <4>1, <3>1, <1>1 DEF Welcomes, m
      <4> QED BY <4>2, <3>1, <1>3, <1>4 DEF Opening
    <3>4. T = <<>> /\ Len(T) = 0
      BY <3>2, <1>1
    <3> QED BY <2>2, <3>2, <3>3, <3>4, <1>1 DEF Opening
  <2>3. CASE y.phase # "connecting"
    <3>1. x.phase # "connecting" /\ y.streaming = b
      BY <2>3, <1>3, <1>7 DEF Opening
    <3>2. y.phase = "starting" => x.phase = "starting" /\ D[1].type = "error" /\ Len(D) = 1
                                  /\ h.phase = "idle" /\ U = <<>> /\ T = <<>>
      BY <1>1, <1>3, <1>7, <1>10 DEF Opening
    <3> QED BY <2>1, <2>3, <3>1, <3>2 DEF Opening
  <2> QED BY <2>2, <2>3
<1>14. Stopping(y, U)
  BY <1>1, <1>2, <1>3, <1>4, <1>7 DEF Opening, Stopping
<1>15. Leading(y, U, T, h)
  <2>1. h.phase # "idle" => \A k \in 1 .. Len(T) : T[k].type \notin Ends
    BY <1>3, <1>5 DEF Leading
  <2>2. h.phase = "recording" =>
          /\ y.phase # "transcribing"
          /\ \A k \in 1 .. Len(T) : T[k].type # "transcribing"
          /\ y.phase = "stopping" => U # <<>>
    BY <1>1, <1>3, <1>4, <1>5, <1>7 DEF Leading
  <2>3. h.phase = "transcribing" =>
          y.phase = "transcribing" \/ \E k \in 1 .. Len(T) : T[k].type = "transcribing"
    BY <1>3, <1>6, <1>7, <1>11 DEF Leading
  <2> QED BY <2>1, <2>2, <2>3 DEF Leading
<1>16. Ending(y, U, T, h)
  <2> SUFFICES ASSUME Printable, h.at = "serving", h.phase = "idle"
               PROVE  \/ y.phase = "connecting"
                      \/ y.phase = "starting" /\ U # <<>>
                      \/ \E k \in 1 .. Len(T) : T[k].type \in Ends
    BY DEF Ending
  <2>1. x.phase # "connecting"
    <3>1. y.phase = x.phase \/ x.phase # "connecting"
      BY <1>7
    <3>2. x.phase = "connecting" => D[1].type = "ready" /\ D[1].protocol \in {1, 2}
      BY <1>3, <1>4 DEF Opening
    <3> QED BY <3>2, <1>1 DEF Welcomes, m
  <2>2. ~(x.phase = "starting" /\ U # <<>>)
    BY <1>1, <1>3 DEF Opening
  <2>3. PICK k \in 1 .. Len(D) : D[k].type \in Ends
    BY <2>1, <2>2, <1>3 DEF Ending
  <2>4. k # 1
    BY <2>3, <1>1, <1>10
  <2> QED BY <2>3, <2>4, <1>6
<1> QED BY <1>9, <1>12, <1>13, <1>14, <1>15, <1>16 DEF Talk, T

-----------------------------------------------------------------------------
(* The service adds a line                                                 *)

LEMMA LineAdded ==
    ASSUME NEW b \in BOOLEAN, NEW x \in SessionRecord, NEW D \in Seq(Message),
           NEW m \in Message, Lines(b, x, D),
           m.type \notin {"ready", "busy"} => m.id = x.id,
           m.type \notin {"error", "result"} \/ Printable => m.valid,
           IsText(m) \/ m.type = "finished" => b,
           m.type = "result" =>
               /\ ~b /\ m.text = 1
               /\ x.phase = "transcribing"
                  \/ \E j \in 1 .. Len(D) : D[j].type = "transcribing"
    PROVE  Lines(b, x, D \o <<m>>)
PROOF
<1> DEFINE E == D \o <<m>>
<1>1. /\ Len(D) \in Nat /\ Len(E) = Len(D) + 1 /\ E[Len(D) + 1] = m
      /\ \A k \in 1 .. Len(D) : E[k] = D[k]
  BY Added
<1> HIDE DEF E
<1> SUFFICES ASSUME NEW k \in 1 .. Len(E)
             PROVE  /\ E[k].type \notin {"ready", "busy"} => E[k].id = x.id
                    /\ E[k].type \notin {"error", "result"} \/ Printable => E[k].valid
                    /\ IsText(E[k]) \/ E[k].type = "finished" => b
                    /\ E[k].type = "result" =>
                         /\ ~b /\ E[k].text = 1
                         /\ x.phase = "transcribing"
                            \/ \E j \in 1 .. k - 1 : E[j].type = "transcribing"
  BY DEF Lines, E
<1>2. CASE k \in 1 .. Len(D)
  <2>1. E[k] = D[k] /\ \A j \in 1 .. k - 1 : j \in 1 .. Len(D) /\ E[j] = D[j]
    BY <1>1, <1>2
  <2> QED BY <2>1, <1>2, SMTT(40) DEF Lines
<1>3. CASE k = Len(D) + 1
  <2>1. E[k] = m /\ k - 1 = Len(D)
    BY <1>1, <1>3
  <2>2. \A j \in 1 .. Len(D) : j \in 1 .. k - 1 /\ E[j] = D[j]
    BY <1>1, <2>1
  <2> QED BY <2>1, <2>2
<1> QED BY <1>1, <1>2, <1>3

LEMMA NumbersKept ==
    ASSUME NEW x \in SessionRecord, NEW D \in Seq(Message), NEW m \in Message,
           NEW h \in HandlerRecord, NEW g \in HandlerRecord,
           Numbers(x, D), Count(x, D, h), ~IsText(m),
           g.at = "gone" \/ (h.at # "gone" /\ g.seq = h.seq /\ g.segment = h.segment)
    PROVE  Numbers(x, D \o <<m>>) /\ Count(x, D \o <<m>>, g)
PROOF
<1> DEFINE E == D \o <<m>>
<1>1. /\ Len(D) \in Nat /\ Len(E) = Len(D) + 1 /\ E[Len(D) + 1] = m
      /\ \A k \in 1 .. Len(D) : E[k] = D[k]
  BY Added
<1> HIDE DEF E
<1>2. \A k \in 1 .. Len(E) : IsText(E[k]) => k \in 1 .. Len(D) /\ E[k] = D[k]
  BY <1>1
<1>3. \A k \in 1 .. Len(D) : k \in 1 .. Len(E) /\ E[k] = D[k]
                             /\ \A j \in 1 .. k - 1 : E[j] = D[j]
  BY <1>1
<1>4. Numbers(x, E)
  <2> SUFFICES ASSUME NEW k \in 1 .. Len(E), IsText(E[k])
               PROVE  /\ x.seq < E[k].seq
                      /\ E[k].seq = x.seq + 1 => E[k].segment = x.segment
                      /\ E[k].seq = x.seq + 1
                         \/ \E j \in 1 .. k - 1 : IsText(E[j]) /\ E[k].seq = E[j].seq + 1
                      /\ \A j \in 1 .. k - 1 : IsText(E[j]) =>
                           /\ E[j].seq < E[k].seq
                           /\ E[k].seq = E[j].seq + 1 => E[k].segment = After(E[j])
    BY DEF Numbers
  <2>1. k \in 1 .. Len(D) /\ E[k] = D[k] /\ \A j \in 1 .. k - 1 : E[j] = D[j]
    BY <1>2, <1>3
  <2> QED BY <2>1 DEF Numbers
<1>5. Count(x, E, g)
  <2> SUFFICES ASSUME g.at # "gone", h.at # "gone", g.seq = h.seq, g.segment = h.segment
               PROVE  Count(x, E, g)
    BY DEF Count
  <2> QED BY <1>2, <1>3 DEF Count
<1> QED BY <1>4, <1>5 DEF E

\* A text of the handler's next number continues the numbers.
LEMMA TextNumbered ==
    ASSUME NEW x \in SessionRecord, NEW D \in Seq(Message), NEW m \in Message,
           NEW h \in HandlerRecord, NEW g \in HandlerRecord,
           Numbers(x, D), Count(x, D, h), IsText(m), h.at # "gone",
           m.seq = h.seq + 1, m.segment = h.segment, g.seq = h.seq + 1, g.segment = After(m)
    PROVE  Numbers(x, D \o <<m>>) /\ Count(x, D \o <<m>>, g)
PROOF
<1> DEFINE E == D \o <<m>>
<1>1. /\ Len(D) \in Nat /\ Len(E) = Len(D) + 1 /\ E[Len(D) + 1] = m
      /\ \A k \in 1 .. Len(D) : E[k] = D[k]
  BY Added
<1> HIDE DEF E
<1>2. x.seq \in Nat /\ h.seq \in Nat /\ x.segment \in Nat /\ h.segment \in Nat
  BY VoiceSystemAssumption DEF SessionRecord, HandlerRecord
<1>3. \A k \in 1 .. Len(D) : k \in 1 .. Len(E) /\ E[k] = D[k]
                             /\ \A j \in 1 .. k - 1 : E[j] = D[j]
  BY <1>1
<1>4. \A k \in 1 .. Len(D) : D[k].seq \in Nat /\ D[k].segment \in Nat
  <2>1. \A k \in 1 .. Len(D) : D[k] \in Message
    OBVIOUS
  <2> QED BY <2>1 DEF Message
<1>5. /\ x.seq <= h.seq
      /\ x.seq = h.seq => x.segment = h.segment
      /\ x.seq = h.seq
         \/ \E k \in 1 .. Len(D) : IsText(D[k]) /\ D[k].seq = h.seq
      /\ \A k \in 1 .. Len(D) : IsText(D[k]) =>
           /\ D[k].seq <= h.seq
           /\ D[k].seq = h.seq => h.segment = After(D[k])
  BY DEF Count
<1>6. Numbers(x, E)
  <2> SUFFICES ASSUME NEW k \in 1 .. Len(E), IsText(E[k])
               PROVE  /\ x.seq < E[k].seq
                      /\ E[k].seq = x.seq + 1 => E[k].segment = x.segment
                      /\ E[k].seq = x.seq + 1
                         \/ \E j \in 1 .. k - 1 : IsText(E[j]) /\ E[k].seq = E[j].seq + 1
                      /\ \A j \in 1 .. k - 1 : IsText(E[j]) =>
                           /\ E[j].seq < E[k].seq
                           /\ E[k].seq = E[j].seq + 1 => E[k].segment = After(E[j])
    BY DEF Numbers
  <2>1. CASE k \in 1 .. Len(D)
    <3>1. E[k] = D[k] /\ \A j \in 1 .. k - 1 : E[j] = D[j]
      BY <1>3, <2>1
    <3> QED BY <3>1, <2>1 DEF Numbers
  <2>2. CASE k = Len(D) + 1
    <3>1. E[k] = m /\ k - 1 = Len(D) /\ \A j \in 1 .. k - 1 : j \in 1 .. Len(D) /\ E[j] = D[j]
      BY <1>1, <2>2
    <3>2. x.seq < m.seq /\ (m.seq = x.seq + 1 => m.segment = x.segment)
      BY <1>2, <1>5
    <3>3. m.seq = x.seq + 1 \/ \E j \in 1 .. Len(D) : IsText(D[j]) /\ m.seq = D[j].seq + 1
      BY <1>2, <1>5
    <3>4. \A j \in 1 .. Len(D) : IsText(D[j]) =>
            /\ D[j].seq < m.seq
            /\ m.seq = D[j].seq + 1 => m.segment = After(D[j])
      BY <1>2, <1>4, <1>5, SMTT(40)
    <3> QED BY <3>1, <3>2, <3>3, <3>4
  <2> QED BY <1>1, <2>1, <2>2
<1>7. Count(x, E, g)
  <2>1. x.seq <= g.seq /\ x.seq # g.seq
    BY <1>2, <1>5
  <2>2. Len(D) + 1 \in 1 .. Len(E) /\ IsText(E[Len(D) + 1]) /\ E[Len(D) + 1].seq = g.seq
    BY <1>1
  <2>3. ASSUME NEW k \in 1 .. Len(E), IsText(E[k])
        PROVE  E[k].seq <= g.seq /\ (E[k].seq = g.seq => g.segment = After(E[k]))
    <3>1. CASE k \in 1 .. Len(D)
      <4>1. E[k] = D[k] /\ D[k].seq <= h.seq /\ D[k].seq \in Nat
        BY <3>1, <1>3, <1>4, <1>5, <2>3
      <4> QED BY <4>1, <1>2, SMTT(40)
    <3>2. CASE k = Len(D) + 1
      BY <3>2, <1>1, <1>2
    <3> QED BY <1>1, <3>1, <3>2
  <2> QED BY <2>1, <2>2, <2>3 DEF Count
<1> QED BY <1>6, <1>7 DEF E

\* _client answers the connection.
LEMMA EnterTalks ==
    ASSUME NEW b \in BOOLEAN, NEW x \in SessionRecord, NEW U \in Seq(RequestLine),
           NEW D \in Seq(Message), NEW h \in HandlerRecord, NEW g \in HandlerRecord,
           Talk(b, x, U, D, h), h.at = "new", NEW m \in Message,
           \/ /\ m.type = "ready" /\ m.protocol = (IF b THEN 2 ELSE 1) /\ m.valid
              /\ g.at = "serving" /\ g.phase = h.phase /\ g.seq = h.seq /\ g.segment = h.segment
           \/ m.type = "busy" /\ m.valid /\ g.at = "gone" /\ g.phase = "idle"
    PROVE  Talk(b, x, U, D \o <<m>>, g)
PROOF
<1> DEFINE E == D \o <<m>>
<1>1. /\ Lines(b, x, D) /\ Numbers(x, D) /\ Count(x, D, h)
      /\ Opening(b, x, U, D, h) /\ Stopping(x, U)
      /\ Leading(x, U, D, h) /\ Ending(x, U, D, h)
  BY DEF Talk
<1>2. x.phase = "connecting" /\ U = <<>> /\ D = <<>> /\ h.phase = "idle"
  BY <1>1 DEF Opening
<1>3. Lines(b, x, E)
  BY <1>1, LineAdded DEF IsText
<1>4. Numbers(x, E) /\ Count(x, E, g)
  BY <1>1, NumbersKept DEF IsText
<1>5. Len(E) = 1 /\ E[1] = m /\ E # <<>>
  BY <1>2, Added
<1> HIDE DEF E
<1>6. Opening(b, x, U, E, g) /\ Stopping(x, U) /\ Leading(x, U, E, g) /\ Ending(x, U, E, g)
  BY <1>1, <1>2, <1>5 DEF Opening, Stopping, Leading, Ending
<1> QED BY <1>1, <1>3, <1>4, <1>6 DEF Talk, E

\* The service ends, or has ended: what it wrote is still read.
LEMMA GoneTalks ==
    ASSUME NEW b \in BOOLEAN, NEW x \in SessionRecord, NEW U \in Seq(RequestLine),
           NEW D \in Seq(Message), NEW h \in HandlerRecord, NEW g \in HandlerRecord,
           Talk(b, x, U, D, h), g.at = "gone" /\ g.phase = "idle"
    PROVE  Talk(b, x, <<>>, D, g)
PROOF
<1>1. /\ Lines(b, x, D) /\ Numbers(x, D) /\ Count(x, D, h)
      /\ Opening(b, x, U, D, h) /\ Stopping(x, U)
      /\ Leading(x, U, D, h) /\ Ending(x, U, D, h)
  BY DEF Talk
<1>2. Count(x, D, g) /\ Stopping(x, <<>>) /\ Leading(x, <<>>, D, g) /\ Ending(x, <<>>, D, g)
  BY DEF Count, Stopping, Leading, Ending
<1>3. Opening(b, x, <<>>, D, g)
  BY <1>1 DEF Opening
<1> QED BY <1>1, <1>2, <1>3 DEF Talk

\* A line that is no text: what else has to be shown is about the phases.
LEMMA LineTalks ==
    ASSUME NEW b \in BOOLEAN, NEW x \in SessionRecord, NEW U \in Seq(RequestLine),
           NEW D \in Seq(Message), NEW h \in HandlerRecord, NEW g \in HandlerRecord,
           NEW V, NEW m \in Message,
           Talk(b, x, U, D, h), h.at = "serving", g.at = "serving",
           g.seq = h.seq, g.segment = h.segment,
           m.type \in {"recording", "transcribing", "finished", "result", "error", "cancelled"},
           m.id = x.id, m.type \notin {"error", "result"} \/ Printable => m.valid,
           m.type = "finished" => b,
           m.type = "result" => ~b /\ m.text = 1 /\ h.phase = "transcribing",
           Opening(b, x, V, D \o <<m>>, g), Stopping(x, V),
           Leading(x, V, D \o <<m>>, g), Ending(x, V, D \o <<m>>, g)
    PROVE  Talk(b, x, V, D \o <<m>>, g)
PROOF
<1>1. Lines(b, x, D) /\ Numbers(x, D) /\ Count(x, D, h) /\ Leading(x, U, D, h)
  BY DEF Talk
<1>2. ~IsText(m)
  BY DEF IsText
<1>3. Lines(b, x, D \o <<m>>)
  BY <1>1, <1>2, LineAdded DEF Leading
<1>4. Numbers(x, D \o <<m>>) /\ Count(x, D \o <<m>>, g)
  BY <1>1, <1>2, NumbersKept
<1> QED BY <1>3, <1>4 DEF Talk

\* Session.start: `recording', or an error
LEMMA StartTalks ==
    ASSUME NEW b \in BOOLEAN, NEW x \in SessionRecord, NEW U \in Seq(RequestLine),
           NEW D \in Seq(Message), NEW h \in HandlerRecord, NEW g \in HandlerRecord,
           NEW m \in Message, x.phase \notin {"idle", "preview"},
           Talk(b, x, U, D, h), h.at = "serving", g.at = "serving",
           U # <<>>, U[1].type = "start",
           g.seq = h.seq, g.segment = h.segment, m.id = x.id,
           \/ m.type = "recording" /\ m.valid /\ g.phase = "recording"
           \/ m.type = "error" /\ (Printable => m.valid) /\ g.phase = h.phase
    PROVE  Talk(b, x, Tail(U), D \o <<m>>, g)
PROOF
<1> DEFINE E == D \o <<m>>
<1> USE DEF Hearing
<1>1. /\ Lines(b, x, D) /\ Numbers(x, D) /\ Count(x, D, h)
      /\ Opening(b, x, U, D, h) /\ Stopping(x, U)
      /\ Leading(x, U, D, h) /\ Ending(x, U, D, h)
  BY DEF Talk
<1>2. x.phase \notin Hearing
  BY <1>1 DEF Stopping
<1>3. x.phase \in SessionPhases
  BY DEF SessionRecord
<1>4. x.phase = "starting"
  BY <1>1, <1>2, <1>3 DEF Opening, SessionPhases
<1>5. Len(U) = 1 /\ D = <<>> /\ h.phase = "idle"
  BY <1>1, <1>4 DEF Opening
<1>6. Tail(U) = <<>>
  BY <1>5, Removed
<1>7. Len(E) = 1 /\ E[1] = m /\ E # <<>>
  BY <1>5, Added
<1> HIDE DEF E
<1>8. Opening(b, x, <<>>, E, g) /\ Stopping(x, <<>>)
  BY <1>1, <1>4, <1>5, <1>7 DEF Opening, Stopping
<1>9. Leading(x, <<>>, E, g) /\ Ending(x, <<>>, E, g)
  BY <1>4, <1>5, <1>7 DEF Leading, Ending, Ends
<1>10. Talk(b, x, <<>>, E, g)
  BY <1>8, <1>9, LineTalks DEF E
<1> QED BY <1>6, <1>10 DEF E

\* A line that moves the handler on: `transcribing', or the end of the session
LEMMA MoveTalks ==
    ASSUME NEW b \in BOOLEAN, NEW x \in SessionRecord, NEW U \in Seq(RequestLine),
           NEW D \in Seq(Message), NEW h \in HandlerRecord, NEW g \in HandlerRecord,
           NEW m \in Message, NEW V \in Seq(RequestLine), x.phase \notin {"idle", "preview"},
           Talk(b, x, U, D, h), h.at = "serving", g.at = "serving", h.phase # "idle",
           V = U \/ (x.phase \in Hearing /\ V = <<>>),
           g.seq = h.seq, g.segment = h.segment, m.id = x.id,
           m.type \notin {"error", "result"} \/ Printable => m.valid,
           \/ m.type = "transcribing" /\ h.phase = "recording" /\ g.phase = "transcribing"
           \/ /\ m.type \in Ends /\ g.phase = "idle"
              /\ m.type = "finished" => b
              /\ m.type = "result" => ~b /\ m.text = 1 /\ h.phase = "transcribing"
    PROVE  Talk(b, x, V, D \o <<m>>, g)
PROOF
<1> DEFINE E == D \o <<m>>
<1> USE DEF Hearing
<1>1. /\ Lines(b, x, D) /\ Numbers(x, D) /\ Count(x, D, h)
      /\ Opening(b, x, U, D, h) /\ Stopping(x, U)
      /\ Leading(x, U, D, h) /\ Ending(x, U, D, h)
  BY DEF Talk
<1>2. /\ Len(D) \in Nat /\ Len(E) = Len(D) + 1 /\ E[Len(D) + 1] = m /\ E # <<>>
      /\ \A k \in 1 .. Len(D) : E[k] = D[k]
      /\ D # <<>> => Len(D) > 0
  BY Added
<1> HIDE DEF E
<1>3. x.phase # "connecting"
  BY <1>1 DEF Opening
<1>4. Stopping(x, V)
  BY <1>1 DEF Stopping
<1>5. Opening(b, x, V, E, g)
  <2>1. x.phase = "starting" => V = U /\ U = <<>> /\ D # <<>> /\ D[1].type = "recording"
    BY <1>1 DEF Opening
  <2>2. x.phase = "starting" => V = <<>> /\ E[1].type = "recording"
    BY <2>1, <1>2
  <2>3. x.streaming = b
    BY <1>1, <1>3 DEF Opening
  <2> QED BY <2>2, <2>3, <1>2, <1>3 DEF Opening
<1>6. Leading(x, V, E, g)
  <2>1. CASE m.type = "transcribing" /\ h.phase = "recording" /\ g.phase = "transcribing"
    <3>1. \A k \in 1 .. Len(E) : E[k].type \notin Ends
      <4>1. \A k \in 1 .. Len(D) : D[k].type \notin Ends
        BY <1>1 DEF Leading
      <4>2. m.type \notin Ends
        BY <2>1 DEF Ends
      <4> QED BY <4>1, <4>2, <1>2, SMTT(40)
    <3>2. Len(D) + 1 \in 1 .. Len(E) /\ E[Len(D) + 1].type = "transcribing"
      BY <2>1, <1>2
    <3> QED BY <2>1, <3>1, <3>2 DEF Leading
  <2>2. CASE g.phase = "idle"
    BY <2>2 DEF Leading
  <2> QED BY <2>1, <2>2
<1>7. Ending(x, V, E, g)
  <2>1. g.phase = "idle" => Len(D) + 1 \in 1 .. Len(E) /\ E[Len(D) + 1].type \in Ends
    BY <1>2
  <2> QED BY <2>1 DEF Ending
<1>8. m.type \in {"recording", "transcribing", "finished", "result", "error", "cancelled"}
  BY DEF Ends
<1> QED BY <1>4, <1>5, <1>6, <1>7, <1>8, LineTalks DEF E, Ends

\* A stop that comes when the session has ended on the other side
LEMMA LateStopTalks ==
    ASSUME NEW b \in BOOLEAN, NEW x \in SessionRecord, NEW U \in Seq(RequestLine),
           NEW D \in Seq(Message), NEW h \in HandlerRecord,
           NEW m \in Message, x.phase \in Hearing,
           Talk(b, x, U, D, h), h.at = "serving", h.phase = "idle",
           m.id = x.id, m.type = "error", m.valid
    PROVE  Talk(b, x, <<>>, D \o <<m>>, h)
PROOF
<1> DEFINE E == D \o <<m>>
<1> USE DEF Hearing
<1>1. /\ Lines(b, x, D) /\ Numbers(x, D) /\ Count(x, D, h)
      /\ Opening(b, x, U, D, h) /\ Stopping(x, U)
      /\ Leading(x, U, D, h) /\ Ending(x, U, D, h)
  BY DEF Talk
<1>2. /\ Len(D) \in Nat /\ Len(E) = Len(D) + 1 /\ E[Len(D) + 1] = m
  BY Added
<1> HIDE DEF E
<1>3. Stopping(x, <<>>) /\ Leading(x, <<>>, E, h)
  BY DEF Stopping, Leading
<1>4. Opening(b, x, <<>>, E, h)
  BY <1>1 DEF Opening
<1>5. Ending(x, <<>>, E, h)
  <2>1. Len(D) + 1 \in 1 .. Len(E) /\ E[Len(D) + 1].type \in Ends
    BY <1>2 DEF Ends
  <2> QED BY <2>1 DEF Ending
<1> QED BY <1>3, <1>4, <1>5, LineTalks DEF E

\* The other stop that changes nothing: the handler is transcribing already.
LEMMA IdleStopTalks ==
    ASSUME NEW b \in BOOLEAN, NEW x \in SessionRecord, NEW U \in Seq(RequestLine),
           NEW D \in Seq(Message), NEW h \in HandlerRecord, x.phase \in Hearing,
           Talk(b, x, U, D, h), h.at = "serving", h.phase = "transcribing"
    PROVE  Talk(b, x, <<>>, D, h)
PROOF
<1> USE DEF Hearing
<1>1. /\ Lines(b, x, D) /\ Numbers(x, D) /\ Count(x, D, h)
      /\ Opening(b, x, U, D, h) /\ Stopping(x, U)
      /\ Leading(x, U, D, h) /\ Ending(x, U, D, h)
  BY DEF Talk
<1>2. Opening(b, x, <<>>, D, h) /\ Stopping(x, <<>>)
  BY <1>1 DEF Opening, Stopping
<1>3. Leading(x, <<>>, D, h) /\ Ending(x, <<>>, D, h)
  BY <1>1 DEF Leading, Ending
<1> QED BY <1>1, <1>2, <1>3 DEF Talk

\* publish()
LEMMA PublishTalks ==
    ASSUME NEW b \in BOOLEAN, NEW x \in SessionRecord, NEW U \in Seq(RequestLine),
           NEW D \in Seq(Message), NEW h \in HandlerRecord, NEW g \in HandlerRecord,
           NEW m \in Message, x.phase \notin {"idle", "preview"},
           Talk(b, x, U, D, h), h.at = "serving", g.at = "serving",
           h.phase # "idle", g.phase = h.phase, b,
           IsText(m), m.id = x.id, m.valid, m.seq = h.seq + 1, m.segment = h.segment,
           g.seq = h.seq + 1, g.segment = After(m)
    PROVE  Talk(b, x, U, D \o <<m>>, g)
PROOF
<1> DEFINE E == D \o <<m>>
<1>1. /\ Lines(b, x, D) /\ Numbers(x, D) /\ Count(x, D, h)
      /\ Opening(b, x, U, D, h) /\ Stopping(x, U)
      /\ Leading(x, U, D, h) /\ Ending(x, U, D, h)
  BY DEF Talk
<1>2. /\ Len(D) \in Nat /\ Len(E) = Len(D) + 1 /\ E[Len(D) + 1] = m /\ E # <<>>
      /\ \A k \in 1 .. Len(D) : E[k] = D[k]
      /\ D # <<>> => Len(D) > 0
  BY Added
<1>3. Lines(b, x, E)
  BY <1>1, LineAdded DEF IsText
<1>4. Numbers(x, E) /\ Count(x, E, g)
  BY <1>1, TextNumbered
<1> HIDE DEF E
<1>5. x.phase # "connecting"
  BY <1>1 DEF Opening
<1>6. Opening(b, x, U, E, g)
  <2>1. x.phase = "starting" => U = <<>> /\ D # <<>> /\ D[1].type = "recording"
    BY <1>1 DEF Opening
  <2>2. x.phase = "starting" => U = <<>> /\ E[1].type = "recording"
    BY <2>1, <1>2
  <2>3. x.streaming = b
    BY <1>1, <1>5 DEF Opening
  <2> QED BY <2>2, <2>3, <1>2, <1>5 DEF Opening
<1>7. Leading(x, U, E, g)
  <2>1. m.type \notin Ends /\ m.type # "transcribing"
    BY DEF IsText, Ends
  <2>2. \A k \in 1 .. Len(E) : (k \in 1 .. Len(D) /\ E[k] = D[k]) \/ E[k] = m
    BY <1>2
  <2>3. \A k \in 1 .. Len(D) : k \in 1 .. Len(E)
    BY <1>2
  <2> QED BY <2>1, <2>2, <2>3, <1>1, <1>2 DEF Leading
<1>8. Ending(x, U, E, g)
  BY DEF Ending
<1> QED BY <1>1, <1>3, <1>4, <1>6, <1>7, <1>8 DEF Talk, E

-----------------------------------------------------------------------------
(* The add-on asks                                                         *)

\* The `ready' that is due is answered by a start request.
LEMMA WelcomeTalks ==
    ASSUME NEW b \in BOOLEAN, NEW x \in SessionRecord, NEW U \in Seq(RequestLine),
           NEW D \in Seq(Message), D # <<>>, NEW h \in HandlerRecord,
           NEW q \in RequestLine, q.type = "start",
           Talk(b, x, U, D, h), Welcomes(x, Head(D)),
           NEW y, y = Welcomed(x, Head(D)), NEW V,
           V = IF h.at = "gone" THEN U ELSE Append(U, q)
    PROVE  Talk(b, y, V, Tail(D), h)
PROOF
<1> USE DEF Hearing
<1>1. /\ Lines(b, x, D) /\ Numbers(x, D) /\ Count(x, D, h)
      /\ Opening(b, x, U, D, h) /\ Stopping(x, U)
      /\ Leading(x, U, D, h) /\ Ending(x, U, D, h)
  BY DEF Talk
<1>2. x.phase = "connecting" /\ Head(D).type = "ready"
  BY DEF Welcomes
<1>3. /\ Head(D) = D[1] /\ Len(D) = 1 /\ 1 \in 1 .. Len(D)
      /\ Tail(D) = <<>> /\ Len(Tail(D)) = 0
  <2>1. Len(D) \in Nat /\ Len(D) > 0 /\ Head(D) = D[1] /\ Len(Tail(D)) = Len(D) - 1
        /\ (Len(D) = 1 => Tail(D) = <<>>)
    BY Removed
  <2>2. Len(D) <= 1
    BY <1>1, <1>2 DEF Opening
  <2> QED BY <2>1, <2>2
<1>4. U = <<>> /\ h.phase = "idle" /\ h.at # "new" /\ D[1].protocol = IF b THEN 2 ELSE 1
  BY <1>1, <1>2, <1>3 DEF Opening
<1>5. y.phase = "starting" /\ y.streaming = b /\ y.seq = x.seq /\ y.segment = x.segment
      /\ y.id = x.id /\ y \in SessionRecord
  <2>1. y = [x EXCEPT !.streaming = b, !.phase = "starting"]
    <3>1. (D[1].protocol = 2) = b
      BY <1>4
    <3> QED BY <3>1, <1>3 DEF Welcomed
  <2> QED BY <2>1 DEF SessionRecord, SessionPhases
<1>6. Numbers(y, Tail(D)) /\ Count(y, Tail(D), h)
  BY <1>1, <1>2, <1>5, NumbersHeard DEF IsText
<1>7. Lines(b, y, Tail(D))
  BY <1>3 DEF Lines
<1>8. /\ h.at = "gone" => V = <<>>
      /\ h.at # "gone" => V # <<>> /\ Len(V) = 1 /\ V[1].type = "start"
  BY <1>4, Added
<1>9. Opening(b, y, V, Tail(D), h) /\ Stopping(y, V)
  BY <1>3, <1>4, <1>5, <1>8 DEF Opening, Stopping
<1>10. Leading(y, V, Tail(D), h) /\ Ending(y, V, Tail(D), h)
  BY <1>3, <1>4, <1>5, <1>8 DEF Leading, Ending
<1> QED BY <1>6, <1>7, <1>9, <1>10 DEF Talk

\* toggle() of a recording asks for the stop.
LEMMA ToggleTalks ==
    ASSUME NEW b \in BOOLEAN, NEW x \in SessionRecord, NEW U \in Seq(RequestLine),
           NEW D \in Seq(Message), NEW h \in HandlerRecord,
           NEW q \in RequestLine, q.type = "stop", x.phase = "recording",
           h.at # "serving" => h.phase = "idle",
           Talk(b, x, U, D, h),
           NEW y, y = [x EXCEPT !.phase = "stopping"], NEW V,
           V = IF h.at = "gone" THEN U ELSE Append(U, q)
    PROVE  Talk(b, y, V, D, h)
PROOF
<1> USE DEF Hearing
<1>1. /\ Lines(b, x, D) /\ Numbers(x, D) /\ Count(x, D, h)
      /\ Opening(b, x, U, D, h) /\ Stopping(x, U)
      /\ Leading(x, U, D, h) /\ Ending(x, U, D, h)
  BY DEF Talk
<1>2. U = <<>>
  BY <1>1 DEF Stopping
<1>3. y.phase = "stopping" /\ y.streaming = x.streaming /\ y.seq = x.seq
      /\ y.segment = x.segment /\ y.id = x.id
  BY DEF SessionRecord
<1>4. /\ h.at = "gone" => V = <<>>
      /\ h.at # "gone" => V # <<>> /\ Len(V) = 1 /\ V[1].type = "stop"
  BY <1>2, Added
<1>5. Lines(b, y, D) /\ Numbers(y, D) /\ Count(y, D, h)
  BY <1>1, <1>3 DEF Lines, Numbers, Count
<1>6. Opening(b, y, V, D, h) /\ Stopping(y, V)
  BY <1>1, <1>3, <1>4 DEF Opening, Stopping
<1>7. Leading(y, V, D, h)
  BY <1>1, <1>3, <1>4 DEF Leading
<1>8. Ending(y, V, D, h)
  BY <1>1, <1>3, <1>4 DEF Ending
<1> QED BY <1>5, <1>6, <1>7, <1>8 DEF Talk

\* A new session and its connection.
LEMMA BeginTalks ==
    ASSUME NEW b \in BOOLEAN, NEW i \in Nat, NEW c \in BOOLEAN
    PROVE  Talk(b, Begin(i, Field, c), <<>>, <<>>, Handler)
PROOF
<1>1. /\ Begin(i, Field, c).phase = "connecting" /\ Begin(i, Field, c).seq = 0
      /\ Begin(i, Field, c).segment = 1
  BY DEF Begin, Blank
<1>2. Handler.phase = "idle" /\ Handler.at = "new" /\ Handler.seq = 0 /\ Handler.segment = 1
  BY DEF Handler
<1>3. Len(<<>>) = 0
  OBVIOUS
<1> QED BY <1>1, <1>2, <1>3
     DEF Talk, Lines, Numbers, Count, Opening, Stopping, Leading, Ending, Hearing

-----------------------------------------------------------------------------
(* Every step keeps the invariant                                          *)

\* The session that waits for lines has a connection of its own.
LEMMA Connected ==
    ASSUME IInv
    PROVE  /\ streaming \in BOOLEAN /\ s \in SessionRecord /\ next \in 0 .. MaxSessions
           /\ link \in [Sessions -> {"unused", "open", "closed"}]
           /\ up \in [Sessions -> Seq(RequestLine)] /\ down \in [Sessions -> Seq(Message)]
           /\ svc \in [Sessions -> HandlerRecord]
           /\ owner = (\E i \in Sessions : svc[i].at \in {"serving", "closing"})
           /\ alive \in BOOLEAN /\ deaths \in 0 .. MaxDeaths
           /\ MaxSessions \in Nat /\ MaxTexts \in Nat /\ MaxDeaths \in Nat
           /\ s.phase # "idle" => s.id \in Sessions /\ link[s.id] # "unused"
           /\ s.phase \notin {"idle", "preview"} => link[s.id] = "open"
           /\ s.phase \notin {"idle", "preview"} =>
                Talk(streaming, s, up[s.id], down[s.id], svc[s.id])
PROOF
<1>1. /\ streaming \in BOOLEAN /\ s \in SessionRecord /\ next \in 0 .. MaxSessions
      /\ link \in [Sessions -> {"unused", "open", "closed"}]
      /\ up \in [Sessions -> Seq(RequestLine)] /\ down \in [Sessions -> Seq(Message)]
      /\ svc \in [Sessions -> HandlerRecord]
      /\ owner = (\E i \in Sessions : svc[i].at \in {"serving", "closing"})
      /\ alive \in BOOLEAN /\ deaths \in 0 .. MaxDeaths
  BY DEF IInv, TypeOK, SessionRecord, RequestLine, HandlerRecord
<1>2. MaxSessions \in Nat /\ MaxTexts \in Nat /\ MaxDeaths \in Nat
  BY VoiceSystemAssumption
<1>3. s.id \in Nat
  BY <1>1 DEF SessionRecord
<1>4. s.id <= next /\ (s.phase = "idle" <=> s.id = 0)
  BY DEF IInv, Links, NoSession
<1>5. s.phase # "idle" => s.id \in Sessions /\ ~(s.id > next)
  BY <1>1, <1>2, <1>3, <1>4, SMTT(40) DEF Sessions
<1>6. s.phase # "idle" => link[s.id] # "unused"
  BY <1>5 DEF IInv, Links
<1>7. s.phase \notin {"idle", "preview"} => link[s.id] = "open"
  BY <1>5 DEF IInv, Links
<1> QED BY <1>1, <1>2, <1>5, <1>6, <1>7 DEF IInv, Conversation

\* The lines of the service
LEMMA LinesTyped ==
    \A i \in Nat, type \in {"ready", "busy", "error", "recording", "transcribing",
                            "result", "partial", "final", "finished", "cancelled"} :
        /\ Line(type, i) \in Message
        /\ Line(type, i).type = type /\ Line(type, i).id = i /\ Line(type, i).valid = TRUE
PROOF
<1> SUFFICES ASSUME NEW i \in Nat,
                    NEW type \in {"ready", "busy", "error", "recording", "transcribing",
                                  "result", "partial", "final", "finished", "cancelled"}
             PROVE  /\ Line(type, i) \in Message
                    /\ Line(type, i).type = type /\ Line(type, i).id = i
                    /\ Line(type, i).valid = TRUE
  OBVIOUS
<1>1. 0 \in 0 .. 2 /\ 0 \in 0 .. 1 /\ 0 \in Nat
  OBVIOUS
<1>2. Line(type, i) \in Message
  BY <1>1 DEF Line, Message
<1>3. Line(type, i).type = type /\ Line(type, i).id = i /\ Line(type, i).valid = TRUE
  BY DEF Line
<1> QED BY <1>2, <1>3

LEMMA ErrorsTyped ==
    \A i \in Nat, v \in BOOLEAN :
        /\ ErrorLine(i, v) \in Message
        /\ ErrorLine(i, v).type = "error" /\ ErrorLine(i, v).id = i
        /\ ErrorLine(i, v).valid = v
PROOF
<1> SUFFICES ASSUME NEW i \in Nat, NEW v \in BOOLEAN
             PROVE  /\ ErrorLine(i, v) \in Message
                    /\ ErrorLine(i, v).type = "error" /\ ErrorLine(i, v).id = i
                    /\ ErrorLine(i, v).valid = v
  OBVIOUS
<1>1. Line("error", i) \in Message /\ Line("error", i).type = "error" /\ Line("error", i).id = i
  BY LinesTyped
<1>2. ErrorLine(i, v) \in Message
  BY <1>1 DEF ErrorLine, Message
<1>3. ErrorLine(i, v).type = "error" /\ ErrorLine(i, v).id = i /\ ErrorLine(i, v).valid = v
  BY DEF ErrorLine, Line
<1> QED BY <1>2, <1>3

LEMMA ResultsTyped ==
    \A i \in Nat, v \in BOOLEAN :
        /\ ResultLine(i, v) \in Message
        /\ ResultLine(i, v).type = "result" /\ ResultLine(i, v).id = i
        /\ ResultLine(i, v).text = 1 /\ ResultLine(i, v).valid = v
PROOF
<1> SUFFICES ASSUME NEW i \in Nat, NEW v \in BOOLEAN
             PROVE  /\ ResultLine(i, v) \in Message
                    /\ ResultLine(i, v).type = "result" /\ ResultLine(i, v).id = i
                    /\ ResultLine(i, v).text = 1 /\ ResultLine(i, v).valid = v
  OBVIOUS
<1>1. Line("result", i) \in Message /\ 1 \in 0 .. 1
  BY LinesTyped
<1>2. ResultLine(i, v) \in Message
  BY <1>1 DEF ResultLine, Message
<1>3. /\ ResultLine(i, v).type = "result" /\ ResultLine(i, v).id = i
      /\ ResultLine(i, v).text = 1 /\ ResultLine(i, v).valid = v
  BY DEF ResultLine, Line
<1> QED BY <1>2, <1>3

\* A step of one connection's handler keeps the invariant if it keeps the
\* conversation and the ownership.
LEMMA ServiceKeeps ==
    ASSUME IInv, AddonUnchanged, NEW i \in Sessions, link[i] # "unused",
           up' \in [Sessions -> Seq(RequestLine)], down' \in [Sessions -> Seq(Message)],
           svc' \in [Sessions -> HandlerRecord],
           \A j \in Sessions : j # i => up'[j] = up[j] /\ down'[j] = down[j] /\ svc'[j] = svc[j],
           svc'[i].at # "new", svc'[i].at # "serving" => svc'[i].phase = "idle",
           svc'[i].at = "closing" => link[i] = "closed",
           IF svc'[i].at \in {"serving", "closing"}
           THEN owner' = TRUE /\ (svc[i].at \in {"serving", "closing"} \/ ~owner)
           ELSE owner' = IF svc[i].at \in {"serving", "closing"} THEN FALSE ELSE owner,
           link[i] = "open" => Talk(streaming, s, up'[i], down'[i], svc'[i])
    PROVE  IInv'
PROOF
<1> USE Connected
<1>1. UNCHANGED <<streaming, s, next, link, alive, deaths>>
  BY DEF AddonUnchanged
<1>2. \A j, k \in Sessions :
        svc[j].at \in {"serving", "closing"} /\ svc[k].at \in {"serving", "closing"} => j = k
  BY DEF IInv, Handlers
<1>3. \A j, k \in Sessions :
        svc'[j].at \in {"serving", "closing"} /\ svc'[k].at \in {"serving", "closing"} => j = k
  BY <1>2, ZenonT(60)
<1>4. owner' = (\E j \in Sessions : svc'[j].at \in {"serving", "closing"})
  <2>1. CASE svc'[i].at \in {"serving", "closing"}
    BY <2>1
  <2>2. CASE svc'[i].at \notin {"serving", "closing"} /\ svc[i].at \in {"serving", "closing"}
    BY <2>2, <1>2
  <2>3. CASE svc'[i].at \notin {"serving", "closing"} /\ svc[i].at \notin {"serving", "closing"}
    BY <2>3
  <2> QED BY <2>1, <2>2, <2>3
<1>5. TypeOK'
  BY <1>1, <1>4 DEF TypeOK, SessionRecord, RequestLine, HandlerRecord
<1>6. Links'
  BY <1>1 DEF IInv, Links
<1>7. Handlers'
  <2>1. ASSUME NEW j \in Sessions
        PROVE  /\ svc'[j].at # "serving" => svc'[j].phase = "idle"
               /\ svc'[j].at = "closing" => link'[j] = "closed"
               /\ link'[j] = "unused" => svc'[j].at = "new"
               /\ svc'[j].at = "new" => svc'[j] = Handler /\ up'[j] = <<>> /\ down'[j] = <<>>
    <3>1. CASE j = i
      BY <3>1, <1>1
    <3>2. CASE j # i
      <4>1. svc'[j] = svc[j] /\ up'[j] = up[j] /\ down'[j] = down[j] /\ link'[j] = link[j]
        BY <3>2, <1>1
      <4>2. /\ svc[j].at # "serving" => svc[j].phase = "idle"
            /\ svc[j].at = "closing" => link[j] = "closed"
            /\ link[j] = "unused" => svc[j].at = "new"
            /\ svc[j].at = "new" => svc[j] = Handler /\ up[j] = <<>> /\ down[j] = <<>>
        BY DEF IInv, Handlers
      <4> QED BY <4>1, <4>2
    <3> QED BY <3>1, <3>2
  <2> QED BY <2>1, <1>3 DEF Handlers
<1>8. Conversation'
  <2> SUFFICES ASSUME s.phase \notin {"idle", "preview"}
               PROVE  Talk(streaming, s, up'[s.id], down'[s.id], svc'[s.id])
    BY <1>1 DEF Conversation
  <2>1. CASE s.id = i
    BY <2>1
  <2>2. CASE s.id # i
    BY <2>2
  <2> QED BY <2>1, <2>2
<1> QED BY <1>5, <1>6, <1>7, <1>8 DEF IInv

\* What emit() and the handler's own update come to
LEMMA Emitted ==
    ASSUME IInv, NEW i \in Sessions, NEW m \in Message, Emit(i, <<m>>)
    PROVE  /\ down' \in [Sessions -> Seq(Message)]
           /\ \A j \in Sessions : j # i => down'[j] = down[j]
           /\ link[i] = "open" => down'[i] = down[i] \o <<m>>
PROOF
<1> USE Connected
<1>1. down[i] \o <<m>> \in Seq(Message)
  BY Added
<1> QED BY <1>1 DEF Emit

\* _client meets the connection.
LEMMA EnterKeeps ==
    ASSUME IInv, NEW i \in Sessions, Enter(i)
    PROVE  IInv'
PROOF
<1> USE Connected
<1>1. /\ svc[i].at = "new" /\ link[i] # "unused" /\ UNCHANGED up /\ AddonUnchanged
      /\ svc[i] = Handler
  BY DEF Enter, IInv, Handlers
<1>2. link[i] = "open" => i = s.id /\ s.phase \notin {"idle", "preview"}
  BY DEF IInv, Links
<1>3. CASE owner
  <2> DEFINE m == Line("busy", NoSession)
  <2>1. m \in Message /\ m.type = "busy" /\ m.valid
    <3>1. NoSession \in Nat
      BY DEF NoSession
    <3>2. /\ Line("busy", NoSession) \in Message
          /\ Line("busy", NoSession).type = "busy" /\ Line("busy", NoSession).valid = TRUE
      BY <3>1, LinesTyped
    <3> QED BY <3>2
  <2>2. Emit(i, <<m>>) /\ svc' = [svc EXCEPT ![i] = Gone] /\ owner' = owner
    BY <1>3 DEF Enter
  <2> HIDE DEF m
  <2>3. Gone \in HandlerRecord /\ Gone.at = "gone" /\ Gone.phase = "idle"
    BY HandlersTyped DEF Gone, Handler
  <2>4. /\ down' \in [Sessions -> Seq(Message)]
        /\ \A j \in Sessions : j # i => down'[j] = down[j]
        /\ link[i] = "open" => down'[i] = down[i] \o <<m>>
    BY <2>1, <2>2, Emitted
  <2>5. link[i] = "open" => Talk(streaming, s, up'[i], down'[i], svc'[i])
    <3> SUFFICES ASSUME link[i] = "open"
                 PROVE  Talk(streaming, s, up'[i], down'[i], svc'[i])
      OBVIOUS
    <3>1. Talk(streaming, s, up[i], down[i], svc[i])
      BY <1>2
    <3>2. up[i] \in Seq(RequestLine) /\ down[i] \in Seq(Message) /\ svc[i] \in HandlerRecord
      OBVIOUS
    <3>3. Talk(streaming, s, up[i], down[i] \o <<m>>, Gone)
      BY <1>1, <2>1, <2>3, <3>1, <3>2, EnterTalks
    <3> QED BY <1>1, <2>2, <2>4, <3>3
  <2> QED BY <1>1, <1>3, <2>2, <2>3, <2>4, <2>5, ServiceKeeps
<1>4. CASE ~owner
  <2> DEFINE r == Line("ready", NoSession)
             m == [r EXCEPT !.protocol = IF streaming THEN 2 ELSE 1]
             g == [svc[i] EXCEPT !.at = "serving"]
  <2>1. r \in Message /\ r.type = "ready" /\ r.valid
    <3>1. NoSession \in Nat
      BY DEF NoSession
    <3>2. /\ Line("ready", NoSession) \in Message
          /\ Line("ready", NoSession).type = "ready" /\ Line("ready", NoSession).valid = TRUE
      BY <3>1, LinesTyped
    <3> QED BY <3>2
  <2>2. Emit(i, <<m>>) /\ svc' = [svc EXCEPT ![i] = g] /\ owner' = TRUE
    BY <1>4 DEF Enter
  <2> HIDE DEF r
  <2>3. m \in Message /\ m.type = "ready" /\ m.valid /\ m.protocol = IF streaming THEN 2 ELSE 1
    <3>1. (IF streaming THEN 2 ELSE 1) \in 0 .. 2
      OBVIOUS
    <3> QED BY <2>1, <3>1 DEF Message
  <2>4. /\ g \in HandlerRecord /\ g.at = "serving" /\ g.phase = svc[i].phase
        /\ g.seq = svc[i].seq /\ g.segment = svc[i].segment
    <3>1. svc[i] \in HandlerRecord
      OBVIOUS
    <3> QED BY <3>1 DEF HandlerRecord
  <2> HIDE DEF m, g
  <2>5. /\ down' \in [Sessions -> Seq(Message)]
        /\ \A j \in Sessions : j # i => down'[j] = down[j]
        /\ link[i] = "open" => down'[i] = down[i] \o <<m>>
    BY <2>2, <2>3, Emitted
  <2>6. link[i] = "open" => Talk(streaming, s, up'[i], down'[i], svc'[i])
    <3> SUFFICES ASSUME link[i] = "open"
                 PROVE  Talk(streaming, s, up'[i], down'[i], svc'[i])
      OBVIOUS
    <3>1. Talk(streaming, s, up[i], down[i], svc[i])
      BY <1>2
    <3>2. up[i] \in Seq(RequestLine) /\ down[i] \in Seq(Message) /\ svc[i] \in HandlerRecord
      OBVIOUS
    <3>3. Talk(streaming, s, up[i], down[i] \o <<m>>, g)
      BY <1>1, <2>3, <2>4, <3>1, <3>2, EnterTalks
    <3> QED BY <1>1, <2>2, <2>5, <3>3
  <2> QED BY <1>1, <1>4, <2>2, <2>4, <2>5, <2>6, ServiceKeeps
<1> QED BY <1>3, <1>4

\* Session.stop, for a request or at the limit
LEMMA StopEmits ==
    ASSUME IInv, NEW i \in Sessions, svc[i].at = "serving", Stopped(i),
           NEW V \in Seq(RequestLine),
           link[i] = "open" => \/ V = up[i] /\ svc[i].phase = "recording"
                               \/ V = <<>> /\ s.phase \in Hearing
    PROVE  /\ down' \in [Sessions -> Seq(Message)] /\ svc' \in [Sessions -> HandlerRecord]
           /\ \A j \in Sessions : j # i => down'[j] = down[j] /\ svc'[j] = svc[j]
           /\ svc'[i].at = "serving"
           /\ link[i] = "open" => Talk(streaming, s, V, down'[i], svc'[i])
PROOF
<1> USE Connected
<1>1. /\ svc[i] \in HandlerRecord /\ up[i] \in Seq(RequestLine) /\ down[i] \in Seq(Message)
      /\ svc[i].phase \in {"idle", "recording", "transcribing"}
  BY DEF HandlerRecord
<1>2. i \in Nat
  BY DEF Sessions
<1>3. link[i] = "open" => /\ i = s.id /\ s.phase \notin {"idle", "preview"}
                          /\ Talk(streaming, s, up[i], down[i], svc[i])
  BY DEF IInv, Links
<1>4. ASSUME NEW m \in Message, m.id = i, m.type \notin {"error", "result"} \/ Printable => m.valid,
             NEW p \in {"idle", "transcribing"}, svc[i].phase = "recording",
             \/ m.type = "transcribing" /\ p = "transcribing"
             \/ m.type = "error" /\ p = "idle",
             svc' = [svc EXCEPT ![i].phase = p], Emit(i, <<m>>)
      PROVE  /\ down' \in [Sessions -> Seq(Message)] /\ svc' \in [Sessions -> HandlerRecord]
             /\ \A j \in Sessions : j # i => down'[j] = down[j] /\ svc'[j] = svc[j]
             /\ svc'[i].at = "serving"
             /\ link[i] = "open" => Talk(streaming, s, V, down'[i], svc'[i])
  <2> DEFINE g == [svc[i] EXCEPT !.phase = p]
  <2>1. /\ g \in HandlerRecord /\ g.phase = p /\ g.at = "serving"
        /\ g.seq = svc[i].seq /\ g.segment = svc[i].segment
    <3>1. p \in {"idle", "recording", "transcribing"} /\ svc[i] \in HandlerRecord
      BY <1>1
    <3>2. svc[i].at = "serving"
      OBVIOUS
    <3> QED BY <3>1, <3>2 DEF HandlerRecord
  <2>2. svc' = [svc EXCEPT ![i] = g]
    BY <1>4
  <2> HIDE DEF g
  <2>3. /\ down' \in [Sessions -> Seq(Message)]
        /\ \A j \in Sessions : j # i => down'[j] = down[j]
        /\ link[i] = "open" => down'[i] = down[i] \o <<m>>
    BY <1>4, Emitted
  <2>4. ASSUME link[i] = "open" PROVE Talk(streaming, s, V, down[i] \o <<m>>, g)
    <3>1. V = up[i] \/ (s.phase \in Hearing /\ V = <<>>)
      BY <2>4
    <3>2. m.type \in Ends \/ m.type = "transcribing"
      BY <1>4 DEF Ends
    <3>3. m.type # "finished" /\ m.type # "result"
      BY <1>4
    <3> QED BY <1>1, <1>3, <1>4, <2>1, <2>4, <3>1, <3>2, <3>3, MoveTalks
  <2> QED BY <2>1, <2>2, <2>3, <2>4
<1>5. CASE svc[i].phase = "recording"
  <2>1. \/ /\ svc' = [svc EXCEPT ![i].phase = "transcribing"]
           /\ Emit(i, <<Line("transcribing", i)>>)
        \/ /\ svc' = [svc EXCEPT ![i].phase = "idle"]
           /\ \E oneLine \in OneLine : Emit(i, <<ErrorLine(i, oneLine)>>)
    BY <1>5 DEF Stopped
  <2>2. CASE /\ svc' = [svc EXCEPT ![i].phase = "transcribing"]
             /\ Emit(i, <<Line("transcribing", i)>>)
    <3>1. /\ Line("transcribing", i) \in Message /\ Line("transcribing", i).type = "transcribing"
          /\ Line("transcribing", i).id = i /\ Line("transcribing", i).valid = TRUE
      BY <1>2, LinesTyped
    <3> QED BY <1>4, <1>5, <2>2, <3>1
  <2>3. CASE /\ svc' = [svc EXCEPT ![i].phase = "idle"]
             /\ \E oneLine \in OneLine : Emit(i, <<ErrorLine(i, oneLine)>>)
    <3>1. PICK oneLine \in OneLine : Emit(i, <<ErrorLine(i, oneLine)>>)
      BY <2>3
    <3>2. oneLine \in BOOLEAN /\ (Printable => oneLine = TRUE)
      BY VoiceSystemAssumption DEF Printable
    <3>3. /\ ErrorLine(i, oneLine) \in Message /\ ErrorLine(i, oneLine).type = "error"
          /\ ErrorLine(i, oneLine).id = i /\ (Printable => ErrorLine(i, oneLine).valid = TRUE)
      BY <1>2, <3>2, ErrorsTyped
    <3> QED BY <1>4, <1>5, <2>3, <3>1, <3>3
  <2> QED BY <2>1, <2>2, <2>3
<1>6. CASE svc[i].phase = "transcribing"
  <2>1. UNCHANGED <<svc, down>>
    BY <1>6 DEF Stopped
  <2>2. ASSUME link[i] = "open" PROVE Talk(streaming, s, V, down[i], svc[i])
    BY <1>1, <1>3, <1>6, <2>2, IdleStopTalks
  <2> QED BY <2>1, <2>2
<1>7. CASE svc[i].phase = "idle"
  <2> DEFINE m == ErrorLine(i, TRUE)
  <2>1. Emit(i, <<m>>) /\ UNCHANGED svc
    BY <1>7 DEF Stopped
  <2>2. m \in Message /\ m.type = "error" /\ m.id = i /\ m.valid = TRUE
    BY <1>2, ErrorsTyped
  <2> HIDE DEF m
  <2>3. /\ down' \in [Sessions -> Seq(Message)]
        /\ \A j \in Sessions : j # i => down'[j] = down[j]
        /\ link[i] = "open" => down'[i] = down[i] \o <<m>>
    BY <2>1, <2>2, Emitted
  <2>4. ASSUME link[i] = "open" PROVE Talk(streaming, s, V, down[i] \o <<m>>, svc[i])
    <3>1. V = <<>> /\ s.phase \in Hearing
      BY <2>4, <1>7
    <3> QED BY <1>1, <1>3, <1>7, <2>2, <2>4, <3>1, LateStopTalks
  <2> QED BY <2>1, <2>3, <2>4
<1> QED BY <1>1, <1>5, <1>6, <1>7

\* A handler in its loop stays the owner.
LEMMA ServingKeeps ==
    ASSUME IInv, AddonUnchanged, UNCHANGED owner, NEW i \in Sessions, svc[i].at = "serving",
           up' \in [Sessions -> Seq(RequestLine)], down' \in [Sessions -> Seq(Message)],
           svc' \in [Sessions -> HandlerRecord],
           \A j \in Sessions : j # i => up'[j] = up[j] /\ down'[j] = down[j] /\ svc'[j] = svc[j],
           svc'[i].at = "serving",
           link[i] = "open" => Talk(streaming, s, up'[i], down'[i], svc'[i])
    PROVE  IInv'
PROOF
<1>1. owner = TRUE
  BY Connected
<1>2. link[i] # "unused"
  BY DEF IInv, Handlers
<1> QED BY <1>1, <1>2, ServiceKeeps

\* The loop of _client reads a request.
LEMMA ServeKeeps ==
    ASSUME IInv, NEW i \in Sessions, Serve(i)
    PROVE  IInv'
PROOF
<1> USE Connected
<1> DEFINE U == up[i]
<1>1. /\ svc[i].at = "serving" /\ up[i] # <<>> /\ up' = [up EXCEPT ![i] = Tail(@)]
      /\ UNCHANGED owner /\ AddonUnchanged
      /\ svc[i] \in HandlerRecord /\ U \in Seq(RequestLine) /\ down[i] \in Seq(Message)
  BY DEF Serve
<1>2. /\ Tail(U) \in Seq(RequestLine) /\ Head(U) = U[1] /\ Head(U) \in RequestLine
      /\ Len(U) > 0 /\ Len(U) \in Nat /\ (Len(U) = 1 => Tail(U) = <<>>)
  BY <1>1, Removed
<1>3. /\ up' \in [Sessions -> Seq(RequestLine)] /\ up'[i] = Tail(U)
      /\ \A j \in Sessions : j # i => up'[j] = up[j]
  BY <1>1, <1>2
<1>4. i \in Nat
  BY DEF Sessions
<1>5. link[i] = "open" => /\ i = s.id /\ s.phase \notin {"idle", "preview"}
                          /\ Talk(streaming, s, U, down[i], svc[i])
  BY DEF IInv, Links
<1>6. link[i] = "open" => \/ Head(U).type = "start"
                          \/ Head(U).type = "stop" /\ s.phase \in Hearing /\ Tail(U) = <<>>
  <2> SUFFICES ASSUME link[i] = "open"
               PROVE  \/ Head(U).type = "start"
                      \/ Head(U).type = "stop" /\ s.phase \in Hearing /\ Tail(U) = <<>>
    OBVIOUS
  <2>1. Opening(streaming, s, U, down[i], svc[i]) /\ Stopping(s, U)
    BY <1>5 DEF Talk
  <2>2. s.phase \in SessionPhases
    BY DEF SessionRecord
  <2> QED BY <1>1, <1>2, <1>5, <2>1, <2>2 DEF Opening, Stopping, SessionPhases, Hearing
<1>7. Head(U).type \in {"start", "stop", "cancel"}
  BY <1>2 DEF RequestLine
<1>8. CASE Head(U).type = "start"
  <2>1. Started(i, Head(U))
    BY <1>8 DEF Serve
  <2>2. ASSUME NEW m \in Message, m.id = i, Emit(i, <<m>>), NEW g \in HandlerRecord,
               svc' = [svc EXCEPT ![i] = g],
               g.at = "serving", g.seq = svc[i].seq, g.segment = svc[i].segment,
               \/ m.type = "recording" /\ m.valid /\ g.phase = "recording"
               \/ m.type = "error" /\ (Printable => m.valid) /\ g.phase = svc[i].phase
        PROVE  IInv'
    <3>1. /\ down' \in [Sessions -> Seq(Message)]
          /\ \A j \in Sessions : j # i => down'[j] = down[j]
          /\ link[i] = "open" => down'[i] = down[i] \o <<m>>
      BY <2>2, Emitted
    <3>2. ASSUME link[i] = "open" PROVE Talk(streaming, s, Tail(U), down[i] \o <<m>>, g)
      BY <1>1, <1>2, <1>5, <1>8, <2>2, <3>2, StartTalks
    <3>3. link[i] = "open" => Talk(streaming, s, up'[i], down'[i], svc'[i])
      BY <1>3, <2>2, <3>1, <3>2
    <3>4. /\ svc' \in [Sessions -> HandlerRecord] /\ svc'[i].at = "serving"
          /\ \A j \in Sessions : j # i => svc'[j] = svc[j]
      BY <2>2
    <3> QED BY <1>1, <1>3, <3>1, <3>3, <3>4, ServingKeeps, ZenonT(60)
  <2>3. CASE /\ svc' = [svc EXCEPT ![i].phase = "recording",
                                   ![i].continuous = Head(U).continuous]
             /\ Emit(i, <<Line("recording", i)>>)
    <3> DEFINE g == [svc[i] EXCEPT !.phase = "recording", !.continuous = Head(U).continuous]
    <3>1. Head(U).continuous \in BOOLEAN
      BY <1>2 DEF RequestLine
    <3>2. svc' = [svc EXCEPT ![i] = g]
      BY <2>3
    <3>3. /\ g \in HandlerRecord /\ g.at = "serving" /\ g.phase = "recording"
          /\ g.seq = svc[i].seq /\ g.segment = svc[i].segment
      BY <1>1, <3>1 DEF HandlerRecord
    <3> HIDE DEF g
    <3>4. /\ Line("recording", i) \in Message /\ Line("recording", i).type = "recording"
          /\ Line("recording", i).id = i /\ Line("recording", i).valid = TRUE
      BY <1>4, LinesTyped
    <3> QED BY <2>2, <2>3, <3>2, <3>3, <3>4
  <2>4. CASE \E oneLine \in OneLine : Emit(i, <<ErrorLine(i, oneLine)>>) /\ UNCHANGED svc
    <3>1. PICK oneLine \in OneLine : Emit(i, <<ErrorLine(i, oneLine)>>) /\ UNCHANGED svc
      BY <2>4
    <3>2. oneLine \in BOOLEAN /\ (Printable => oneLine = TRUE)
      BY VoiceSystemAssumption DEF Printable
    <3>3. /\ ErrorLine(i, oneLine) \in Message /\ ErrorLine(i, oneLine).type = "error"
          /\ ErrorLine(i, oneLine).id = i /\ (Printable => ErrorLine(i, oneLine).valid = TRUE)
      BY <1>4, <3>2, ErrorsTyped
    <3>4. svc' = [svc EXCEPT ![i] = svc[i]]
      BY <3>1
    <3> QED BY <1>1, <2>2, <3>1, <3>3, <3>4
  <2> QED BY <2>1, <2>3, <2>4 DEF Started
<1>9. CASE Head(U).type = "stop"
  <2>1. Stopped(i)
    BY <1>9 DEF Serve
  <2>2. link[i] = "open" => Tail(U) = <<>> /\ s.phase \in Hearing
    BY <1>6, <1>9
  <2>3. /\ down' \in [Sessions -> Seq(Message)] /\ svc' \in [Sessions -> HandlerRecord]
        /\ \A j \in Sessions : j # i => down'[j] = down[j] /\ svc'[j] = svc[j]
        /\ svc'[i].at = "serving"
        /\ link[i] = "open" => Talk(streaming, s, Tail(U), down'[i], svc'[i])
    BY <1>1, <1>2, <2>1, <2>2, StopEmits
  <2> QED BY <1>1, <1>3, <2>3, ServingKeeps, ZenonT(60)
<1>10. CASE Head(U).type = "cancel"
  <2>1. Cancelled(i) /\ link[i] # "open"
    BY <1>6, <1>10 DEF Serve
  <2>2. down' = down
    BY <2>1 DEF Cancelled, Emit
  <2>3. svc' = svc \/ svc' = [svc EXCEPT ![i].phase = "idle"]
    BY <2>1 DEF Cancelled
  <2>4. /\ svc' \in [Sessions -> HandlerRecord] /\ svc'[i].at = "serving"
        /\ \A j \in Sessions : j # i => svc'[j] = svc[j]
    <3> DEFINE g == [svc[i] EXCEPT !.phase = "idle"]
    <3>1. g \in HandlerRecord /\ g.at = "serving"
      BY <1>1 DEF HandlerRecord
    <3>2. svc' = svc \/ svc' = [svc EXCEPT ![i] = g]
      BY <2>3
    <3> HIDE DEF g
    <3> QED BY <1>1, <3>1, <3>2
  <2> QED BY <1>1, <1>3, <2>1, <2>2, <2>4, ServingKeeps, ZenonT(60)
<1> QED BY <1>7, <1>8, <1>9, <1>10

\* _limit()
LEMMA LimitKeeps ==
    ASSUME IInv, NEW i \in Sessions, Limit(i)
    PROVE  IInv'
PROOF
<1> USE Connected
<1>1. /\ svc[i].at = "serving" /\ svc[i].phase = "recording" /\ Stopped(i)
      /\ UNCHANGED <<up, owner>> /\ AddonUnchanged
      /\ up[i] \in Seq(RequestLine)
  BY DEF Limit
<1>2. /\ down' \in [Sessions -> Seq(Message)] /\ svc' \in [Sessions -> HandlerRecord]
      /\ \A j \in Sessions : j # i => down'[j] = down[j] /\ svc'[j] = svc[j]
      /\ svc'[i].at = "serving"
      /\ link[i] = "open" => Talk(streaming, s, up[i], down'[i], svc'[i])
  BY <1>1, StopEmits
<1> QED BY <1>1, <1>2, ServingKeeps

\* publish()
LEMMA PublishKeeps ==
    ASSUME IInv, NEW i \in Sessions, NEW kind \in {"partial", "final"}, NEW text \in 0 .. 1,
           Publish(i, kind, text)
    PROVE  IInv'
PROOF
<1> USE Connected
<1> DEFINE h == NextSegment(svc[i], kind, text)
           r == Line(kind, i)
           m == [r EXCEPT !.segment = svc[i].segment, !.seq = h.seq, !.text = text]
<1>1. /\ streaming /\ svc[i].at = "serving" /\ svc[i].seq < MaxTexts
      /\ svc[i].phase \in {"recording", "transcribing"}
      /\ svc' = [svc EXCEPT ![i] = h] /\ Emit(i, <<m>>)
      /\ UNCHANGED <<up, owner>> /\ AddonUnchanged
      /\ svc[i] \in HandlerRecord /\ up[i] \in Seq(RequestLine) /\ down[i] \in Seq(Message)
  BY DEF Publish
<1>2. /\ svc[i].seq \in Nat /\ svc[i].segment \in Nat /\ svc[i].seq + 1 \in 0 .. MaxTexts
      /\ svc[i].segment + 1 \in Nat /\ NoText \in 0 .. NoText /\ text \in 0 .. NoText
  BY <1>1, SMTT(40) DEF HandlerRecord, NoText
<1>3. /\ h \in HandlerRecord /\ h.at = "serving" /\ h.phase = svc[i].phase
      /\ h.seq = svc[i].seq + 1
      /\ h.segment = IF kind = "final" THEN svc[i].segment + 1 ELSE svc[i].segment
  <2>1. CASE kind = "final"
    <3>1. h = [svc[i] EXCEPT !.seq = svc[i].seq + 1, !.previous = NoText,
                             !.segment = svc[i].segment + 1]
      BY <2>1, <1>1 DEF NextSegment, HandlerRecord
    <3> HIDE DEF h
    <3> QED BY <2>1, <3>1, <1>1, <1>2 DEF HandlerRecord
  <2>2. CASE kind = "partial"
    <3>1. h = [svc[i] EXCEPT !.seq = svc[i].seq + 1, !.previous = text]
      BY <2>2, <1>1 DEF NextSegment, HandlerRecord
    <3> HIDE DEF h
    <3> QED BY <2>2, <3>1, <1>1, <1>2 DEF HandlerRecord
  <2> QED BY <2>1, <2>2
<1> HIDE DEF h
<1>4. i \in Nat
  BY DEF Sessions
<1>5. r \in Message /\ r.type = kind /\ r.id = i /\ r.valid = TRUE
  BY <1>4, LinesTyped
<1> HIDE DEF r
<1>6. /\ m \in Message /\ m.type = kind /\ m.id = i /\ m.valid = TRUE
      /\ m.segment = svc[i].segment /\ m.seq = svc[i].seq + 1
  <2>1. h.seq \in Nat /\ svc[i].segment \in Nat /\ text \in 0 .. 1
    BY <1>2, <1>3
  <2>2. m \in Message
    BY <2>1, <1>5 DEF Message
  <2>3. m.type = r.type /\ m.id = r.id /\ m.valid = r.valid
        /\ m.segment = svc[i].segment /\ m.seq = h.seq
    BY <1>5 DEF Message
  <2> QED BY <1>3, <1>5, <2>2, <2>3
<1> HIDE DEF m
<1>7. /\ down' \in [Sessions -> Seq(Message)]
      /\ \A j \in Sessions : j # i => down'[j] = down[j]
      /\ link[i] = "open" => down'[i] = down[i] \o <<m>>
  BY <1>1, <1>6, Emitted
<1>8. IsText(m) /\ h.segment = After(m)
  BY <1>3, <1>6 DEF IsText, After
<1>9. ASSUME link[i] = "open" PROVE Talk(streaming, s, up[i], down[i] \o <<m>>, h)
  <2>1. /\ i = s.id /\ s.phase \notin {"idle", "preview"}
        /\ Talk(streaming, s, up[i], down[i], svc[i])
    BY <1>9 DEF IInv, Links
  <2> QED BY <1>1, <1>3, <1>6, <1>8, <2>1, PublishTalks, ZenonT(60)
<1>10. /\ svc' \in [Sessions -> HandlerRecord] /\ svc'[i] = h
       /\ \A j \in Sessions : j # i => svc'[j] = svc[j]
  BY <1>1, <1>3
<1> QED BY <1>1, <1>3, <1>7, <1>9, <1>10, ServingKeeps, ZenonT(60)

\* The worker is done.
LEMMA WorkerKeeps ==
    ASSUME IInv, NEW i \in Sessions, WorkerEnds(i)
    PROVE  IInv'
PROOF
<1> USE Connected
<1> DEFINE g == [svc[i] EXCEPT !.phase = "idle"]
<1>1. /\ svc[i].at = "serving" /\ svc[i].phase # "idle" /\ svc' = [svc EXCEPT ![i] = g]
      /\ UNCHANGED <<up, owner>> /\ AddonUnchanged
      /\ svc[i] \in HandlerRecord /\ up[i] \in Seq(RequestLine) /\ down[i] \in Seq(Message)
  BY DEF WorkerEnds
<1>2. /\ g \in HandlerRecord /\ g.phase = "idle" /\ g.at = "serving"
      /\ g.seq = svc[i].seq /\ g.segment = svc[i].segment
  BY <1>1 DEF HandlerRecord
<1> HIDE DEF g
<1>3. i \in Nat
  BY DEF Sessions
<1>4. ASSUME NEW m \in Message, Emit(i, <<m>>), m.id = i,
             m.type \notin {"error", "result"} \/ Printable => m.valid, m.type \in Ends,
             m.type = "finished" => streaming,
             m.type = "result" => ~streaming /\ m.text = 1 /\ svc[i].phase = "transcribing"
      PROVE  IInv'
  <2>1. /\ down' \in [Sessions -> Seq(Message)]
        /\ \A j \in Sessions : j # i => down'[j] = down[j]
        /\ link[i] = "open" => down'[i] = down[i] \o <<m>>
    BY <1>4, Emitted
  <2>2. ASSUME link[i] = "open" PROVE Talk(streaming, s, up[i], down[i] \o <<m>>, g)
    <3>1. /\ i = s.id /\ s.phase \notin {"idle", "preview"}
          /\ Talk(streaming, s, up[i], down[i], svc[i])
      BY <2>2 DEF IInv, Links
    <3> QED BY <1>1, <1>2, <1>4, <3>1, MoveTalks
  <2>3. /\ svc' \in [Sessions -> HandlerRecord] /\ svc'[i] = g
        /\ \A j \in Sessions : j # i => svc'[j] = svc[j]
    BY <1>1, <1>2
  <2> QED BY <1>1, <1>2, <2>1, <2>2, <2>3, ServingKeeps, ZenonT(60)
<1>5. CASE \/ svc[i].phase = "transcribing" /\ streaming /\ Emit(i, <<Line("finished", i)>>)
           \/ /\ svc[i].phase = "transcribing" /\ ~streaming
              /\ \E oneLine \in OneLine : Emit(i, <<ResultLine(i, oneLine)>>)
  <2>1. CASE streaming
    <3>1. /\ Line("finished", i) \in Message /\ Line("finished", i).type = "finished"
          /\ Line("finished", i).id = i /\ Line("finished", i).valid = TRUE
      BY <1>3, LinesTyped
    <3> QED BY <1>4, <1>5, <2>1, <3>1 DEF Ends
  <2>2. CASE ~streaming
    <3>1. PICK oneLine \in OneLine : Emit(i, <<ResultLine(i, oneLine)>>)
      BY <1>5, <2>2
    <3>2. oneLine \in BOOLEAN /\ (Printable => oneLine = TRUE)
      BY VoiceSystemAssumption DEF Printable
    <3>3. /\ ResultLine(i, oneLine) \in Message /\ ResultLine(i, oneLine).type = "result"
          /\ ResultLine(i, oneLine).id = i /\ ResultLine(i, oneLine).text = 1
          /\ (Printable => ResultLine(i, oneLine).valid = TRUE)
      BY <1>3, <3>2, ResultsTyped
    <3> QED BY <1>4, <1>5, <2>2, <3>1, <3>3 DEF Ends
  <2> QED BY <2>1, <2>2
<1>6. CASE \E oneLine \in OneLine : Emit(i, <<ErrorLine(i, oneLine)>>)
  <2>1. PICK oneLine \in OneLine : Emit(i, <<ErrorLine(i, oneLine)>>)
    BY <1>6
  <2>2. oneLine \in BOOLEAN /\ (Printable => oneLine = TRUE)
    BY VoiceSystemAssumption DEF Printable
  <2>3. /\ ErrorLine(i, oneLine) \in Message /\ ErrorLine(i, oneLine).type = "error"
        /\ ErrorLine(i, oneLine).id = i /\ (Printable => ErrorLine(i, oneLine).valid = TRUE)
    BY <1>3, <2>2, ErrorsTyped
  <2> QED BY <1>4, <2>1, <2>3 DEF Ends
<1> QED BY <1>5, <1>6 DEF WorkerEnds

\* The handler leaves its loop ...
LEMMA CloseKeeps ==
    ASSUME IInv, NEW i \in Sessions, CloseSession(i)
    PROVE  IInv'
PROOF
<1> USE Connected
<1> DEFINE g == [Handler EXCEPT !.at = "closing"]
<1>1. /\ svc[i].at = "serving" /\ link[i] = "closed" /\ svc' = [svc EXCEPT ![i] = g]
      /\ up' = [up EXCEPT ![i] = <<>>] /\ UNCHANGED <<down, owner>> /\ AddonUnchanged
  BY DEF CloseSession, Closed
<1>2. g \in HandlerRecord /\ g.at = "closing" /\ g.phase = "idle"
  <2>1. Handler.phase = "idle"
    BY DEF Handler
  <2> QED BY <2>1, HandlersTyped DEF HandlerRecord
<1> HIDE DEF g
<1>3. /\ svc' \in [Sessions -> HandlerRecord] /\ svc'[i] = g
      /\ \A j \in Sessions : j # i => svc'[j] = svc[j] /\ up'[j] = up[j]
      /\ up' \in [Sessions -> Seq(RequestLine)]
  BY <1>1, <1>2
<1>4. owner
  BY <1>1
<1> QED BY <1>1, <1>2, <1>3, <1>4, ServiceKeeps

\* ... and gives up the microphone.
LEMMA DepartKeeps ==
    ASSUME IInv, NEW i \in Sessions, Depart(i)
    PROVE  IInv'
PROOF
<1> USE Connected
<1>1. /\ svc[i].at = "closing" /\ svc' = [svc EXCEPT ![i] = Gone] /\ owner' = FALSE
      /\ UNCHANGED <<up, down>> /\ AddonUnchanged /\ link[i] = "closed"
  BY DEF Depart, IInv, Handlers
<1>2. Gone \in HandlerRecord /\ Gone.at = "gone" /\ Gone.phase = "idle"
  BY HandlersTyped DEF Gone, Handler
<1>3. /\ svc' \in [Sessions -> HandlerRecord] /\ svc'[i] = Gone
      /\ \A j \in Sessions : j # i => svc'[j] = svc[j]
  BY <1>1, <1>2
<1> QED BY <1>1, <1>2, <1>3, ServiceKeeps

\* The service ends under its sessions.
LEMMA EndKeeps ==
    ASSUME IInv, ServiceEnds
    PROVE  IInv'
PROOF
<1> USE Connected
<1>1. /\ alive' = FALSE /\ deaths < MaxDeaths /\ deaths' = deaths + 1
      /\ svc' = [i \in Sessions |-> IF link[i] = "unused" THEN svc[i] ELSE Gone]
      /\ up' = [i \in Sessions |-> <<>>] /\ owner' = FALSE
      /\ UNCHANGED <<streaming, s, next, link, down>>
  BY DEF ServiceEnds
<1>2. Gone \in HandlerRecord /\ Gone.at = "gone" /\ Gone.phase = "idle"
  BY HandlersTyped DEF Gone, Handler
<1>3. \A i \in Sessions :
        \/ svc'[i] = Gone /\ link[i] # "unused"
        \/ svc'[i] = svc[i] /\ svc[i].at = "new" /\ link[i] = "unused"
           /\ svc[i] = Handler /\ down[i] = <<>>
  BY <1>1 DEF IInv, Handlers
<1>4. TypeOK'
  <2>1. svc' \in [Sessions -> HandlerRecord] /\ up' \in [Sessions -> Seq(RequestLine)]
        /\ deaths' \in 0 .. MaxDeaths
    BY <1>1, <1>2
  <2>2. owner' = (\E i \in Sessions : svc'[i].at \in {"serving", "closing"})
    BY <1>1, <1>2, <1>3
  <2> QED BY <1>1, <2>1, <2>2 DEF TypeOK, SessionRecord, RequestLine, HandlerRecord
<1>5. Links'
  BY <1>1 DEF IInv, Links
<1>6. Handlers'
  <2>1. ASSUME NEW i \in Sessions
        PROVE  /\ svc'[i].at # "serving" => svc'[i].phase = "idle"
               /\ svc'[i].at = "closing" => link'[i] = "closed"
               /\ link'[i] = "unused" => svc'[i].at = "new"
               /\ svc'[i].at = "new" => svc'[i] = Handler /\ up'[i] = <<>> /\ down'[i] = <<>>
    <3>1. Handler.phase = "idle" /\ Handler.at = "new"
      BY DEF Handler
    <3> QED BY <1>1, <1>2, <1>3, <3>1
  <2>2. \A i \in Sessions : svc'[i].at \notin {"serving", "closing"}
    BY <1>2, <1>3
  <2> QED BY <2>1, <2>2 DEF Handlers
<1>7. Conversation'
  <2> SUFFICES ASSUME s.phase \notin {"idle", "preview"}
               PROVE  Talk(streaming, s, up'[s.id], down[s.id], svc'[s.id])
    BY <1>1 DEF Conversation
  <2>1. svc'[s.id] = Gone /\ up'[s.id] = <<>>
    BY <1>1
  <2>2. /\ up[s.id] \in Seq(RequestLine) /\ down[s.id] \in Seq(Message)
        /\ svc[s.id] \in HandlerRecord
    OBVIOUS
  <2>3. Talk(streaming, s, <<>>, down[s.id], Gone)
    BY <1>2, <2>2, GoneTalks
  <2> QED BY <2>1, <2>3
<1> QED BY <1>4, <1>5, <1>6, <1>7 DEF IInv

\* The add-on leaves its session: the connection is closed.
LEMMA LeaveKeeps ==
    ASSUME IInv, ServiceUnchanged, UNCHANGED next, s.phase # "idle",
           s' \in SessionRecord, s' = Blank \/ (s'.phase = "preview" /\ s'.id = s.id),
           link' = [link EXCEPT ![s.id] = "closed"],
           up' \in [Sessions -> Seq(RequestLine)], down' \in [Sessions -> Seq(Message)],
           \A j \in Sessions : j # s.id => up'[j] = up[j] /\ down'[j] = down[j],
           down'[s.id] \in {<<>>, down[s.id]},
           up'[s.id] = up[s.id] \/ svc[s.id].at # "new"
    PROVE  IInv'
PROOF
<1> USE Connected
<1>1. UNCHANGED <<streaming, svc, owner, alive, deaths>>
  BY DEF ServiceUnchanged
<1>2. s.id \in Sessions /\ link[s.id] # "unused"
  OBVIOUS
<1>3. TypeOK'
  <2>1. link' \in [Sessions -> {"unused", "open", "closed"}]
    OBVIOUS
  <2> QED BY <1>1, <2>1 DEF TypeOK, SessionRecord, RequestLine, HandlerRecord
<1>4. s'.phase \in {"idle", "preview"}
  BY BlankTyped
<1>5. Links'
  <2>1. \A j \in Sessions : /\ link[j] = "unused" <=> j > next
                            /\ link[j] = "open" <=> s.id = j /\ s.phase \notin {"idle", "preview"}
    BY DEF IInv, Links
  <2>2. \A j \in Sessions : link'[j] = IF j = s.id THEN "closed" ELSE link[j]
    OBVIOUS
  <2>3. \A j \in Sessions : link'[j] = "unused" <=> j > next'
    BY <2>1, <2>2, <1>2
  <2>4. \A j \in Sessions : link'[j] # "open"
    BY <2>1, <2>2
  <2>5. s'.id <= next' /\ (s'.phase = "idle" <=> s'.id = NoSession)
    <3>1. s.id <= next /\ (s.phase = "idle" <=> s.id = NoSession)
      BY DEF IInv, Links
    <3>2. CASE s' = Blank
      BY <3>2, BlankTyped DEF NoSession
    <3>3. CASE s'.phase = "preview" /\ s'.id = s.id
      BY <3>1, <3>3
    <3> QED BY <3>2, <3>3
  <2> QED BY <2>3, <2>4, <2>5, <1>4 DEF Links
<1>6. Handlers'
  <2>1. ASSUME NEW j \in Sessions
        PROVE  /\ svc'[j].at # "serving" => svc'[j].phase = "idle"
               /\ svc'[j].at = "closing" => link'[j] = "closed"
               /\ link'[j] = "unused" => svc'[j].at = "new"
               /\ svc'[j].at = "new" => svc'[j] = Handler /\ up'[j] = <<>> /\ down'[j] = <<>>
    <3>1. /\ svc[j].at # "serving" => svc[j].phase = "idle"
          /\ svc[j].at = "closing" => link[j] = "closed"
          /\ link[j] = "unused" => svc[j].at = "new"
          /\ svc[j].at = "new" => svc[j] = Handler /\ up[j] = <<>> /\ down[j] = <<>>
      BY DEF IInv, Handlers
    <3>2. link'[j] = (IF j = s.id THEN "closed" ELSE link[j]) /\ svc'[j] = svc[j]
      BY <1>1
    <3>3. svc[j].at = "new" => up'[j] = up[j] /\ down'[j] \in {<<>>, down[j]}
      OBVIOUS
    <3> QED BY <3>1, <3>2, <3>3
  <2>2. \A j, k \in Sessions :
          svc'[j].at \in {"serving", "closing"} /\ svc'[k].at \in {"serving", "closing"} => j = k
    BY <1>1 DEF IInv, Handlers
  <2> QED BY <2>1, <2>2 DEF Handlers
<1>7. Conversation'
  BY <1>4 DEF Conversation
<1> QED BY <1>3, <1>5, <1>6, <1>7 DEF IInv

\* The session goes on.
LEMMA GoesOnKeeps ==
    ASSUME IInv, ServiceUnchanged, UNCHANGED <<next, link>>,
           s.phase \notin {"idle", "preview"}, svc[s.id].at # "new",
           s' \in SessionRecord, s'.phase \notin {"idle", "preview"}, s'.id = s.id,
           up' \in [Sessions -> Seq(RequestLine)], down' \in [Sessions -> Seq(Message)],
           \A j \in Sessions : j # s.id => up'[j] = up[j] /\ down'[j] = down[j],
           Talk(streaming, s', up'[s.id], down'[s.id], svc[s.id])
    PROVE  IInv'
PROOF
<1> USE Connected
<1>1. UNCHANGED <<streaming, svc, owner, alive, deaths>>
  BY DEF ServiceUnchanged
<1>2. TypeOK'
  BY <1>1 DEF TypeOK, SessionRecord, RequestLine, HandlerRecord
<1>3. Links'
  BY DEF IInv, Links
<1>4. Handlers'
  <2>1. ASSUME NEW j \in Sessions
        PROVE  /\ svc'[j].at # "serving" => svc'[j].phase = "idle"
               /\ svc'[j].at = "closing" => link'[j] = "closed"
               /\ link'[j] = "unused" => svc'[j].at = "new"
               /\ svc'[j].at = "new" => svc'[j] = Handler /\ up'[j] = <<>> /\ down'[j] = <<>>
    <3>1. /\ svc[j].at # "serving" => svc[j].phase = "idle"
          /\ svc[j].at = "closing" => link[j] = "closed"
          /\ link[j] = "unused" => svc[j].at = "new"
          /\ svc[j].at = "new" => svc[j] = Handler /\ up[j] = <<>> /\ down[j] = <<>>
      BY DEF IInv, Handlers
    <3>2. svc[j].at = "new" => up'[j] = up[j] /\ down'[j] = down[j]
      OBVIOUS
    <3> QED BY <1>1, <3>1, <3>2
  <2>2. \A j, k \in Sessions :
          svc'[j].at \in {"serving", "closing"} /\ svc'[k].at \in {"serving", "closing"} => j = k
    BY <1>1 DEF IInv, Handlers
  <2> QED BY <2>1, <2>2 DEF Handlers
<1>5. Conversation'
  BY <1>1 DEF Conversation
<1> QED BY <1>2, <1>3, <1>4, <1>5 DEF IInv

\* start() and openTransport()
LEMMA BeginKeeps ==
    ASSUME IInv, NEW continuous \in BOOLEAN, Start(continuous)
    PROVE  IInv'
PROOF
<1> USE Connected
<1> DEFINE i == next + 1
           x == Begin(i, Field, continuous)
<1>1. /\ next < MaxSessions /\ s.phase = "idle" /\ next' = i
      /\ UNCHANGED <<streaming, up, down, owner, alive, deaths>>
      /\ \/ /\ s' = x /\ link' = [link EXCEPT ![i] = "open"] /\ svc' = svc
         \/ /\ s' = Reset(x) /\ link' = [link EXCEPT ![i] = "closed"]
            /\ svc' = [svc EXCEPT ![i] = Gone]
  BY DEF Start, CanBegin
<1>2. i \in Sessions /\ i \in Nat /\ i # 0 /\ i > next
  BY <1>1 DEF Sessions
<1>3. /\ x \in SessionRecord /\ x.phase = "connecting" /\ x.id = i
  <2>1. x = [Blank EXCEPT !.phase = "connecting", !.id = i, !.context = Field,
                          !.continuous = continuous]
    BY DEF Begin
  <2>2. Blank \in SessionRecord
    BY BlankTyped
  <2> HIDE DEF x, i
  <2> QED BY <1>2, <2>1, <2>2 DEF SessionRecord, SessionPhases
<1>4. Reset(x) = Blank
  BY <1>3, ResetIsBlank
<1>5. link[i] = "unused" /\ svc[i] = Handler /\ up[i] = <<>> /\ down[i] = <<>>
  BY <1>2 DEF IInv, Links, Handlers
<1>6. \A j \in Sessions : link[j] # "open" /\ (link[j] = "unused" <=> j > next)
  BY <1>1 DEF IInv, Links
<1>7. Gone \in HandlerRecord /\ Gone.at = "gone" /\ Gone.phase = "idle" /\ Handler.at = "new"
      /\ Handler.phase = "idle"
  BY HandlersTyped DEF Gone, Handler
<1>8. Talk(streaming, x, <<>>, <<>>, Handler)
  BY <1>2, BeginTalks
<1> HIDE DEF x
<1>9. /\ s' \in SessionRecord /\ link' \in [Sessions -> {"unused", "open", "closed"}]
      /\ svc' \in [Sessions -> HandlerRecord]
      /\ \A j \in Sessions : j # i => link'[j] = link[j] /\ svc'[j] = svc[j]
      /\ next' \in 0 .. MaxSessions
      /\ \/ s' = x /\ link'[i] = "open" /\ svc'[i] = Handler
         \/ s' = Blank /\ link'[i] = "closed" /\ svc'[i] = Gone
  <2>1. next' \in 0 .. MaxSessions
    BY <1>1
  <2> HIDE DEF i
  <2>2. Blank \in SessionRecord
    BY BlankTyped
  <2>3. CASE s' = x /\ link' = [link EXCEPT ![i] = "open"] /\ svc' = svc
    BY <1>2, <1>3, <1>5, <2>1, <2>3
  <2>4. CASE /\ s' = Reset(x) /\ link' = [link EXCEPT ![i] = "closed"]
             /\ svc' = [svc EXCEPT ![i] = Gone]
    BY <1>2, <1>4, <1>7, <2>1, <2>2, <2>4
  <2> QED BY <1>1, <2>3, <2>4
<1>10. TypeOK'
  <2>1. \A j \in Sessions : svc'[j].at \in {"serving", "closing"}
                              <=> svc[j].at \in {"serving", "closing"}
    BY <1>5, <1>7, <1>9
  <2>2. owner' = (\E j \in Sessions : svc'[j].at \in {"serving", "closing"})
    BY <1>1, <2>1
  <2> QED BY <1>1, <1>9, <2>2 DEF TypeOK, SessionRecord, RequestLine, HandlerRecord
<1>11. Links'
  <2>1. \A j \in Sessions : link'[j] = "unused" <=> j > next'
    <3>1. \A j \in Sessions : j \in Nat
      BY DEF Sessions
    <3> QED BY <1>1, <1>2, <1>6, <1>9, <3>1
  <2>2. \A j \in Sessions : link'[j] = "open" <=> s'.id = j /\ s'.phase \notin {"idle", "preview"}
    BY <1>2, <1>3, <1>6, <1>9, BlankTyped, SMTT(40)
  <2>3. s'.id <= next' /\ (s'.phase = "idle" <=> s'.id = NoSession)
    BY <1>1, <1>2, <1>3, <1>9, BlankTyped DEF NoSession
  <2> QED BY <2>1, <2>2, <2>3 DEF Links
<1>12. Handlers'
  <2>1. ASSUME NEW j \in Sessions
        PROVE  /\ svc'[j].at # "serving" => svc'[j].phase = "idle"
               /\ svc'[j].at = "closing" => link'[j] = "closed"
               /\ link'[j] = "unused" => svc'[j].at = "new"
               /\ svc'[j].at = "new" => svc'[j] = Handler /\ up'[j] = <<>> /\ down'[j] = <<>>
    <3>1. CASE j = i
      BY <3>1, <1>1, <1>5, <1>7, <1>9
    <3>2. CASE j # i
      <4>1. svc'[j] = svc[j] /\ up'[j] = up[j] /\ down'[j] = down[j] /\ link'[j] = link[j]
        BY <3>2, <1>1, <1>9
      <4> QED BY <4>1 DEF IInv, Handlers
    <3> QED BY <3>1, <3>2
  <2>2. \A j, k \in Sessions :
          svc'[j].at \in {"serving", "closing"} /\ svc'[k].at \in {"serving", "closing"} => j = k
    <3>1. \A j \in Sessions : svc'[j].at \in {"serving", "closing"} => svc'[j] = svc[j]
      BY <1>7, <1>9
    <3>2. \A j, k \in Sessions :
          svc[j].at \in {"serving", "closing"} /\ svc[k].at \in {"serving", "closing"} => j = k
      BY DEF IInv, Handlers
    <3> QED BY <3>1, <3>2
  <2> QED BY <2>1, <2>2 DEF Handlers
<1>13. Conversation'
  <2>1. CASE s' = x /\ svc'[i] = Handler
    BY <2>1, <1>1, <1>3, <1>5, <1>8 DEF Conversation
  <2>2. CASE s' = Blank
    BY <2>2, BlankTyped DEF Conversation
  <2> QED BY <2>1, <2>2, <1>9
<1> QED BY <1>10, <1>11, <1>12, <1>13 DEF IInv

\* What queue() comes to
LEMMA AskedOne ==
    ASSUME IInv, NEW i \in Sessions, NEW q \in RequestLine, Asked(i, q)
    PROVE  /\ up' \in [Sessions -> Seq(RequestLine)]
           /\ \A j \in Sessions : j # i => up'[j] = up[j]
           /\ up'[i] = IF svc[i].at = "gone" THEN up[i] ELSE Append(up[i], q)
PROOF
<1> USE Connected
<1>1. Append(up[i], q) \in Seq(RequestLine)
  OBVIOUS
<1> QED BY <1>1, SMTT(40) DEF Asked

\* A line is read and handled.
LEMMA HandleLineKeeps ==
    ASSUME IInv, HandleLine
    PROVE  IInv'
PROOF
<1> USE Connected
<1> DEFINE i == s.id
           m == Head(down[i])
           heard == IF Welcomes(s, m) THEN Welcomed(s, m)
                    ELSE [Heard(s, m) EXCEPT !.pending = <<>>]
<1>1. /\ s.phase # "idle" /\ link[i] = "open" /\ down[i] # <<>>
      /\ s' = [heard EXCEPT !.error = FALSE]
      /\ IF Welcomes(s, m)
         THEN Asked(i, [type |-> "start", id |-> i, continuous |-> s.continuous])
         ELSE UNCHANGED up
      /\ IF heard.phase \in {"idle", "preview"} THEN Hangup(i)
         ELSE /\ down' = [down EXCEPT ![i] = Tail(@)]
              /\ UNCHANGED link
      /\ UNCHANGED next /\ ServiceUnchanged
  BY DEF HandleLine
<1>2. i \in Sessions /\ s.phase \notin {"idle", "preview"}
  BY <1>1 DEF IInv, Links
<1>3. /\ Talk(streaming, s, up[i], down[i], svc[i])
      /\ up[i] \in Seq(RequestLine) /\ down[i] \in Seq(Message) /\ svc[i] \in HandlerRecord
      /\ svc[i].at # "serving" => svc[i].phase = "idle"
  BY <1>2 DEF IInv, Handlers
<1>4. svc[i].at # "new"
  BY <1>1, <1>3 DEF Talk, Opening
<1>5. m \in Message /\ Tail(down[i]) \in Seq(Message)
  BY <1>1, <1>3, Removed, SMTT(40)
<1>6. CASE Welcomes(s, m)
  <2> DEFINE q == [type |-> "start", id |-> i, continuous |-> s.continuous]
  <2>1. q \in RequestLine /\ q.type = "start"
    BY <1>2 DEF RequestLine, SessionRecord
  <2>2. /\ Welcomed(s, m) \in SessionRecord /\ Welcomed(s, m).phase = "starting"
        /\ Welcomed(s, m).id = s.id /\ [Welcomed(s, m) EXCEPT !.error = FALSE] = Welcomed(s, m)
    <3>1. (m.protocol = 2) \in BOOLEAN
      OBVIOUS
    <3>2. Welcomed(s, m) \in SessionRecord
      BY <3>1 DEF Welcomed, SessionRecord, SessionPhases
    <3>3. Welcomed(s, m).phase = "starting" /\ Welcomed(s, m).id = s.id
      BY DEF Welcomed, SessionRecord
    <3>4. [Welcomed(s, m) EXCEPT !.error = FALSE] = Welcomed(s, m)
      BY <3>2 DEF SessionRecord
    <3> QED BY <3>2, <3>3, <3>4
  <2>3. s' = Welcomed(s, m) /\ Asked(i, q) /\ UNCHANGED link
        /\ down' = [down EXCEPT ![i] = Tail(down[i])]
    BY <1>1, <1>6, <2>2
  <2> HIDE DEF q, heard
  <2>4. /\ up' \in [Sessions -> Seq(RequestLine)]
        /\ \A j \in Sessions : j # i => up'[j] = up[j]
        /\ up'[i] = IF svc[i].at = "gone" THEN up[i] ELSE Append(up[i], q)
    BY <1>2, <2>1, <2>3, AskedOne
  <2>5. Talk(streaming, s', up'[i], Tail(down[i]), svc[i])
    <3> DEFINE U == up[i]
               D == down[i]
               h == svc[i]
               y == s'
               V == up'[i]
    <3>1. /\ streaming \in BOOLEAN /\ s \in SessionRecord /\ U \in Seq(RequestLine)
          /\ D \in Seq(Message) /\ D # <<>> /\ h \in HandlerRecord
          /\ Talk(streaming, s, U, D, h)
      BY <1>1, <1>3
    <3>2. Welcomes(s, Head(D)) /\ y = Welcomed(s, Head(D))
      BY <1>6, <2>3
    <3>3. V = IF h.at = "gone" THEN U ELSE Append(U, q)
      BY <2>4
    <3> HIDE DEF U, D, h, y, V
    <3>4. Talk(streaming, y, V, Tail(D), h)
      BY <2>1, <3>1, <3>2, <3>3, WelcomeTalks
    <3> QED BY <3>4 DEF U, D, h, y, V
  <2>6. /\ down' \in [Sessions -> Seq(Message)] /\ down'[i] = Tail(down[i])
        /\ \A j \in Sessions : j # i => down'[j] = down[j]
    BY <1>2, <1>5, <2>3
  <2> QED BY <1>1, <1>2, <1>4, <2>2, <2>3, <2>4, <2>5, <2>6, GoesOnKeeps
<1>7. CASE ~Welcomes(s, m)
  <2>1. s' = Hears(s, m) /\ UNCHANGED up
    BY <1>1, <1>7 DEF Hears
  <2>2. /\ s' \in SessionRecord
        /\ \/ s' = Blank
           \/ s'.phase = "preview" /\ s'.id = s.id
           \/ s'.phase \notin {"idle", "preview"} /\ s'.id = s.id
    <3>1. /\ s' \in SessionRecord
          /\ \/ s' = Blank
             \/ /\ s'.phase = "preview" /\ s'.id = s.id
             \/ s' = s
             \/ /\ m.type = "recording" /\ s.phase = "starting"
                /\ s' = [s EXCEPT !.phase = "recording"]
             \/ /\ m.type = "transcribing" /\ s.phase \in {"recording", "stopping"}
                /\ s' = [s EXCEPT !.phase = "transcribing"]
             \/ /\ IsText(m) /\ s.phase \in Hearing
                /\ m.segment = s.segment /\ m.seq > s.seq
                /\ s'.seq = m.seq /\ s'.segment = After(m)
                /\ s'.phase = s.phase /\ s'.id = s.id /\ s'.streaming = s.streaming
      <4> HIDE DEF m, heard
      <4>1. s \in SessionRecord /\ m \in Message /\ s.phase # "idle" /\ ~Welcomes(s, m)
        BY <1>1, <1>5, <1>7
      <4> QED BY <2>1, <4>1, HeardCases
    <3> HIDE DEF m
    <3> QED BY <1>2, <3>1 DEF SessionRecord
  <2>3. s'.phase = heard.phase
    <3>1. heard = [Heard(s, m) EXCEPT !.pending = <<>>]
      BY <1>7
    <3> HIDE DEF heard
    <3>2. s' = [heard EXCEPT !.error = FALSE]
      BY <2>1, <3>1 DEF Hears
    <3>3. s' = [[Heard(s, m) EXCEPT !.pending = <<>>] EXCEPT !.error = FALSE]
      BY <3>1, <3>2
    <3> QED BY <3>1, <3>2, <3>3
  <2>4. CASE s'.phase \in {"idle", "preview"}
    <3>1. Hangup(i)
      BY <1>1, <2>3, <2>4
    <3>2. /\ link' = [link EXCEPT ![i] = "closed"] /\ down' = [down EXCEPT ![i] = <<>>]
      BY <3>1 DEF Hangup
    <3> HIDE DEF heard, m
    <3>3. s' = Blank \/ (s'.phase = "preview" /\ s'.id = s.id)
      BY <2>2, <2>4
    <3>4. /\ down' \in [Sessions -> Seq(Message)] /\ down'[i] = <<>>
          /\ \A j \in Sessions : j # i => down'[j] = down[j]
      BY <1>2, <3>2
    <3> QED BY <1>1, <1>2, <2>1, <2>2, <3>2, <3>3, <3>4, LeaveKeeps
  <2>5. CASE s'.phase \notin {"idle", "preview"}
    <3>1. down' = [down EXCEPT ![i] = Tail(down[i])] /\ UNCHANGED link
      BY <1>1, <2>3, <2>5
    <3>2. Talk(streaming, s', up[i], Tail(down[i]), svc[i])
      BY <1>1, <1>2, <1>3, <1>7, <2>1, <2>5, HearTalks
    <3>3. /\ down' \in [Sessions -> Seq(Message)] /\ down'[i] = Tail(down[i])
          /\ \A j \in Sessions : j # i => down'[j] = down[j]
      BY <1>2, <1>5, <3>1
    <3>4. s'.id = s.id
      BY <2>2, <2>5, BlankTyped
    <3> HIDE DEF heard, m
    <3> QED BY <1>1, <1>2, <1>4, <2>1, <2>2, <2>5, <3>1, <3>2, <3>3, <3>4, GoesOnKeeps
  <2> QED BY <2>4, <2>5
<1> QED BY <1>6, <1>7

\* The session is reset and its connection closed: the user, the timer, or
\* the end of the connection.
LEMMA ResetKeeps ==
    ASSUME IInv, ServiceUnchanged, UNCHANGED next, s.phase # "idle", s' = Reset(s),
           \/ Hangup(s.id)
           \/ UNCHANGED <<link, down>> /\ link[s.id] # "open",
           \/ UNCHANGED up
           \/ /\ s.phase \in {"starting"} \cup Hearing
              /\ \E type \in {"stop", "cancel"} : Asked(s.id, Request(type))
    PROVE  IInv'
PROOF
<1> USE Connected
<1>1. s.id \in Sessions /\ s' = Blank /\ Blank \in SessionRecord
  BY ResetIsBlank, BlankTyped
<1>2. /\ link' = [link EXCEPT ![s.id] = "closed"] /\ down' \in [Sessions -> Seq(Message)]
      /\ \A j \in Sessions : j # s.id => down'[j] = down[j]
      /\ down'[s.id] \in {<<>>, down[s.id]}
  <2>1. CASE Hangup(s.id)
    BY <1>1, <2>1 DEF Hangup
  <2>2. CASE UNCHANGED <<link, down>> /\ link[s.id] # "open"
    <3>1. link[s.id] = "closed"
      BY <2>2
    <3> QED BY <1>1, <2>2, <3>1
  <2> QED BY <2>1, <2>2
<1>3. /\ up' \in [Sessions -> Seq(RequestLine)]
      /\ \A j \in Sessions : j # s.id => up'[j] = up[j]
      /\ up'[s.id] = up[s.id] \/ svc[s.id].at # "new"
  <2>1. CASE UNCHANGED up
    BY <2>1
  <2>2. CASE /\ s.phase \in {"starting"} \cup Hearing
             /\ \E type \in {"stop", "cancel"} : Asked(s.id, Request(type))
    <3>1. PICK type \in {"stop", "cancel"} : Asked(s.id, Request(type))
      BY <2>2
    <3>2. Request(type) \in RequestLine
      BY <1>1, SMTT(40) DEF Request, RequestLine
    <3>3. svc[s.id].at # "new"
      <4>1. Talk(streaming, s, up[s.id], down[s.id], svc[s.id]) /\ s.phase # "connecting"
        BY <2>2 DEF Hearing
      <4> QED BY <4>1 DEF Talk, Opening
    <3>4. /\ up' \in [Sessions -> Seq(RequestLine)]
          /\ \A j \in Sessions : j # s.id => up'[j] = up[j]
      BY <1>1, <3>1, <3>2, AskedOne
    <3> QED BY <3>3, <3>4
  <2> QED BY <2>1, <2>2
<1> QED BY <1>1, <1>2, <1>3, LeaveKeeps

\* The trigger again, or the held keys released
LEMMA ToggleKeeps ==
    ASSUME IInv, Toggle
    PROVE  IInv'
PROOF
<1> USE Connected
<1>1. /\ s.phase \in {"connecting", "starting", "recording"} /\ s' = Toggled(s)
      /\ UNCHANGED next /\ ServiceUnchanged /\ s.id \in Sessions
  BY DEF Toggle, Early
<1>2. CASE s.phase = "recording"
  <2> DEFINE q == Request("stop")
             y == [s EXCEPT !.phase = "stopping"]
  <2>1. ToggleRequest(s) = <<"stop">> /\ Toggled(s) = y
    BY <1>2 DEF ToggleRequest, Toggled, Early
  <2>2. y \in SessionRecord /\ y.phase = "stopping" /\ y.id = s.id
    BY DEF SessionRecord, SessionPhases
  <2>3. Asked(s.id, q) /\ UNCHANGED <<link, down>>
    BY <2>1, <2>2 DEF Toggle
  <2>4. q \in RequestLine /\ q.type = "stop"
    BY <1>1 DEF Request, RequestLine
  <2> HIDE DEF q
  <2>5. /\ up' \in [Sessions -> Seq(RequestLine)]
        /\ \A j \in Sessions : j # s.id => up'[j] = up[j]
        /\ up'[s.id] = IF svc[s.id].at = "gone" THEN up[s.id] ELSE Append(up[s.id], q)
    BY <1>1, <2>3, <2>4, AskedOne
  <2>6. /\ Talk(streaming, s, up[s.id], down[s.id], svc[s.id])
        /\ up[s.id] \in Seq(RequestLine) /\ down[s.id] \in Seq(Message)
        /\ svc[s.id] \in HandlerRecord
        /\ svc[s.id].at # "serving" => svc[s.id].phase = "idle"
    BY <1>1, <1>2 DEF IInv, Handlers
  <2>7. svc[s.id].at # "new"
    BY <1>2, <2>6 DEF Talk, Opening
  <2>8. Talk(streaming, y, up'[s.id], down[s.id], svc[s.id])
    BY <1>2, <2>4, <2>5, <2>6, ToggleTalks, ZenonT(60)
  <2> HIDE DEF y
  <2> QED BY <1>1, <1>2, <2>1, <2>2, <2>3, <2>5, <2>7, <2>8, GoesOnKeeps
<1>3. CASE s.phase \in {"connecting", "starting"}
  <2>1. Toggled(s) = Reset(s)
    BY <1>3 DEF Toggled, Early
  <2>2. Reset(s).phase = "idle"
    BY ResetIsBlank, BlankTyped
  <2>3. Hangup(s.id)
    BY <2>1, <2>2 DEF Toggle
  <2>4. \/ UNCHANGED up
        \/ s.phase = "starting" /\ Asked(s.id, Request("cancel"))
    <3>1. CASE s.phase = "connecting"
      BY <3>1 DEF Toggle, ToggleRequest
    <3>2. CASE s.phase = "starting"
      <4>1. ToggleRequest(s) = <<"cancel">>
        BY <3>2 DEF ToggleRequest
      <4> QED BY <3>2, <4>1 DEF Toggle
    <3> QED BY <1>3, <3>1, <3>2
  <2> QED BY <1>1, <1>3, <2>1, <2>3, <2>4, ResetKeeps
<1> QED BY <1>1, <1>2, <1>3

LEMMA Inductive == IInv /\ [Next]_vars => IInv'
PROOF
<1> SUFFICES ASSUME IInv, [Next]_vars
             PROVE  IInv'
  OBVIOUS
<1> USE Connected
<1>1. ASSUME NEW continuous \in BOOLEAN, Start(continuous) PROVE IInv'
  BY <1>1, BeginKeeps
<1>2. CASE HandleLine
  BY <1>2, HandleLineKeeps
<1>3. CASE Toggle
  BY <1>3, ToggleKeeps
<1>4. CASE Cancel
  <2>1. /\ s.phase # "idle" /\ s' = Reset(s) /\ UNCHANGED next /\ ServiceUnchanged
        /\ \/ UNCHANGED up
           \/ /\ s.phase \in {"starting"} \cup Hearing
              /\ Asked(s.id, Request("cancel"))
    BY <1>4 DEF Cancel
  <2>2. \/ Hangup(s.id)
        \/ UNCHANGED <<link, down>> /\ link[s.id] # "open"
    BY <1>4 DEF Cancel
  <2> QED BY <2>1, <2>2, ResetKeeps
<1>5. CASE Accept
  <2>1. link[s.id] # "open"
    BY <1>5 DEF Accept, IInv, Links
  <2> QED BY <1>5, <2>1, ResetKeeps DEF Accept
<1>6. CASE HandshakeExpires
  BY <1>6, ResetKeeps DEF HandshakeExpires, Early
<1>7. CASE LinkLost
  BY <1>7, ResetKeeps DEF LinkLost
<1>8. ASSUME NEW i \in Sessions,
             \/ Enter(i) \/ Serve(i) \/ Limit(i) \/ WorkerEnds(i)
             \/ \E t \in Texts : Publish(i, t[1], t[2])
             \/ CloseSession(i) \/ Depart(i)
      PROVE  IInv'
  <2>1. ASSUME NEW t \in Texts, Publish(i, t[1], t[2]) PROVE IInv'
    <3>1. t[1] \in {"partial", "final"} /\ t[2] \in 0 .. 1
      BY DEF Texts
    <3> QED BY <2>1, <3>1, PublishKeeps
  <2> QED BY <1>8, <2>1, EnterKeeps, ServeKeeps, LimitKeeps, WorkerKeeps, CloseKeeps, DepartKeeps
<1>9. CASE ServiceEnds
  BY <1>9, EndKeeps
<1>10. CASE ServiceRestarts
  <2>1. UNCHANGED <<streaming, s, next, link, up, down, svc, owner, deaths>> /\ alive' = TRUE
    BY <1>10 DEF ServiceRestarts
  <2>2. TypeOK'
    BY <2>1 DEF TypeOK, SessionRecord, RequestLine, HandlerRecord
  <2>3. Links' /\ Conversation'
    BY <2>1 DEF IInv, Links, Conversation
  <2>4. Handlers'
    BY <2>1 DEF IInv, Handlers
  <2> QED BY <2>2, <2>3, <2>4 DEF IInv
<1>11. CASE UNCHANGED vars
  <2>1. UNCHANGED <<streaming, s, next, link, up, down, svc, owner, alive, deaths>>
    BY <1>11 DEF vars
  <2>2. TypeOK'
    BY <2>1 DEF TypeOK, SessionRecord, RequestLine, HandlerRecord
  <2>3. Links' /\ Conversation'
    BY <2>1 DEF IInv, Links, Conversation
  <2>4. Handlers'
    BY <2>1 DEF IInv, Handlers
  <2> QED BY <2>2, <2>3, <2>4 DEF IInv
<1> QED BY <1>1, <1>2, <1>3, <1>4, <1>5, <1>6, <1>7, <1>8, <1>9, <1>10, <1>11
     DEF Next, Addon, Service

LEMMA Initially == Init => IInv
PROOF
<1> SUFFICES ASSUME Init PROVE IInv
  OBVIOUS
<1>1. MaxSessions \in Nat /\ MaxTexts \in Nat /\ MaxDeaths \in Nat
  BY VoiceSystemAssumption
<1>2. Handler \in HandlerRecord /\ Handler.at = "new" /\ Handler.phase = "idle"
  BY HandlersTyped DEF Handler
<1>3. TypeOK
  <2>1. s \in SessionRecord /\ svc \in [Sessions -> HandlerRecord]
    BY <1>2, BlankTyped DEF Init
  <2>2. owner = (\E i \in Sessions : svc[i].at \in {"serving", "closing"})
    BY <1>2 DEF Init
  <2>3. /\ streaming \in BOOLEAN /\ next \in 0 .. MaxSessions /\ alive \in BOOLEAN
        /\ deaths \in 0 .. MaxDeaths
        /\ link \in [Sessions -> {"unused", "open", "closed"}]
    BY <1>1 DEF Init
  <2>4. up \in [Sessions -> Seq(RequestLine)] /\ down \in [Sessions -> Seq(Message)]
    BY DEF Init
  <2> QED BY <2>1, <2>2, <2>3, <2>4 DEF TypeOK, SessionRecord, HandlerRecord, RequestLine
<1>4. Links
  <2>1. \A i \in Sessions : i > 0
    BY <1>1 DEF Sessions
  <2> QED BY <2>1, BlankTyped DEF Init, Links, NoSession
<1>5. Handlers
  BY <1>2 DEF Init, Handlers
<1>6. Conversation
  BY BlankTyped DEF Init, Conversation
<1> QED BY <1>3, <1>4, <1>5, <1>6 DEF IInv

\* The conversation keeps its shape, whatever the texts of exceptions are.
THEOREM Conversing == Spec => []IInv
PROOF
<1> QED BY Initially, Inductive, PTL DEF Spec

\* A microphone that is on belongs to the session the user sees, or its
\* connection is closed (VoiceSystem.MicrophoneShown): server.py and session.py
\* with session.cpp at the other end.
THEOREM ShownTheorem == Spec => []MicrophoneShown
PROOF
<1>1. IInv => MicrophoneShown
  <2> SUFFICES ASSUME IInv, NEW i \in Sessions, svc[i].phase = "recording"
               PROVE  link[i] = "closed" \/ (s.id = i /\ s.phase # "preview")
    BY DEF MicrophoneShown
  <2>1. svc[i].at = "serving" /\ link[i] # "unused"
    BY DEF IInv, Handlers
  <2>2. link[i] \in {"open", "closed"}
    BY <2>1, Connected
  <2> QED BY <2>2 DEF IInv, Links
<1> QED BY <1>1, Conversing, PTL

\* The two sides never disagree for good about a session or about who has the
\* microphone (VoiceSystem.Agreement), provided that the texts of exceptions
\* and of offline results are one line: the add-on ignores an error or a result
\* it cannot print (plugin/session.cpp), and then waits on.
THEOREM AgreementTheorem ==
    ASSUME OneLine \subseteq {TRUE}
    PROVE  Spec => []Agreement
PROOF
<1>1. Printable
  BY DEF Printable
<1>2. IInv => PhasesAgree
  <2> SUFFICES ASSUME IInv, Quiet
               PROVE  s.phase = svc[s.id].phase
    BY DEF PhasesAgree
  <2>1. /\ s.phase # "idle" /\ link[s.id] = "open" /\ svc[s.id].at = "serving"
        /\ up[s.id] = <<>> /\ down[s.id] = <<>>
    BY DEF Quiet
  <2>2. s.id \in Sessions /\ s.phase \notin {"idle", "preview"} /\ s.phase \in SessionPhases
    BY <2>1, Connected DEF IInv, Links, SessionRecord
  <2>3. Talk(streaming, s, <<>>, <<>>, svc[s.id])
    BY <2>1, <2>2, Connected
  <2>4. svc[s.id].phase \in {"idle", "recording", "transcribing"}
    BY <2>2, Connected DEF HandlerRecord
  <2>5. Len(<<>>) = 0
    OBVIOUS
  <2>6. svc[s.id].phase # "idle"
    <3>1. s.phase # "connecting"
      BY <2>1, <2>3 DEF Talk, Opening
    <3>2. \A k \in 1 .. Len(<<>>) : FALSE
      BY <2>5
    <3> QED BY <1>1, <2>1, <2>3, <3>1, <3>2 DEF Talk, Ending
  <2>7. s.phase \notin {"connecting", "starting"}
    BY <2>3, <2>6 DEF Talk, Opening
  <2>8. svc[s.id].phase = "recording" => s.phase = "recording"
    BY <2>2, <2>3, <2>7 DEF Talk, Leading, SessionPhases
  <2>9. svc[s.id].phase = "transcribing" => s.phase = "transcribing"
    BY <2>3, <2>5 DEF Talk, Leading
  <2> QED BY <2>4, <2>6, <2>8, <2>9
<1>3. IInv => TypeOK
  BY DEF IInv
<1> QED BY <1>2, <1>3, Conversing, ShownTheorem, PTL DEF Agreement

\* Each text a session hears in its turn is taken (VoiceSystem.TextsTaken): the
\* count of segments and numbers in plugin/session.cpp follows that of
\* streaming_session.py, whatever is under way.
THEOREM TextsTakenTheorem == Spec => TextsTaken
PROOF
<1>1. ASSUME IInv, HandleLine, s.phase \in Hearing,
             Head(down[s.id]).type \in {"partial", "final"}
      PROVE  s'.seq = Head(down[s.id]).seq
  <2> DEFINE m == Head(down[s.id])
             D == down[s.id]
  <2>1. link[s.id] = "open" /\ D # <<>> /\ s.id \in Sessions
        /\ s.phase \notin {"idle", "preview", "connecting", "starting"}
    BY <1>1, Connected DEF HandleLine, Hearing
  <2>2. D \in Seq(Message) /\ s \in SessionRecord
        /\ Talk(streaming, s, up[s.id], D, svc[s.id])
    BY <1>1, <2>1, Connected
  <2>3. m \in Message /\ m = D[1] /\ 1 \in 1 .. Len(D)
    BY <2>1, <2>2, Removed
  <2>4. ~Welcomes(s, m) /\ IsText(m)
    BY <1>1, <2>1 DEF Welcomes, IsText
  <2>5. s' = Hears(s, m)
    BY <1>1, <2>4 DEF HandleLine, Hears
  <2>6. s.streaming /\ m.id = s.id /\ m.valid
    BY <2>1, <2>2, <2>3, <2>4 DEF Talk, Lines, Opening, IsText
  <2>7. ExpectedText(s, m)
    <3>1. ~(\E j \in 1 .. 1 - 1 : TRUE)
      OBVIOUS
    <3>2. s.seq < D[1].seq /\ D[1].seq = s.seq + 1 /\ D[1].segment = s.segment
      BY <2>2, <2>3, <2>4, <3>1 DEF Talk, Numbers
    <3> QED BY <2>3, <2>6, <3>2 DEF ExpectedText
  <2> QED BY <1>1, <2>2, <2>3, <2>4, <2>5, <2>6, <2>7, TextTaken
<1>2. IInv /\ [Next]_vars
        => [HandleLine /\ s.phase \in Hearing /\ Head(down[s.id]).type \in {"partial", "final"}
              => s'.seq = Head(down[s.id]).seq]_vars
  BY <1>1
<1> QED BY <1>2, Conversing, PTL DEF Spec, TextsTaken

=============================================================================
