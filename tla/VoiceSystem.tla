----------------------------- MODULE VoiceSystem -----------------------------
(***************************************************************************)
(* The add-on and the service together: plugin/session.cpp at one end of   *)
(* the socket, server.py and session.py or streaming_session.py at the     *)
(* other.  PluginSession gives the add-on's reactions; the service's       *)
(* handlers are one step each, because they answer while they hold the     *)
(* session's lock (Session models what happens inside).                    *)
(*                                                                         *)
(* Every session of the add-on opens a connection of its own, so session   *)
(* and connection share a number.  The two directions of a connection are  *)
(* queues: neither side ever waits for the other to read.                  *)
(***************************************************************************)
EXTENDS PluginSession

CONSTANTS
    Field,          \* the input context the user dictates into
    OneLine,        \* whether an exception's text, or an offline result, may be
                    \* (TRUE), or fail to be (FALSE), one line of text without
                    \* control characters that is not empty
    MaxSessions,    \* bound: sessions begun
    MaxTexts,       \* bound: texts the service emits in a session
    MaxDeaths       \* bound: how often the service ends under its sessions

ASSUME VoiceSystemAssumption ==
    /\ Field # NoContext
    /\ OneLine \subseteq BOOLEAN
    /\ MaxSessions \in Nat /\ MaxTexts \in Nat /\ MaxDeaths \in Nat

VARIABLES
    streaming,  \* the service runs the streaming backend (protocol 2)
    s,          \* the add-on's session_
    next,       \* the add-on's nextSessionId_
    link,       \* connection -> the add-on's end: "unused", "open", "closed"
    up,         \* connection -> requests on their way to the service
    down,       \* connection -> lines on their way to the add-on
    svc,        \* connection -> the service's handler and its Session
    owner,      \* VoiceServer.owner
    alive,      \* the service runs
    deaths      \* how often it has ended

vars == <<streaming, s, next, link, up, down, svc, owner, alive, deaths>>

Sessions == 1 .. MaxSessions

(***************************************************************************)
(* A handler's `at' is where _client has come to: "new", "serving", "closing" *)
(* (in session.close(), whose worker may still decode) or "gone".          *)
(***************************************************************************)
NoText == 2

Handler == [at |-> "new", phase |-> "idle", continuous |-> FALSE, segment |-> 1,
            seq |-> 0, previous |-> NoText]

Gone == [Handler EXCEPT !.at = "gone"]

Init ==
    /\ streaming \in BOOLEAN
    /\ s = Blank /\ next = 0
    /\ link = [i \in Sessions |-> "unused"]
    /\ up = [i \in Sessions |-> <<>>] /\ down = [i \in Sessions |-> <<>>]
    /\ svc = [i \in Sessions |-> Handler]
    /\ owner = FALSE
    /\ alive = TRUE /\ deaths = 0

Line(type, i) == [type |-> type, id |-> i, protocol |-> 0, segment |-> 0, seq |-> 0,
                  text |-> 0, valid |-> TRUE]

ErrorLine(i, oneLine) == [Line("error", i) EXCEPT !.valid = oneLine]

ResultLine(i, oneLine) == [Line("result", i) EXCEPT !.text = 1, !.valid = oneLine]

-----------------------------------------------------------------------------
(* The add-on                                                              *)

ServiceUnchanged == UNCHANGED <<streaming, svc, owner, alive, deaths>>

\* closeTransport: what the other side sent and nobody read is lost.
Hangup(i) ==
    /\ link' = [link EXCEPT ![i] = "closed"]
    /\ down' = [down EXCEPT ![i] = <<>>]

\* queue(): what is written to a service that is gone is lost.
Asked(i, request) ==
    up' = IF svc[i].at = "gone" THEN up ELSE [up EXCEPT ![i] = Append(@, request)]

\* start() and openTransport(), which fails when nobody listens
Start(continuous) ==
    /\ next < MaxSessions /\ CanBegin(s, Field)
    /\ next' = next + 1
    /\ \/ /\ alive
          /\ s' = Begin(next + 1, Field, continuous)
          /\ link' = [link EXCEPT ![next + 1] = "open"]
          /\ UNCHANGED svc
       \/ /\ ~alive
          /\ s' = Reset(Begin(next + 1, Field, continuous))
          /\ link' = [link EXCEPT ![next + 1] = "closed"]
          /\ svc' = [svc EXCEPT ![next + 1] = Gone]
    /\ UNCHANGED <<streaming, up, down, owner, alive, deaths>>

\* readAvailable() and handleLine(), with the commit of a final
HandleLine ==
    LET i == s.id
        m == Head(down[i])
        heard == IF Welcomes(s, m) THEN Welcomed(s, m)
                 ELSE [Heard(s, m) EXCEPT !.pending = <<>>]
    IN  /\ s.phase # "idle" /\ link[i] = "open" /\ down[i] # <<>>
        /\ s' = [heard EXCEPT !.error = FALSE]
        /\ IF Welcomes(s, m)
           THEN Asked(i, [type |-> "start", id |-> i, continuous |-> s.continuous])
           ELSE UNCHANGED up
        /\ IF heard.phase \in {"idle", "preview"} THEN Hangup(i)
           ELSE /\ down' = [down EXCEPT ![i] = Tail(@)]
                /\ UNCHANGED link
        /\ UNCHANGED next /\ ServiceUnchanged

Request(type) == [type |-> type, id |-> s.id, continuous |-> FALSE]

\* toggleRecording(): the trigger again, or the held keys released
Toggle ==
    /\ s.phase \in Early \cup {"recording"}
    /\ s' = Toggled(s)
    /\ IF ToggleRequest(s) = <<>> THEN UNCHANGED up
       ELSE Asked(s.id, Request(ToggleRequest(s)[1]))
    /\ IF Toggled(s).phase = "idle" THEN Hangup(s.id) ELSE UNCHANGED <<link, down>>
    /\ UNCHANGED next /\ ServiceUnchanged

\* cancelFor(): the request is written if the socket takes it at once.
Cancel ==
    /\ s.phase # "idle"
    /\ s' = Reset(s)
    /\ \/ UNCHANGED up
       \/ /\ s.phase \in {"starting"} \cup Hearing
          /\ Asked(s.id, Request("cancel"))
    /\ IF link[s.id] = "open" THEN Hangup(s.id) ELSE UNCHANGED <<link, down>>
    /\ UNCHANGED next /\ ServiceUnchanged

\* Enter on a preview
Accept ==
    /\ s.phase = "preview"
    /\ s' = Reset(s)
    /\ UNCHANGED <<next, link, up, down>> /\ ServiceUnchanged

\* the handshake timer's failTransport()
HandshakeExpires ==
    /\ s.phase \in Early
    /\ s' = Reset(s)
    /\ Hangup(s.id)
    /\ UNCHANGED <<next, up>> /\ ServiceUnchanged

\* Slip: the end of the connection is looked at while recording only.
LinkLostRecording ==
    /\ s.phase = "recording" /\ link[s.id] = "open"
    /\ svc[s.id].at = "gone" /\ down[s.id] = <<>>
    /\ s' = Reset(s)
    /\ Hangup(s.id)
    /\ UNCHANGED <<next, up>> /\ ServiceUnchanged

\* The service's end is closed, and what it wrote is read: failTransport().
LinkLost ==
    /\ s.phase # "idle" /\ link[s.id] = "open"
    /\ svc[s.id].at = "gone" /\ down[s.id] = <<>>
    /\ s' = Reset(s)
    /\ Hangup(s.id)
    /\ UNCHANGED <<next, up>> /\ ServiceUnchanged

-----------------------------------------------------------------------------
(* The service                                                             *)

AddonUnchanged == UNCHANGED <<streaming, s, next, link, alive, deaths>>

\* emit(): what is written to a connection the add-on has closed is lost.
Emit(i, lines) ==
    down' = IF link[i] = "open" THEN [down EXCEPT ![i] = @ \o lines] ELSE down

\* _client: a second connection is told that the microphone is taken.
Enter(i) ==
    /\ svc[i].at = "new" /\ link[i] # "unused"
    /\ IF owner
       THEN /\ svc' = [svc EXCEPT ![i] = Gone]
            /\ Emit(i, <<Line("busy", NoSession)>>)
            /\ UNCHANGED owner
       ELSE /\ svc' = [svc EXCEPT ![i].at = "serving"]
            /\ owner' = TRUE
            /\ Emit(i, <<[Line("ready", NoSession) EXCEPT
                             !.protocol = IF streaming THEN 2 ELSE 1]>>)
    /\ UNCHANGED up /\ AddonUnchanged

\* Session.start: recording, or the microphone does not start
Started(i, m) ==
    \/ /\ svc' = [svc EXCEPT ![i].phase = "recording",
                             ![i].continuous = m.continuous]
       /\ Emit(i, <<Line("recording", i)>>)
    \/ \E oneLine \in OneLine : Emit(i, <<ErrorLine(i, oneLine)>>) /\ UNCHANGED svc

\* Slip: the session is given up without a word when the capture failed.
StoppedSilently(i) ==
    CASE svc[i].phase = "recording" ->
           \/ /\ svc' = [svc EXCEPT ![i].phase = "transcribing"]
              /\ Emit(i, <<Line("transcribing", i)>>)
           \/ /\ svc' = [svc EXCEPT ![i].phase = "idle"]
              /\ UNCHANGED down
      [] svc[i].phase = "transcribing" -> UNCHANGED <<svc, down>>
      [] OTHER -> Emit(i, <<ErrorLine(i, TRUE)>>) /\ UNCHANGED svc

\* Session.stop; an error of the capture ends the session with its text.
Stopped(i) ==
    CASE svc[i].phase = "recording" ->
           \/ /\ svc' = [svc EXCEPT ![i].phase = "transcribing"]
              /\ Emit(i, <<Line("transcribing", i)>>)
           \/ /\ svc' = [svc EXCEPT ![i].phase = "idle"]
              /\ \E oneLine \in OneLine : Emit(i, <<ErrorLine(i, oneLine)>>)
      [] svc[i].phase = "transcribing" -> UNCHANGED <<svc, down>>
      [] OTHER -> Emit(i, <<ErrorLine(i, TRUE)>>) /\ UNCHANGED svc

\* Session.cancel
Cancelled(i) ==
    IF svc[i].phase = "idle" THEN Emit(i, <<ErrorLine(i, TRUE)>>) /\ UNCHANGED svc
    ELSE /\ svc' = [svc EXCEPT ![i].phase = "idle"]
         /\ Emit(i, <<Line("cancelled", i)>>)

\* the loop of _client: one request of the add-on
Serve(i) ==
    /\ svc[i].at = "serving" /\ up[i] # <<>>
    /\ up' = [up EXCEPT ![i] = Tail(@)]
    /\ CASE Head(up[i]).type = "start" -> Started(i, Head(up[i]))
         [] Head(up[i]).type = "stop" -> Stopped(i)
         [] Head(up[i]).type = "cancel" -> Cancelled(i)
    /\ UNCHANGED owner /\ AddonUnchanged

\* _limit(): the recording has lasted max_seconds.
Limit(i) ==
    /\ svc[i].at = "serving" /\ svc[i].phase = "recording" /\ ~svc[i].continuous
    /\ Stopped(i)
    /\ UNCHANGED <<up, owner>> /\ AddonUnchanged

\* Slip: an empty final does not end its segment.
NextSegmentIfText(h, kind, text) ==
    IF kind = "final"
    THEN [h EXCEPT !.seq = @ + 1, !.previous = NoText,
                   !.segment = IF text > 0 THEN @ + 1 ELSE @]
    ELSE [h EXCEPT !.seq = @ + 1, !.previous = text]

NextSegment(h, kind, text) ==
    IF kind = "final"
    THEN [h EXCEPT !.seq = @ + 1, !.previous = NoText, !.segment = @ + 1]
    ELSE [h EXCEPT !.seq = @ + 1, !.previous = text]

\* publish(), for one result; format_segment makes every text fit to print.
Publish(i, kind, text) ==
    LET h == NextSegment(svc[i], kind, text)
    IN  /\ streaming /\ svc[i].at = "serving" /\ svc[i].seq < MaxTexts
        /\ svc[i].phase \in {"recording", "transcribing"}
        /\ kind = "partial" => text # svc[i].previous
        /\ svc' = [svc EXCEPT ![i] = h]
        /\ Emit(i, <<[Line(kind, i) EXCEPT !.segment = svc[i].segment, !.seq = h.seq,
                                           !.text = text]>>)
        /\ UNCHANGED <<up, owner>> /\ AddonUnchanged

\* The worker is done: `finished' or the result, once the stop is known; an
\* error of the recognizer or, while streaming, of the capture at any time.
\* _decode strips the result and drops control characters below 32 but keeps
\* 0x7f, and what is left may be empty; the add-on takes neither.
WorkerEnds(i) ==
    /\ svc[i].at = "serving" /\ svc[i].phase # "idle"
    /\ svc' = [svc EXCEPT ![i].phase = "idle"]
    /\ \/ /\ svc[i].phase = "transcribing" /\ streaming
          /\ Emit(i, <<Line("finished", i)>>)
       \/ /\ svc[i].phase = "transcribing" /\ ~streaming
          /\ \E oneLine \in OneLine : Emit(i, <<ResultLine(i, oneLine)>>)
       \/ /\ svc[i].phase = "transcribing" \/ streaming
          /\ \E oneLine \in OneLine : Emit(i, <<ErrorLine(i, oneLine)>>)
    /\ UNCHANGED <<up, owner>> /\ AddonUnchanged

\* Slip: the end of the connection is looked at between two recordings.
ClosedAfterIdle(i) == link[i] = "closed" /\ svc[i].phase = "idle"

\* readline() is at the end, or emit() failed before
Closed(i) == link[i] = "closed"

\* The finally of _client: close() releases the microphone first.
CloseSession(i) ==
    /\ svc[i].at = "serving" /\ Closed(i)
    /\ svc' = [svc EXCEPT ![i] = [Handler EXCEPT !.at = "closing"]]
    /\ up' = [up EXCEPT ![i] = <<>>]
    /\ UNCHANGED <<down, owner>> /\ AddonUnchanged

\* ... and gives up the ownership when the worker has ended.
Depart(i) ==
    /\ svc[i].at = "closing"
    /\ svc' = [svc EXCEPT ![i] = Gone]
    /\ owner' = FALSE
    /\ UNCHANGED <<up, down>> /\ AddonUnchanged

\* The service is killed or told to stop, at any point and without a word; the
\* capture ends with it.
ServiceEnds ==
    /\ alive /\ deaths < MaxDeaths
    /\ alive' = FALSE /\ deaths' = deaths + 1
    /\ svc' = [i \in Sessions |-> IF link[i] = "unused" THEN svc[i] ELSE Gone]
    /\ up' = [i \in Sessions |-> <<>>]
    /\ owner' = FALSE
    /\ UNCHANGED <<streaming, s, next, link, down>>

\* systemd starts it again.
ServiceRestarts ==
    /\ ~alive /\ alive' = TRUE
    /\ UNCHANGED <<streaming, s, next, link, up, down, svc, owner, deaths>>

Addon ==
    \/ \E continuous \in BOOLEAN : Start(continuous)
    \/ HandleLine \/ Toggle \/ Cancel \/ Accept \/ HandshakeExpires \/ LinkLost

Texts == {"partial", "final"} \X (0 .. 1)

Service ==
    \E i \in Sessions :
        \/ Enter(i) \/ Serve(i) \/ Limit(i) \/ WorkerEnds(i)
        \/ \E t \in Texts : Publish(i, t[1], t[2])
        \/ CloseSession(i) \/ Depart(i)

Next == Addon \/ Service \/ ServiceEnds \/ ServiceRestarts

Spec == Init /\ [][Next]_vars

\* The add-on reads what has come; the service reads requests and the end of
\* a connection, joins its worker, and its recordings and recognition end.
FairSpec ==
    /\ Spec
    /\ WF_vars(HandleLine) /\ WF_vars(HandshakeExpires) /\ WF_vars(LinkLost)
    /\ \A i \in Sessions :
         /\ WF_vars(Enter(i)) /\ WF_vars(Serve(i)) /\ WF_vars(Limit(i))
         /\ WF_vars(CloseSession(i)) /\ WF_vars(Depart(i))
         /\ WF_vars(svc[i].phase = "transcribing" /\ WorkerEnds(i))

-----------------------------------------------------------------------------
(* Properties                                                              *)

Message == [type : {"ready", "busy", "error", "recording", "transcribing", "result",
                    "partial", "final", "finished", "cancelled"},
            id : Nat, protocol : 0 .. 2, segment : Nat, seq : Nat, text : 0 .. 1,
            valid : BOOLEAN]

\* Members keep their types, and the microphone is owned by the one handler
\* that serves or is closing.
TypeOK ==
    /\ streaming \in BOOLEAN
    /\ s \in [phase : SessionPhases, id : Nat, context : {Field, NoContext},
              continuous : BOOLEAN, streaming : BOOLEAN, preview : 0 .. 1,
              segment : Nat, seq : Nat, pending : {<<>>}, error : {FALSE}]
    /\ next \in 0 .. MaxSessions
    /\ link \in [Sessions -> {"unused", "open", "closed"}]
    /\ up \in [Sessions -> Seq([type : {"start", "stop", "cancel"}, id : Sessions,
                                continuous : BOOLEAN])]
    /\ down \in [Sessions -> Seq(Message)]
    /\ svc \in [Sessions -> [at : {"new", "serving", "closing", "gone"},
                             phase : {"idle", "recording", "transcribing"},
                             continuous : BOOLEAN, segment : Nat, seq : 0 .. MaxTexts,
                             previous : 0 .. NoText]]
    /\ owner = (\E i \in Sessions : svc[i].at \in {"serving", "closing"})
    /\ alive \in BOOLEAN /\ deaths \in 0 .. MaxDeaths

\* Nothing is under way on the connection of the add-on's session, which the
\* service has accepted.
Quiet ==
    /\ s.phase # "idle" /\ link[s.id] = "open" /\ svc[s.id].at = "serving"
    /\ up[s.id] = <<>> /\ down[s.id] = <<>>

\* When nothing is under way, both sides are in the same phase of the same
\* session: no crossing of stop, cancel, the limit and the end of recognition
\* leaves one side waiting for a line that the other will not send.
PhasesAgree == Quiet => s.phase = svc[s.id].phase

\* A microphone that is on belongs to the session the user sees, or the
\* service is about to read that the connection is closed.
MicrophoneShown ==
    \A i \in Sessions : svc[i].phase = "recording" =>
        link[i] = "closed" \/ (s.id = i /\ s.phase # "preview")

\* All of them: the two sides never disagree for good about a session or about
\* who has the microphone.
Agreement == TypeOK /\ PhasesAgree /\ MicrophoneShown

\* Each text a session hears in its turn is taken: the add-on's count of
\* segments and sequence numbers follows the service's, also over empty
\* finals, so no text is refused and none after it.
TextsTaken ==
    [][HandleLine /\ s.phase \in Hearing /\ Head(down[s.id]).type \in {"partial", "final"}
         => s'.seq = Head(down[s.id]).seq]_vars

\* A stop that was asked for ends the session, with a text or an error, and so does
\* the end of the service at any point of it.
StopAnswered ==
    \A i \in Sessions :
        (s.id = i /\ (s.phase = "stopping" \/ svc[i].at = "gone"))
            ~> (s.id # i \/ s.phase = "preview")

\* A session the user left does not keep the microphone.
MicrophoneLeaves ==
    \A i \in Sessions :
        (svc[i].phase = "recording" /\ s.id # i) ~> (svc[i].phase # "recording")

\* The design's one terminal event per session, at the side that needs it:
\* when the service has ended a session and everything was read, the add-on
\* is not still waiting for its end.  With messages as they are written the code does not
\* keep this (README, Disagreements).
EndIsHeard == Quiet /\ svc[s.id].phase = "idle" => s.phase \notin Hearing
=============================================================================
