--------------------------- MODULE PluginSession ---------------------------
(***************************************************************************)
(* The add-on's Session object (plugin/session.cpp) as a record, and its   *)
(* methods as operators on it.  A text is its number of characters, an     *)
(* optional is a sequence of at most one element, and the service's lines  *)
(* are records whose `valid' says whether the text or message they carry   *)
(* passes the checks of length, UTF-8 and control characters.              *)
(***************************************************************************)
EXTENDS Naturals, Sequences

CONSTANT NoContext      \* a null InputContext

NoSession == 0          \* the empty id

SessionPhases == {"idle", "connecting", "starting", "recording", "stopping",
                  "transcribing", "preview"}

Early == {"connecting", "starting"}
Hearing == {"recording", "stopping", "transcribing"}

Blank == [phase |-> "idle", id |-> NoSession, context |-> NoContext,
          continuous |-> FALSE, streaming |-> FALSE, preview |-> 0,
          segment |-> 1, seq |-> 0, pending |-> <<>>, error |-> FALSE]

\* reset() keeps the error for takeError().
Reset(s) == [Blank EXCEPT !.error = s.error]

CanBegin(s, c) == s.phase = "idle" /\ c # NoContext

Begin(i, c, continuous) ==
    [Blank EXCEPT !.phase = "connecting", !.id = i, !.context = c,
                  !.continuous = continuous]

ActiveFor(s, c) == s.phase # "idle" /\ c # NoContext /\ c = s.context

-----------------------------------------------------------------------------
(* handleLine: what each kind of line does to a session it concerns        *)

Failed(s) == Reset([s EXCEPT !.error = TRUE])

\* error and busy before the recording has begun may come without an id.
Refused(s, m) ==
    IF m.id \notin {NoSession, s.id} \/ (m.type = "error" /\ ~m.valid) THEN s
    ELSE Failed(s)

\* Slip: the segment and the sequence number are not looked at
AnyText(s, m) == m.valid

ExpectedText(s, m) == m.valid /\ m.segment = s.segment /\ m.seq > s.seq

\* partial and final
Texted(s, m) ==
    IF ~ExpectedText(s, m) THEN s
    ELSE IF m.type = "partial" THEN [s EXCEPT !.seq = m.seq, !.preview = m.text]
    ELSE [s EXCEPT !.seq = m.seq, !.preview = 0, !.pending = <<m.text>>,
                   !.segment = @ + 1]

\* the events that name the session
Informed(s, m) ==
    CASE m.type = "recording" /\ s.phase = "starting" ->
           [s EXCEPT !.phase = "recording"]
      [] m.type = "transcribing" /\ s.phase \in {"recording", "stopping"} ->
           [s EXCEPT !.phase = "transcribing"]
      [] m.type = "result" /\ ~s.streaming /\ s.phase = "transcribing"
           /\ m.valid /\ m.text > 0 ->
           [s EXCEPT !.phase = "preview", !.preview = m.text]
      [] m.type \in {"partial", "final"} /\ s.streaming /\ s.phase \in Hearing ->
           Texted(s, m)
      [] m.type = "finished" /\ s.streaming /\ s.phase \in Hearing -> Reset(s)
      [] m.type = "cancelled" /\ s.phase # "preview" -> Reset(s)
      [] m.type = "error" /\ s.phase # "preview" /\ m.valid -> Failed(s)
      [] OTHER -> s

\* every line but a `ready' that is due
Heard(s, m) ==
    IF m.type \in {"error", "busy"} /\ s.phase \in Early THEN Refused(s, m)
    ELSE IF m.id = s.id /\ s.phase # "idle" /\ m.type # "ready" THEN Informed(s, m)
    ELSE s

\* the `ready' that is answered by a start request
Welcomes(s, m) ==
    m.type = "ready" /\ s.phase = "connecting" /\ m.protocol \in {1, 2}

Welcomed(s, m) == [s EXCEPT !.streaming = (m.protocol = 2), !.phase = "starting"]

-----------------------------------------------------------------------------
(* The other methods, each with the request it returns                     *)

\* toggle()
ToggleRequest(s) ==
    CASE s.phase = "recording" -> <<"stop">>
      [] s.phase = "starting" -> <<"cancel">>
      [] OTHER -> <<>>

\* Slip: a recording that is still starting is not given up
ToggledLate(s) == IF s.phase = "recording" THEN [s EXCEPT !.phase = "stopping"] ELSE s

Toggled(s) ==
    CASE s.phase = "recording" -> [s EXCEPT !.phase = "stopping"]
      [] s.phase \in Early -> Reset(s)
      [] OTHER -> s

\* backspace()
Shortened(s) == [s EXCEPT !.preview = IF @ = 0 THEN 0 ELSE @ - 1]
=============================================================================
