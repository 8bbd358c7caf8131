----------------------------- MODULE Dictation -----------------------------
(***************************************************************************)
(* What the voice service promises a client: the order of the events it    *)
(* writes for each session id, whatever runs inside.  `told' is what the   *)
(* client has been told, `open' whether the service still speaks on this   *)
(* connection.                                                             *)
(***************************************************************************)
EXTENDS Naturals

CONSTANTS
    Ids         \* session identifiers

VARIABLES
    told,       \* [Ids -> Heard]
    open        \* BOOLEAN

vars == <<told, open>>

Active == {"recording", "transcribing"}
Over   == {"none", "finished", "cancelled", "error"}

Heard == [phase : Active \cup Over, segment : Nat, seq : Nat]

Silence == [phase |-> "none", segment |-> 0, seq |-> 0]

Init == told = [i \in Ids |-> Silence] /\ open = TRUE

\* One recording at a time on a connection; an id may be used again.
Begin(i) ==
    /\ \A j \in Ids : told[j].phase \in Over
    /\ told' = [told EXCEPT ![i] =
                  [phase |-> "recording", segment |-> 1, seq |-> 0]]

\* Text carries consecutive sequence numbers; a final closes its segment.
Partial(i) ==
    /\ told[i].phase \in Active
    /\ told' = [told EXCEPT ![i].seq = @ + 1]

Final(i) ==
    /\ told[i].phase \in Active
    /\ told' = [told EXCEPT ![i].seq = @ + 1, ![i].segment = @ + 1]

Transcribe(i) ==
    /\ told[i].phase = "recording"
    /\ told' = [told EXCEPT ![i].phase = "transcribing"]

\* finished (streaming) or result (offline) only after transcribing.
Finish(i) ==
    /\ told[i].phase = "transcribing"
    /\ told' = [told EXCEPT ![i].phase = "finished"]

Cancel(i) ==
    /\ told[i].phase \in Active
    /\ told' = [told EXCEPT ![i].phase = "cancelled"]

\* An active session fails, or a recording cannot begin at all.
Fail(i) ==
    /\ told[i].phase \in Active \/ \A j \in Ids : told[j].phase \in Over
    /\ told' = [told EXCEPT ![i].phase = "error"]

HangUp == open /\ open' = FALSE /\ UNCHANGED told

Speak(i) ==
    /\ open /\ UNCHANGED open
    /\ \/ Begin(i) \/ Partial(i) \/ Final(i) \/ Transcribe(i)
       \/ Finish(i) \/ Cancel(i) \/ Fail(i)

Next == HangUp \/ \E i \in Ids : Speak(i)

Safe == Init /\ [][Next]_vars
=============================================================================
