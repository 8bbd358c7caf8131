---------------------------- MODULE MCVoiceInput ----------------------------
(***************************************************************************)
(* Small instances of VoiceInput.                                          *)
(***************************************************************************)
EXTENDS VoiceInput

Line == [type |-> "ready", id |-> NoSession, protocol |-> 0, segment |-> 0, seq |-> 0,
         text |-> 0, valid |-> TRUE]

SomeIds == 1 .. MaxSessions

Handshakes ==
    {[Line EXCEPT !.protocol = n] : n \in 1 .. 2}
    \cup {[Line EXCEPT !.type = "busy"]}
    \cup {[Line EXCEPT !.type = "error", !.id = i] : i \in {NoSession} \cup SomeIds}

Events ==
    {[Line EXCEPT !.type = t, !.id = i] :
        t \in {"recording", "transcribing", "finished", "cancelled"}, i \in SomeIds}
    \cup {[Line EXCEPT !.type = "result", !.id = i, !.text = 1, !.valid = ok] :
            i \in SomeIds, ok \in BOOLEAN}

\* two segments and their texts, in, out of and behind their order
Texts ==
    {[Line EXCEPT !.type = t, !.id = i, !.segment = g, !.seq = q, !.text = x] :
        t \in {"partial", "final"}, i \in SomeIds, g \in 1 .. 2, q \in 1 .. 2, x \in 0 .. 1}

AllLines == Handshakes \cup Events \cup Texts
=============================================================================
