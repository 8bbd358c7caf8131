------------------------ MODULE MCStreamingSession ------------------------
(***************************************************************************)
(* Small instances of StreamingSession.                                    *)
(***************************************************************************)
EXTENDS StreamingSession

\* a call that changes nothing, and a final with the first partial of the
\* next segment
ResultLists == {<<>>, <<"final", "partial">>}

ShortLists == {<<"partial">>}
=============================================================================
