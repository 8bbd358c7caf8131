-------------------------- MODULE MCOfflineSession --------------------------
(***************************************************************************)
(* Small instances of OfflineSession.                                      *)
(***************************************************************************)
EXTENDS OfflineSession

(***************************************************************************)
(* A client that keeps the protocol: it starts one recording and, once     *)
(* that has begun, stops it once.  Its line may cross the service's events *)
(* on the way.                                                             *)
(***************************************************************************)
PoliteStep ==
    commands' # commands =>
        \/ pc'[Client] = "start" /\ commands = 0
        \/ pc'[Client] = "stop" /\ commands = 1 /\ cap[1].proc # "absent"

PoliteSpec == Init /\ [][Next /\ PoliteStep]_baseVars
=============================================================================
