------------------------------ MODULE AutoSetup ------------------------------
(***************************************************************************)
(* Setting up a user's desktop after the package was installed:            *)
(* auto-setup.py, the part of setup.py it runs, package-session.py (the    *)
(* Debian hooks) and the systemd unit fcitx5-voice-setup.service.  The     *)
(* user may also run auto-setup.py by hand.                                *)
(***************************************************************************)
EXTENDS Naturals

CONSTANTS Unit, Manual,  \* the two ways to run auto-setup.py
          MaxUnpacks,    \* bound: packages unpacked
          MaxFailures,   \* bound: setups that fail
          MaxKills       \* bound: runs killed by a logout or a crash

Runs == {Unit, Manual}
Nobody == "nobody"
Steps == {"install-user", "download-model", "doctor", "restart", "wait-ready", "desktop"}

SetupAssumption ==
    /\ Unit # Manual /\ Nobody \notin Runs
    /\ MaxUnpacks \in Nat /\ MaxFailures \in Nat /\ MaxKills \in Nat

VARIABLES dpkg,      \* what dpkg is doing
          version,   \* which unpacking PACKAGE_VERSION is from; 0 when it is not there
          payload,   \* which unpacking the scripts and sources are from
          unit,      \* systemd's state of the setup unit
          session,   \* whether the user has a graphical session
          run, lock, \* the runs of auto-setup.py and the holder of auto-setup.lock
          status,    \* setup-status.json
          user,      \* what is installed for the user
          torn,      \* history: the unpacking during which a run copied old files
          unpacks, failures, kills

package == <<dpkg, version, payload, unpacks>>
desktop == <<status, user, torn>>
vars == <<dpkg, version, payload, unit, session, run, lock, status, user, torn, unpacks, failures, kills>>

\* Slip: a reinstalled package of the same version is the same generation.
GenerationText(v) == 1

\* The text of the file and its ctime, which every unpacking changes.
Generation(v) == v

Idle == [pc |-> "idle", generation |-> 0]

TypeOK ==
    /\ dpkg \in {"idle", "upgrading", "removing", "unpacking", "unpacked"}
    /\ version \in 0 .. MaxUnpacks /\ payload \in 0 .. MaxUnpacks
    /\ unit \in {"inactive", "active", "retry"}
    /\ session \in BOOLEAN
    /\ run \in [Runs -> [pc: {"idle", "started", "opened", "locked"} \union Steps,
                         generation: 0 .. MaxUnpacks]]
    /\ lock \in Runs \union {Nobody}
    /\ status \in [generation: 0 .. MaxUnpacks,
                   state: {"none", "installing", "failed", "ready"}]
    /\ user \in [source: 0 .. MaxUnpacks, models: BOOLEAN, enabled: BOOLEAN]
    /\ torn \in 0 .. MaxUnpacks
    /\ unpacks \in 0 .. MaxUnpacks /\ failures \in 0 .. MaxFailures /\ kills \in 0 .. MaxKills
    /\ unit = "active" <=> run[Unit].pc # "idle"
    /\ \A r \in Runs : lock = r <=> run[r].pc \in {"locked"} \union Steps

Init ==
    /\ dpkg = "idle" /\ version = 0 /\ payload = 0
    /\ unit = "inactive" /\ session \in BOOLEAN
    /\ run = [r \in Runs |-> Idle] /\ lock = Nobody
    /\ status = [generation |-> 0, state |-> "none"]
    /\ user = [source |-> 0, models |-> FALSE, enabled |-> FALSE]
    /\ torn = 0 /\ unpacks = 0 /\ failures = 0 /\ kills = 0

(***************************************************************************)
(* systemd: a start of a unit that is active joins it; the condition on    *)
(* PACKAGE_VERSION is tested on every start.                               *)
(***************************************************************************)
Requested ==
    IF unit = "active" \/ version = 0
    THEN UNCHANGED <<unit, run>>
    ELSE unit' = "active" /\ run' = [run EXCEPT ![Unit].pc = "started"]

\* The run is over with this exit status; Restart=on-failure, but not after 78.
Exits(r, code) ==
    /\ run' = [run EXCEPT ![r] = Idle]
    /\ lock' = IF lock = r THEN Nobody ELSE lock
    /\ unit' = IF r = Unit THEN (IF code = 1 THEN "retry" ELSE "inactive") ELSE unit

Stopped ==
    /\ run' = [run EXCEPT ![Unit] = Idle]
    /\ lock' = IF lock = Unit THEN Nobody ELSE lock
    /\ unit' = "inactive"

\* After 300 seconds.
Retry ==
    /\ unit = "retry"
    /\ IF version = 0 THEN unit' = "inactive" /\ UNCHANGED run ELSE Requested
    /\ UNCHANGED <<package, session, lock, desktop, failures, kills>>

(***************************************************************************)
(* auto-setup.py                                                           *)
(***************************************************************************)
ByHand ==
    /\ run[Manual].pc = "idle" /\ session
    /\ run' = [run EXCEPT ![Manual].pc = "started"]
    /\ UNCHANGED <<package, unit, session, lock, desktop, failures, kills>>

Goes(r, pc) == run' = [run EXCEPT ![r].pc = pc]

Begin(r) ==
    /\ run[r].pc = "started"
    /\ \/ version = 0 /\ Exits(r, 0)
       \/ version # 0 /\ ~session /\ Exits(r, 78)
       \/ version # 0 /\ session /\ Goes(r, "opened") /\ UNCHANGED <<unit, lock>>
    /\ UNCHANGED <<package, session, desktop, failures, kills>>

Lock(r) ==
    /\ run[r].pc = "opened"
    /\ \/ lock # Nobody /\ Exits(r, 0)
       \/ lock = Nobody /\ lock' = r /\ Goes(r, "locked") /\ UNCHANGED unit
    /\ UNCHANGED <<package, session, desktop, failures, kills>>

\* Slip: a generation once begun is not set up again.
BegunIsDone(generation) == status.generation = generation /\ status.state # "failed"

AlreadyReady(generation) == status.generation = generation /\ status.state = "ready"

Look(r) ==
    /\ run[r].pc = "locked"
    /\ \/ version = 0 /\ Exits(r, 1) /\ UNCHANGED status
       \/ version # 0 /\ AlreadyReady(Generation(version)) /\ Exits(r, 0) /\ UNCHANGED status
       \/ /\ version # 0 /\ ~AlreadyReady(Generation(version))
          /\ run' = [run EXCEPT ![r] = [pc |-> "install-user", generation |-> Generation(version)]]
          /\ status' = [generation |-> Generation(version), state |-> "installing"]
          /\ UNCHANGED <<unit, lock>>
    /\ UNCHANGED <<package, session, user, torn, failures, kills>>

\* setup.py --service-only --desktop-service, one command after the other.
Step(r) ==
    LET pc == run[r].pc IN
    /\ torn' = IF pc = "install-user" /\ payload # version THEN version ELSE torn
    /\ UNCHANGED <<package, session, status, failures, kills, unit, lock>>
    /\ \/ /\ pc = "install-user" /\ payload # 0
          /\ user' = [user EXCEPT !.source = payload] /\ Goes(r, "download-model")
       \/ /\ pc = "download-model" /\ payload # 0
          /\ user' = [user EXCEPT !.models = TRUE] /\ Goes(r, "doctor")
       \/ /\ pc = "doctor" /\ user.models
          /\ Goes(r, "restart") /\ UNCHANGED user
       \/ /\ pc = "restart"
          /\ user' = [user EXCEPT !.enabled = TRUE] /\ Goes(r, "wait-ready")
       \/ pc = "wait-ready" /\ Goes(r, "desktop") /\ UNCHANGED user

Recorded(r, state) == status' = [generation |-> run[r].generation, state |-> state]

SetupFails(r) ==
    /\ run[r].pc \in Steps
    /\ payload # 0 => failures < MaxFailures /\ failures' = failures + 1
    /\ payload = 0 => UNCHANGED failures
    /\ Recorded(r, "failed")
    /\ Exits(r, 1)
    /\ UNCHANGED <<package, session, user, torn, kills>>

SetupSucceeds(r) ==
    /\ run[r].pc = "desktop"
    /\ Recorded(r, "ready")
    /\ Exits(r, 0)
    /\ UNCHANGED <<package, session, user, torn, failures, kills>>

(***************************************************************************)
(* The session: a login runs auto-setup.py --launch, a logout stops the    *)
(* unit (PartOf=graphical-session.target).                                 *)
(***************************************************************************)
Login ==
    /\ session' = TRUE
    /\ Requested
    /\ UNCHANGED <<package, lock, desktop, failures, kills>>

Logout ==
    /\ session /\ kills < MaxKills
    /\ session' = FALSE /\ kills' = kills + 1
    /\ Stopped
    /\ UNCHANGED <<package, desktop, failures>>

Crash(r) ==
    /\ run[r].pc # "idle" /\ kills < MaxKills
    /\ kills' = kills + 1
    /\ Exits(r, 1)
    /\ UNCHANGED <<package, session, desktop, failures>>

(***************************************************************************)
(* dpkg and its hooks.  `reached': whether logind and systemctl could be   *)
(* asked; they never make the hook fail.                                   *)
(***************************************************************************)
Prerm(action) ==
    /\ dpkg = "idle" /\ version # 0
    /\ action = "upgrading" => unpacks < MaxUnpacks
    /\ dpkg' = action
    /\ \E reached \in BOOLEAN :
          IF reached
          THEN /\ Stopped
               /\ user' = [user EXCEPT !.enabled = @ /\ action = "upgrading"]
          ELSE UNCHANGED <<unit, run, lock, user>>
    /\ UNCHANGED <<version, payload, unpacks, session, status, torn, failures, kills>>

Removed ==
    /\ dpkg = "removing"
    /\ dpkg' = "idle" /\ version' = 0 /\ payload' = 0
    /\ UNCHANGED <<unpacks, unit, session, run, lock, desktop, failures, kills>>

\* dpkg renames the files of a package into place one after the other.
Unpack ==
    /\ dpkg = "upgrading" \/ (dpkg = "idle" /\ version = 0 /\ unpacks < MaxUnpacks)
    /\ unpacks' = unpacks + 1
    /\ version' = unpacks + 1
    /\ dpkg' = "unpacking"
    /\ UNCHANGED <<payload, unit, session, run, lock, desktop, failures, kills>>

UnpackRest ==
    /\ dpkg = "unpacking"
    /\ dpkg' = "unpacked" /\ payload' = version
    /\ UNCHANGED <<version, unpacks, unit, session, run, lock, desktop, failures, kills>>

Postinst ==
    /\ dpkg = "unpacked"
    /\ dpkg' = "idle"
    /\ \/ session /\ Requested
       \/ UNCHANGED <<unit, run>>
    /\ UNCHANGED <<version, payload, unpacks, session, lock, desktop, failures, kills>>

RunStep(r) ==
    Begin(r) \/ Lock(r) \/ Look(r) \/ Step(r) \/ SetupSucceeds(r)
    \/ (payload = 0 /\ SetupFails(r))

Next ==
    \/ \E r \in Runs : RunStep(r) \/ SetupFails(r) \/ Crash(r)
    \/ Retry \/ ByHand \/ Login \/ Logout
    \/ \E action \in {"upgrading", "removing"} : Prerm(action)
    \/ Removed \/ Unpack \/ UnpackRest \/ Postinst

Spec == Init /\ [][Next]_vars

\* Processes run, systemd retries, dpkg finishes what it began, and the user
\* logs in again some day when no setup is running.
Fairness ==
    /\ \A r \in Runs : WF_vars(RunStep(r))
    /\ WF_vars(Retry)
    /\ WF_vars(Removed \/ (dpkg = "upgrading" /\ Unpack) \/ UnpackRest \/ Postinst)
    /\ WF_vars(\A r \in Runs : run[r].pc = "idle" /\ Login)

FairSpec == Spec /\ Fairness

(***************************************************************************)
(* Properties.                                                             *)
(***************************************************************************)
\* When the installed package is recorded ready, the user has the files of
\* this package and the service is enabled: an interrupted setup, one of an
\* earlier package or a removal in between is never taken for it.  Excepted is a
\* run that copied the files while dpkg was replacing them, which the generation
\* cannot tell.
Configured ==
    dpkg = "idle" /\ version # 0 /\ torn # version /\ AlreadyReady(Generation(version)) =>
        user.source = version /\ user.models /\ user.enabled

\* With types.
SetUp == TypeOK /\ Configured

\* In the end the installed package is set up and recorded ready, whatever was
\* killed, failed, upgraded or run twice on the way.
ReadyInTheEnd ==
    <>[](version # 0 => status = [generation |-> Generation(version), state |-> "ready"])
=============================================================================
