------------------------------- MODULE MCFiles -------------------------------
(***************************************************************************)
(* Small instances of the three programs that leave files behind, in one   *)
(* run: in each behaviour one of them works, and the others stay as they   *)
(* are, since each has files and a lock of its own.                        *)
(***************************************************************************)
EXTENDS ModelDownload

CONSTANTS p1, p2, Unit, Manual,
          MaxUnpacks, MaxFailures, MaxLogouts,   \* bounds of AutoSetup
          MaxJobs, MaxCrashes, MaxChoices        \* bounds of UserInstall

MCPids == {p1, p2}
MCArchived == {2}

VARIABLES program,   \* the one that works
          \* AutoSetup
          dpkg, version, payload, unit, session, run, lock, status, user, torn, unpacks,
          failures, killed,
          \* UserInstall
          disk, manifest, toml, classic, backup, marker, job, uv, jobs, crashes, choices,
          completed, settled, replaced, chosen

setupVars == <<dpkg, version, payload, unit, session, run, lock, status, user, torn, unpacks,
               failures, killed>>
userVars == <<disk, manifest, toml, classic, backup, marker, job, uv, jobs, crashes, choices,
              completed, settled, replaced, chosen>>

Setup == INSTANCE AutoSetup WITH kills <- killed, MaxKills <- MaxLogouts
User == INSTANCE UserInstall

ASSUME FilesAssumption == Setup!SetupAssumption /\ User!InstallAssumption

FilesInit ==
    /\ program \in {"download", "setup", "install"}
    /\ Init /\ Setup!Init /\ User!Init
    /\ program # "download" => target = [f \in Files |-> "absent"]
    /\ program # "setup" => ~session
    /\ program # "install" => classic = "none" /\ ~uv

FilesNext ==
    /\ UNCHANGED program
    /\ \/ program = "download" /\ Next /\ UNCHANGED <<setupVars, userVars>>
       \/ program = "setup" /\ Setup!Next /\ UNCHANGED <<vars, userVars>>
       \/ program = "install" /\ User!Next /\ UNCHANGED <<vars, setupVars>>

\* The fairness of AutoSetup; none is asked of the other two.
FilesSpec ==
    /\ FilesInit
    /\ [][FilesNext]_<<program, vars, setupVars, userVars>>
    /\ (program = "setup") => Setup!Fairness

\* A package recorded ready is the one that is set up (AutoSetup.Configured).
SetUp == Setup!SetUp

\* The package that stays is set up in the end (AutoSetup.ReadyInTheEnd).
ReadyInTheEnd == Setup!ReadyInTheEnd

\* Installed files stay listed and the user's copy is not overwritten (UserInstall.NothingLost).
NothingLost == User!NothingLost

\* No later run changes what the user chose (UserInstall.ChoiceKept).
ChoiceKept == User!ChoiceKept
=============================================================================
