---------------------------- MODULE ModelDownload ----------------------------
(***************************************************************************)
(* download-model.py: the pinned files of the chosen manifests, one after  *)
(* the other, by processes that run at the same time (the automatic setup  *)
(* and a command typed by the user) and that may be killed at any step.    *)
(***************************************************************************)
EXTENDS Naturals

CONSTANTS Pids,      \* processes; a process id may be used again
          N,         \* files of the selected manifests, in their order
          Archived,  \* those that are a member of a downloaded archive
          MaxKills   \* bound: processes killed

ASSUME DownloadAssumption == N \in Nat /\ Archived \subseteq 1 .. N /\ MaxKills \in Nat

Files == 1 .. N
Contents == {"absent", "partial", "bad", "good"}
Steps == {"idle", "check", "open", "receive", "source", "extract", "member", "verify",
          "publish", "finally", "raise", "done"}

VARIABLES target,  \* each published file; "good" has the pinned sum
          part,    \* the temporary files: by name, which holds the process id
          extract, \* the files extracted from an archive: likewise
          at,      \* each process: the step it is at
          file,    \* ... and the file it works on
          kills    \* processes killed

vars == <<target, part, extract, at, file, kills>>

TypeOK ==
    /\ target \in [Files -> Contents]
    /\ part \in [Pids \X Files -> Contents] /\ extract \in [Pids \X Files -> Contents]
    /\ at \in [Pids -> Steps] /\ file \in [Pids -> 1 .. N + 1]
    /\ kills \in Nat
    /\ \A p \in Pids : at[p] \in Steps \ {"idle", "check", "done"} => file[p] \in Files
    /\ \A p \in Pids : at[p] = "done" <=> file[p] = N + 1 /\ at[p] \notin {"idle", "check"}

\* A file that is there from before may be whole, damaged or of another revision.
Init ==
    /\ target \in [Files -> {"absent", "bad", "good"}]
    /\ part = [n \in Pids \X Files |-> "absent"] /\ extract = part
    /\ at = [p \in Pids |-> "idle"] /\ file = [p \in Pids |-> 1]
    /\ kills = 0

\* Slip: the name of a temporary file does not hold the process id.
NameShared(p) == <<CHOOSE q \in Pids : TRUE, file[p]>>

Name(p) == <<p, file[p]>>

Goes(p, from, to) == at[p] = from /\ at' = [at EXCEPT ![p] = to]

Begin(p) ==
    /\ at[p] \in {"idle", "done"}
    /\ at' = [at EXCEPT ![p] = "check"]
    /\ file' = [file EXCEPT ![p] = 1]
    /\ UNCHANGED <<target, part, extract, kills>>

Following(p) ==
    /\ file' = [file EXCEPT ![p] = @ + 1]
    /\ UNCHANGED <<target, kills>>

Verified(p) == target[file[p]] = "good"

\* Already verified.
Skip(p) ==
    /\ file[p] \in Files /\ Verified(p)
    /\ Goes(p, "check", "check")
    /\ Following(p) /\ UNCHANGED <<part, extract>>

Missing(p) ==
    /\ file[p] \in Files /\ ~Verified(p)
    /\ Goes(p, "check", "open")
    /\ UNCHANGED <<target, part, extract, file, kills>>

\* download() returns for every manifest.
Finish(p) ==
    /\ file[p] = N + 1
    /\ Goes(p, "check", "done")
    /\ UNCHANGED <<target, part, extract, file, kills>>

\* The connection is made and the temporary file is opened, which empties it.
Open(p) ==
    /\ Goes(p, "open", "receive")
    /\ part' = [part EXCEPT ![Name(p)] = "partial"]
    /\ UNCHANGED <<target, extract, file, kills>>

\* The answer ends: the pinned bytes or other ones.
Receive(p, bytes) ==
    /\ Goes(p, "receive", "source")
    /\ part' = [part EXCEPT ![Name(p)] = bytes]
    /\ UNCHANGED <<target, extract, file, kills>>

\* Any operation may raise; the two temporary files are removed.
Fail(p) ==
    /\ at[p] \in Steps \ {"idle", "check", "finally", "raise", "done"}
    /\ at' = [at EXCEPT ![p] = "raise"]
    /\ UNCHANGED <<target, part, extract, file, kills>>

\* The sum of the source.
Source(p) ==
    /\ at[p] = "source"
    /\ at' = [at EXCEPT ![p] = IF part[Name(p)] # "good" THEN "raise"
                               ELSE IF file[p] \in Archived THEN "extract" ELSE "verify"]
    /\ UNCHANGED <<target, part, extract, file, kills>>

Extract(p) ==
    /\ Goes(p, "extract", "member")
    /\ extract' = [extract EXCEPT ![Name(p)] = "partial"]
    /\ UNCHANGED <<target, part, file, kills>>

Member(p, bytes) ==
    /\ Goes(p, "member", "verify")
    /\ extract' = [extract EXCEPT ![Name(p)] = bytes]
    /\ UNCHANGED <<target, part, file, kills>>

Product(p) == IF file[p] \in Archived THEN extract[Name(p)] ELSE part[Name(p)]

\* The sum of what is to be published.
Verify(p) ==
    /\ at[p] = "verify"
    /\ at' = [at EXCEPT ![p] = IF Product(p) = "good" THEN "publish" ELSE "raise"]
    /\ UNCHANGED <<target, part, extract, file, kills>>

\* Renamed over the target.
Publish(p) ==
    /\ Goes(p, "publish", "finally")
    /\ target' = [target EXCEPT ![file[p]] = Product(p)]
    /\ IF file[p] \in Archived
       THEN extract' = [extract EXCEPT ![Name(p)] = "absent"] /\ UNCHANGED part
       ELSE part' = [part EXCEPT ![Name(p)] = "absent"] /\ UNCHANGED extract
    /\ UNCHANGED <<file, kills>>

Removed(p) ==
    /\ part' = [part EXCEPT ![Name(p)] = "absent"]
    /\ extract' = [extract EXCEPT ![Name(p)] = "absent"]

\* The temporary files are removed, then the next file is looked at
\* or the exception ends the process.
Finally(p) == Goes(p, "finally", "check") /\ Removed(p) /\ Following(p)

Raise(p) == Goes(p, "raise", "idle") /\ Removed(p) /\ UNCHANGED <<target, file, kills>>

\* The process is killed: nothing is removed.
Kill(p) ==
    /\ at[p] \notin {"idle", "done"} /\ kills < MaxKills
    /\ kills' = kills + 1
    /\ at' = [at EXCEPT ![p] = "idle"]
    /\ UNCHANGED <<target, part, extract, file>>

Next ==
    \E p \in Pids :
        \/ Begin(p) \/ Skip(p) \/ Missing(p) \/ Finish(p)
        \/ Open(p) \/ (\E bytes \in {"bad", "good"} : Receive(p, bytes) \/ Member(p, bytes))
        \/ Fail(p) \/ Source(p) \/ Extract(p) \/ Verify(p) \/ Publish(p)
        \/ Finally(p) \/ Raise(p) \/ Kill(p)

Spec == Init /\ [][Next]_vars

(***************************************************************************)
(* Properties.                                                             *)
(***************************************************************************)
\* What is published at line 63 is the pinned file, whatever other processes do to
\* their temporary files in between: a target changes only to a file with the
\* pinned sum, and a good one stays.
OnlyPinned == [][\A f \in Files : target'[f] # target[f] => target'[f] = "good"]_vars

\* When a process says that the models are ready they are, and they stay so while other
\* processes download, fail and are killed.
ReadyIsGood == \A p \in Pids : at[p] = "done" => \A f \in Files : target[f] = "good"

\* Only a process that was killed leaves temporary files.
Tidied ==
    kills = 0 => \A p \in Pids : at[p] \in {"idle", "check", "open", "done"} =>
        \A f \in Files : part[<<p, f>>] = "absent" /\ extract[<<p, f>>] = "absent"

\* Both, and types: the models a process reports ready can be trusted, and no
\* download that ended by itself leaves anything else.
Trusted == TypeOK /\ ReadyIsGood /\ Tidied
=============================================================================
