----------------------------- MODULE UserInstall -----------------------------
(***************************************************************************)
(* install-user.py with its uninstaller and theme.py: files written one    *)
(* after the other, the manifest last.  The program may be interrupted     *)
(* between any two file operations and inside those that are not atomic;   *)
(* the user runs it again, with other options, and edits classicui.conf.   *)
(***************************************************************************)
EXTENDS Naturals, Sequences

CONSTANTS MaxJobs,     \* bound: runs of the program
          MaxCrashes,  \* bound: interruptions
          MaxChoices   \* bound: edits of classicui.conf

InstallAssumption == MaxJobs \in Nat /\ MaxCrashes \in Nat /\ MaxChoices \in Nat

Paths == {"venv", "source", "plugin", "addon", "wrapper", "unit"}
Configs == {"none", "default", "default, edited", "custom", "liltkey"}

VARIABLES disk,      \* each path: absent, partly written or whole
          manifest,  \* [readable, listed]; NoManifest when there is none
          classic,   \* classicui.conf
          backup, marker,
          toml,      \* config.toml, which is copied once and never listed
          job,       \* the program under way: what is left to do, whether a file is half done
          uv,        \* whether uv is installed
          jobs, crashes, choices,
          completed, \* history: paths written by installations that ended, until removed
          settled,   \* history: an installation ended
          replaced,  \* history: the first configuration that theme.py replaced
          chosen     \* history: the user edited the configuration after that

personal == <<toml, classic, backup, marker, choices, replaced, chosen>>
vars == <<disk, manifest, personal, job, uv, jobs, crashes, completed, settled>>

NoManifest == [there |-> FALSE, readable |-> TRUE, listed |-> {}]
NoJob == [kind |-> "none", todo |-> <<>>, half |-> FALSE,
          previous |-> {}, written |-> {}]

\* main() from line 54 on, in its order.  The theme's pictures, which are replaced
\* atomically and never removed, are left out.
Plan(kind, runtime) ==
    (IF runtime THEN <<"venv", "packages">> ELSE <<>>)
    \o <<"source">>
    \o (IF kind = "full" THEN <<"plugin", "addon">> ELSE <<>>)
    \o <<"wrapper", "unit", "config", "backup", "classicui", "marker">>
    \o (IF kind = "full" THEN <<>> ELSE <<"obsolete">>)
    \o <<"manifest">>

TypeOK ==
    /\ disk \in [Paths -> {"absent", "partial", "whole"}]
    /\ manifest \in [there: BOOLEAN, readable: BOOLEAN, listed: SUBSET Paths]
    /\ ~manifest.there => manifest = NoManifest
    /\ toml \in {"absent", "partial", "whole"}
    /\ classic \in Configs /\ backup \in Configs /\ marker \in BOOLEAN
    /\ job.kind \in {"none", "full", "service-only", "uninstall"}
    /\ job.kind # "none" => job.todo # <<>>
    /\ job.half =>
          Head(job.todo) \in {"venv", "source", "addon", "wrapper", "unit", "config", "manifest"}
    /\ job.previous \subseteq Paths /\ job.written \subseteq Paths
    /\ completed \subseteq Paths

Init ==
    /\ disk = [p \in Paths |-> "absent"] /\ manifest = NoManifest
    /\ toml = "absent" /\ classic \in {"none", "default", "custom"}
    /\ backup = "none" /\ marker = FALSE
    /\ uv \in BOOLEAN
    /\ job = NoJob /\ jobs = 0 /\ crashes = 0 /\ choices = 0
    /\ completed = {} /\ settled = FALSE /\ replaced = "nothing" /\ chosen = FALSE

(***************************************************************************)
(* The program starts: it must be able to read the manifest.               *)
(***************************************************************************)
Starts(next) ==
    /\ job.kind = "none" /\ jobs < MaxJobs
    /\ jobs' = jobs + 1
    /\ IF manifest.readable THEN job' = next ELSE UNCHANGED job    \* json.loads() raises
    /\ UNCHANGED <<disk, manifest, personal, uv, crashes, completed, settled>>

Install(kind, runtime) ==
    Starts([NoJob EXCEPT !.kind = kind, !.todo = Plan(kind, runtime), !.previous = manifest.listed])

Uninstall ==
    /\ manifest.there
    /\ Starts([NoJob EXCEPT !.kind = "uninstall", !.todo = <<"remove", "unlink">>,
                            !.previous = manifest.listed])

Doing(op) == job.kind # "none" /\ Head(job.todo) = op

\* The next operation, or the end.
Continued ==
    IF Len(job.todo) = 1 THEN NoJob ELSE [job EXCEPT !.todo = Tail(@), !.half = FALSE]

(***************************************************************************)
(* Files.  A file is opened, which empties it, and then written.           *)
(***************************************************************************)
Open(p) ==
    /\ Doing(p) /\ p \in {"source", "addon", "wrapper", "unit"} /\ ~job.half
    /\ disk' = [disk EXCEPT ![p] = "partial"]
    /\ job' = [job EXCEPT !.half = TRUE]
    /\ UNCHANGED <<manifest, personal, uv, jobs, crashes, completed, settled>>

Write(p) ==
    /\ Doing(p) /\ (job.half \/ p = "plugin")     \* the plugin is renamed into place
    /\ p \in {"source", "plugin", "addon", "wrapper", "unit"}
    /\ disk' = [disk EXCEPT ![p] = "whole"]
    /\ job' = [Continued EXCEPT !.written = @ \union {p}]
    /\ UNCHANGED <<manifest, personal, uv, jobs, crashes, completed, settled>>

\* Nothing is created when bin/python is there.  `python -m venv' creates it
\* before it installs pip, which uv does not need: "partial" is without pip.
Venv ==
    /\ Doing("venv")
    /\ \/ ~job.half /\ disk["venv"] # "absent" /\ job' = Continued /\ UNCHANGED disk
       \/ /\ ~job.half /\ disk["venv"] = "absent"
          /\ disk' = [disk EXCEPT !["venv"] = "partial"]
          /\ job' = IF uv THEN Continued ELSE [job EXCEPT !.half = TRUE]
       \/ /\ job.half
          /\ disk' = [disk EXCEPT !["venv"] = "whole"]
          /\ job' = Continued
    /\ UNCHANGED <<manifest, personal, uv, jobs, crashes, completed, settled>>

\* A file that is there is kept, whatever it holds.
Toml ==
    /\ Doing("config")
    /\ \/ ~job.half /\ toml # "absent" /\ job' = Continued /\ UNCHANGED toml
       \/ ~job.half /\ toml = "absent" /\ toml' = "partial" /\ job' = [job EXCEPT !.half = TRUE]
       \/ job.half /\ toml' = "whole" /\ job' = Continued
    /\ UNCHANGED <<disk, manifest, classic, backup, marker, choices, replaced, chosen, uv, jobs,
                   crashes, completed, settled>>

NoPip == disk["venv"] # "whole" /\ ~uv

Packages ==
    /\ Doing("packages")
    /\ job' = IF NoPip THEN NoJob ELSE [Continued EXCEPT !.written = @ \union {"venv"}]
    /\ UNCHANGED <<disk, manifest, personal, uv, jobs, crashes, completed, settled>>

\* Migration to the packaged add-on.
Removable == {"addon", "plugin"} \intersect job.previous

Obsolete ==
    /\ Doing("obsolete")
    /\ disk' = [p \in Paths |-> IF p \in Removable THEN "absent" ELSE disk[p]]
    /\ job' = [Continued EXCEPT !.previous = @ \ Removable]
    /\ completed' = completed \ Removable
    /\ UNCHANGED <<manifest, personal, uv, jobs, crashes, settled>>

\* Slip: what an earlier installation listed is forgotten.
ListedAnew == job.written

Listed == job.previous \union job.written

OpenManifest ==
    /\ Doing("manifest") /\ ~job.half
    /\ manifest' = [there |-> TRUE, readable |-> FALSE, listed |-> {}]
    /\ job' = [job EXCEPT !.half = TRUE]
    /\ UNCHANGED <<disk, personal, uv, jobs, crashes, completed, settled>>

WriteManifest ==
    /\ Doing("manifest") /\ job.half
    /\ manifest' = [there |-> TRUE, readable |-> TRUE, listed |-> Listed]
    /\ completed' = completed \union job.written /\ settled' = TRUE
    /\ job' = Continued
    /\ UNCHANGED <<disk, personal, uv, jobs, crashes>>

\* One of the listed paths after the other.
Remove ==
    /\ Doing("remove")
    /\ \/ \E p \in job.previous :
             /\ disk[p] # "absent"
             /\ disk' = [disk EXCEPT ![p] = "absent"]
             /\ UNCHANGED job
       \/ /\ \A p \in job.previous : disk[p] = "absent"
          /\ job' = Continued /\ UNCHANGED disk
    /\ UNCHANGED <<manifest, personal, uv, jobs, crashes, completed, settled>>

Unlink ==
    /\ Doing("unlink")
    /\ manifest' = NoManifest
    /\ completed' = completed \ job.previous
    /\ job' = Continued
    /\ UNCHANGED <<disk, personal, uv, jobs, crashes, settled>>

(***************************************************************************)
(* install_theme(): each file is replaced atomically.                      *)
(***************************************************************************)
Enabled == ~marker /\ classic # "custom"

BackedUp == Enabled /\ classic # "none" /\ backup = "none"

Theme(op) ==
    /\ Doing(op)
    /\ job' = Continued
    /\ UNCHANGED <<disk, manifest, uv, jobs, crashes, completed, settled, toml, choices, chosen>>

Backup ==
    /\ Theme("backup")
    /\ backup' = IF BackedUp THEN classic ELSE backup
    /\ UNCHANGED <<classic, marker, replaced>>

Classicui ==
    /\ Theme("classicui")
    /\ classic' = IF Enabled THEN "liltkey" ELSE classic
    /\ replaced' = IF Enabled /\ replaced = "nothing" THEN classic ELSE replaced
    /\ UNCHANGED <<backup, marker>>

\* Slip: the decision is recorded only when the theme was applied.
MarkerIfApplied ==
    /\ Theme("marker")
    /\ marker' = (marker \/ classic # "custom")
    /\ UNCHANGED <<classic, backup, replaced>>

Marker ==
    /\ Theme("marker")
    /\ marker' = TRUE
    /\ UNCHANGED <<classic, backup, replaced>>

(***************************************************************************)
(* The user and the interruptions.                                         *)
(***************************************************************************)
Choose(config) ==
    /\ job.kind = "none" /\ choices < MaxChoices
    /\ choices' = choices + 1
    /\ classic' = config /\ chosen' = (classic = "liltkey" \/ chosen)
    /\ UNCHANGED <<disk, manifest, toml, backup, marker, replaced, job, uv, jobs, crashes,
                   completed, settled>>

Crash ==
    /\ job.kind # "none" /\ crashes < MaxCrashes
    /\ crashes' = crashes + 1
    /\ job' = NoJob
    /\ UNCHANGED <<disk, manifest, personal, uv, jobs, completed, settled>>

Next ==
    \/ \E kind \in {"full", "service-only"}, runtime \in BOOLEAN : Install(kind, runtime)
    \/ Uninstall
    \/ \E p \in Paths : Open(p) \/ Write(p)
    \/ Venv \/ Packages \/ Toml \/ Obsolete \/ OpenManifest \/ WriteManifest \/ Remove \/ Unlink
    \/ Backup \/ Classicui \/ Marker
    \/ \E config \in {"none", "default, edited", "custom"} : Choose(config)
    \/ Crash

Spec == Init /\ [][Next]_vars

(***************************************************************************)
(* Properties.                                                             *)
(***************************************************************************)
AtRest == job.kind = "none"

\* What a completed installation wrote stays listed as long as it is on the
\* disk, over re-installations with other options, migrations and interruptions:
\* a later uninstallation removes it.
StaysListed ==
    AtRest /\ manifest.readable =>
        {p \in completed : disk[p] # "absent"} \subseteq manifest.listed

\* If the first thing replaced was a configuration of the user, the backup holds
\* one of the user's, also when a run was interrupted after it and repeated: the copy is
\* never overwritten with what this program wrote.
BackupIsUsers ==
    replaced \in {"default", "default, edited"} => backup \in {"default", "default, edited"}

\* Both: nothing that was installed is forgotten, and the copy of the user's
\* configuration stays the user's.  Nothing is said of what the user chooses between
\* the copy and the replacement, or when the first thing replaced was liltkey's.
NothingLost == TypeOK /\ StaysListed /\ BackupIsUsers

\* After one completed installation no run changes the user's configuration,
\* whatever the user chose at first or later, nor after an uninstallation.
ChoiceKept ==
    [][settled /\ ~AtRest => classic' = classic]_vars

\* As the comment in theme.py says, later choices belong to the user.  The code does
\* not keep this and the next four (README, Disagreements).
LaterChoiceKept == [][chosen /\ ~AtRest => classic' = classic]_vars

\* As setup.py says, the same command can be run again after a failure: the
\* manifest can be read,
ManifestReadable == AtRest => manifest.readable

\* the settings that were copied are complete,
TomlWhole == AtRest => toml # "partial"

\* and the environment that an interrupted run left can be completed.
PipThere == ~(Doing("packages") /\ NoPip)

\* As test_install.py says, migrating to the packaged add-on removes the user's own.
OverrideRemoved ==
    [][job.kind = "service-only" /\ manifest' # manifest /\ AtRest' =>
          disk["addon"] = "absent" /\ disk["plugin"] = "absent"]_vars
=============================================================================
