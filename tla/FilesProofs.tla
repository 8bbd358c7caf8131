---------------------------- MODULE FilesProofs -----------------------------
(***************************************************************************)
(* Proofs about the three programs that leave files behind, for the        *)
(* instances that MCFiles makes of them: the download of the models        *)
(* without the bound on kills and for every number of processes and files, *)
(* the automatic setup and the user installation for every value of their  *)
(* bounds.                                                                 *)
(***************************************************************************)
EXTENDS MCFiles, SequenceTheorems, TLAPS

Step(p) ==
    \/ Begin(p) \/ Skip(p) \/ Missing(p) \/ Finish(p)
    \/ Open(p) \/ (\E bytes \in {"bad", "good"} : Receive(p, bytes) \/ Member(p, bytes))
    \/ Fail(p) \/ Source(p) \/ Extract(p) \/ Verify(p) \/ Publish(p)
    \/ Finally(p) \/ Raise(p) \/ Kill(p)

\* What was verified is still there when it is published.
VerifiedKept == \A p \in Pids : at[p] = "publish" => Product(p) = "good"

\* The files a process has passed, and the one it has just published, are good.
PassedGood ==
    \A p \in Pids : at[p] # "idle" =>
        \A f \in Files : f < file[p] \/ (f = file[p] /\ at[p] = "finally") => target[f] = "good"

(***************************************************************************)
(* Types                                                                   *)
(***************************************************************************)

\* A process at work has a file, and its temporary files are its own.
LEMMA WorkingFile ==
    ASSUME TypeOK, NEW p \in Pids, at[p] \notin {"idle", "check", "done"}
    PROVE  file[p] \in Files /\ Name(p) \in Pids \X Files
BY DEF TypeOK, Name

\* The places of all processes and their files.
PlaceType == at \in [Pids -> Steps] /\ file \in [Pids -> 1 .. N + 1]

\* What is at the place of one process.
PlaceFits(p) ==
    /\ at[p] \in Steps \ {"idle", "check", "done"} => file[p] \in Files
    /\ at[p] = "done" <=> file[p] = N + 1 /\ at[p] \notin {"idle", "check"}

\* A step leaves every process at a place of the program,
LEMMA StepKeepsPlaces ==
    ASSUME TypeOK, NEW p \in Pids, Step(p)
    PROVE  PlaceType'
<1> USE DownloadAssumption DEF PlaceType, TypeOK
<1>1. CASE Begin(p)
  BY <1>1 DEF Begin, Steps
<1>2. CASE Skip(p) \/ Finally(p)
  <2>1. at' = [at EXCEPT ![p] = "check"] /\ file' = [file EXCEPT ![p] = file[p] + 1]
    BY <1>2 DEF Skip, Finally, Goes, Following
  <2>2. file[p] + 1 \in 1 .. N + 1
    BY <1>2, WorkingFile DEF Skip, Finally, Goes, Files
  <2> QED
    BY <2>1, <2>2 DEF Steps
<1>3. CASE UNCHANGED file /\ \E to \in Steps : at' = [at EXCEPT ![p] = to]
  BY <1>3
<1>4. CASE \/ Missing(p) \/ Finish(p) \/ Open(p) \/ Extract(p) \/ Publish(p) \/ Raise(p)
           \/ \E bytes \in {"bad", "good"} : Receive(p, bytes) \/ Member(p, bytes)
  BY <1>3, <1>4 DEF Missing, Finish, Open, Extract, Publish, Raise, Receive, Member, Goes, Steps
<1>5. CASE Fail(p) \/ Source(p) \/ Verify(p) \/ Kill(p)
  BY <1>3, <1>5 DEF Fail, Source, Verify, Kill, Steps
<1> QED
  BY <1>1, <1>2, <1>4, <1>5 DEF Step

\* with a file where it works on one,
LEMMA StepKeepsFits ==
    ASSUME TypeOK, NEW p \in Pids, Step(p)
    PROVE  PlaceFits(p)'
<1> USE DownloadAssumption DEF PlaceFits, TypeOK
<1>1. CASE Begin(p) \/ Skip(p) \/ Finally(p) \/ Raise(p) \/ Kill(p)
  <2>1. at'[p] \in {"idle", "check"}
    BY <1>1 DEF Begin, Skip, Finally, Raise, Kill, Goes
  <2> QED
    BY <2>1
<1>2. CASE Missing(p)
  <2>1. at'[p] = "open" /\ file'[p] \in Files
    BY <1>2 DEF Missing, Goes
  <2> QED
    BY <2>1 DEF Files
<1>3. CASE Finish(p)
  BY <1>3 DEF Finish, Goes
<1>4. CASE \/ Open(p) \/ Extract(p) \/ Publish(p) \/ Fail(p) \/ Source(p) \/ Verify(p)
           \/ \E bytes \in {"bad", "good"} : Receive(p, bytes) \/ Member(p, bytes)
  <2>1. at[p] \notin {"idle", "check", "done"} /\ UNCHANGED file
    BY <1>4 DEF Open, Extract, Publish, Fail, Source, Verify, Receive, Member, Goes, Steps
  <2>2. at'[p] \notin {"idle", "check", "done"}
    BY <1>4 DEF Open, Extract, Publish, Fail, Source, Verify, Receive, Member, Goes
  <2>3. file'[p] \in Files
    BY <2>1, WorkingFile
  <2> QED
    BY <2>2, <2>3 DEF Files
<1> QED
  BY <1>1, <1>2, <1>3, <1>4 DEF Step

\* and the files in one of their states.
LEMMA StepKeepsFiles ==
    ASSUME TypeOK, NEW p \in Pids, Step(p)
    PROVE  /\ target' \in [Files -> Contents]
           /\ part' \in [Pids \X Files -> Contents]
           /\ extract' \in [Pids \X Files -> Contents]
<1> USE DEF TypeOK, Contents
<1>1. CASE Publish(p)
  <2>1. Name(p) \in Pids \X Files
    BY <1>1, WorkingFile DEF Publish, Goes
  <2>2. Product(p) \in Contents
    BY <2>1 DEF Product
  <2> QED
    BY <1>1, <2>1, <2>2 DEF Publish
<1>2. CASE \/ Open(p) \/ Extract(p) \/ Finally(p) \/ Raise(p)
           \/ \E bytes \in {"bad", "good"} : Receive(p, bytes) \/ Member(p, bytes)
  BY <1>2 DEF Open, Extract, Finally, Raise, Receive, Member, Removed, Following
<1>3. CASE \/ Begin(p) \/ Skip(p) \/ Missing(p) \/ Finish(p) \/ Fail(p) \/ Source(p)
           \/ Verify(p) \/ Kill(p)
  BY <1>3 DEF Begin, Skip, Missing, Finish, Fail, Source, Verify, Kill, Following
<1> QED
  BY <1>1, <1>2, <1>3 DEF Step

(***************************************************************************)
(* What a process does to the others                                       *)
(***************************************************************************)

\* A step of p leaves the temporary files and the place of every other process.
LEMMA OthersUntouched ==
    ASSUME TypeOK, NEW p \in Pids, Step(p), NEW q \in Pids \ {p}
    PROVE  /\ at'[q] = at[q] /\ file'[q] = file[q]
           /\ at[q] = "publish" => Product(q)' = Product(q)
<1>1. at'[q] = at[q] /\ file'[q] = file[q]
  BY DEF TypeOK, Step, Begin, Skip, Missing, Finish, Open, Receive, Member, Fail, Source,
         Extract, Verify, Publish, Finally, Raise, Kill, Goes, Following
<1>2. ASSUME NEW f \in Files
      PROVE  part'[<<q, f>>] = part[<<q, f>>] /\ extract'[<<q, f>>] = extract[<<q, f>>]
  <2>1. Name(p) # <<q, f>>
    BY DEF Name
  <2> QED
    BY <1>2, <2>1 DEF TypeOK, Step, Begin, Skip, Missing, Finish, Open, Receive, Member, Fail,
         Source, Extract, Verify, Publish, Finally, Raise, Kill, Removed, Following
<1> QED
  BY <1>1, <1>2, WorkingFile DEF Product, Name

\* Together.
LEMMA StepKeepsType ==
    ASSUME TypeOK, NEW p \in Pids, Step(p)
    PROVE  TypeOK'
<1>1. kills' \in Nat
  BY DEF TypeOK, Step, Begin, Skip, Missing, Finish, Open, Receive, Member, Fail, Source,
         Extract, Verify, Publish, Finally, Raise, Kill, Following
<1>2. \A q \in Pids : PlaceFits(q)'
  BY StepKeepsFits, OthersUntouched DEF TypeOK, PlaceFits
<1> QED
  BY <1>1, <1>2, StepKeepsPlaces, StepKeepsFiles DEF TypeOK, PlaceType, PlaceFits

\* A target changes only when a verified file is published.
LEMMA TargetSteps ==
    ASSUME TypeOK, VerifiedKept, NEW p \in Pids, Step(p), NEW f \in Files
    PROVE  target'[f] = target[f] \/ (Publish(p) /\ f = file[p] /\ target'[f] = "good")
<1>1. CASE Publish(p)
  <2>1. Product(p) = "good"
    BY <1>1 DEF VerifiedKept, Publish, Goes
  <2> QED
    BY <1>1, <2>1 DEF TypeOK, Publish
<1>2. CASE ~Publish(p)
  BY <1>2 DEF Step, Begin, Skip, Missing, Finish, Open, Receive, Member, Fail, Source, Extract,
         Verify, Finally, Raise, Kill, Following
<1> QED
  BY <1>1, <1>2

\* A published file is replaced only with a good one.
LEMMA GoodStays ==
    ASSUME TypeOK, VerifiedKept, NEW p \in Pids, Step(p), NEW f \in Files, target[f] = "good"
    PROVE  target'[f] = "good"
BY TargetSteps

(***************************************************************************)
(* The invariant                                                           *)
(***************************************************************************)

\* Only its own process touches a temporary file.
LEMMA StepKeepsVerified ==
    ASSUME TypeOK, VerifiedKept, NEW p \in Pids, Step(p)
    PROVE  VerifiedKept'
<1> SUFFICES ASSUME NEW q \in Pids, at'[q] = "publish"
             PROVE  Product(q)' = "good"
  BY DEF VerifiedKept
<1>1. CASE q # p
  BY <1>1, OthersUntouched DEF VerifiedKept
<1>2. CASE q = p
  <2>1. Verify(p) /\ Product(p) = "good"
    BY <1>2 DEF TypeOK, Step, Begin, Skip, Missing, Finish, Open, Receive, Member, Fail, Source,
         Extract, Verify, Publish, Finally, Raise, Kill, Goes
  <2>2. Product(p)' = Product(p)
    BY <2>1 DEF Verify, Product, Name
  <2> QED
    BY <1>2, <2>1, <2>2
<1> QED
  BY <1>1, <1>2

\* Only Begin, which starts at the first file, brings a process out of idle;
\* only Skip and Finally bring it to the next file.
LEMMA OwnProgress ==
    ASSUME TypeOK, NEW p \in Pids, Step(p), at'[p] # "idle"
    PROVE  \/ file'[p] = 1 /\ at'[p] = "check"
           \/ /\ at[p] # "idle" /\ at'[p] # "finally" /\ file'[p] = file[p]
           \/ /\ at[p] # "idle" /\ at'[p] = "check" /\ file'[p] = file[p] + 1
              /\ target[file[p]] = "good" \/ at[p] = "finally"
           \/ at[p] # "idle" /\ file'[p] = file[p] /\ Publish(p)
<1> USE DEF TypeOK
<1>1. CASE Begin(p)
  BY <1>1 DEF Begin
<1>2. CASE Skip(p) \/ Finally(p)
  BY <1>2 DEF Skip, Finally, Goes, Following, Verified
<1>3. CASE Missing(p) \/ Finish(p) \/ Open(p) \/ Extract(p)
  BY <1>3 DEF Missing, Finish, Open, Extract, Goes
<1>4. ASSUME NEW bytes \in {"bad", "good"}, Receive(p, bytes) \/ Member(p, bytes)
      PROVE  at[p] # "idle" /\ at'[p] # "finally" /\ file'[p] = file[p]
  BY <1>4 DEF Receive, Member, Goes
<1>5. CASE Fail(p) \/ Source(p) \/ Verify(p)
  BY <1>5 DEF Fail, Source, Verify
<1>6. CASE Publish(p)
  BY <1>6 DEF Publish, Goes
<1>7. CASE Raise(p) \/ Kill(p)
  BY <1>7 DEF Raise, Kill, Goes
<1> QED
  BY <1>1, <1>2, <1>3, <1>4, <1>5, <1>6, <1>7 DEF Step

\* A file is passed when it is good.
LEMMA StepKeepsPassed ==
    ASSUME TypeOK, VerifiedKept, PassedGood, NEW p \in Pids, Step(p)
    PROVE  PassedGood'
<1> SUFFICES ASSUME NEW q \in Pids, at'[q] # "idle", NEW f \in Files,
                    f < file'[q] \/ (f = file'[q] /\ at'[q] = "finally")
             PROVE  target'[f] = "good"
  BY DEF PassedGood, Files
<1>1. CASE q # p
  <2>1. target[f] = "good"
    BY <1>1, OthersUntouched DEF PassedGood
  <2> QED
    BY <2>1, GoodStays
<1>2. CASE q = p
  <2> DEFINE k == file[p]
  <2>0. k \in Nat /\ f \in Nat /\ f >= 1
    BY DownloadAssumption DEF TypeOK, Files
  <2>1. CASE file'[p] = 1 /\ at'[p] = "check"
    BY <1>2, <2>0, <2>1
  <2>2. CASE at[p] # "idle" /\ at'[p] # "finally" /\ file'[p] = k
    BY <1>2, <2>2, GoodStays DEF PassedGood
  <2>3. CASE /\ at[p] # "idle" /\ at'[p] = "check" /\ file'[p] = k + 1
             /\ target[k] = "good" \/ at[p] = "finally"
    <3>1. f < k \/ f = k
      BY <1>2, <2>0, <2>3
    <3>2. target[f] = "good"
      BY <2>3, <3>1 DEF PassedGood
    <3> QED
      BY <3>2, GoodStays
  <2>4. CASE at[p] # "idle" /\ file'[p] = k /\ Publish(p)
    <3>1. CASE f = k
      <4>1. target'[f] = Product(p)
        BY <2>4, <3>1 DEF TypeOK, Publish
      <4>2. Product(p) = "good"
        BY <2>4 DEF VerifiedKept, Publish, Goes
      <4> QED
        BY <4>1, <4>2
    <3>2. CASE f # k
      BY <1>2, <2>4, <3>2, GoodStays DEF PassedGood
    <3> QED
      BY <3>1, <3>2
  <2> QED
    BY <1>2, <2>1, <2>2, <2>3, <2>4, OwnProgress
<1> QED
  BY <1>1, <1>2

Holding == {"receive", "source", "extract", "member", "verify", "publish", "finally", "raise"}

\* A temporary file that is there is the one its process works on.
OwnTemporaries ==
    kills = 0 => \A p \in Pids, f \in Files :
        part[<<p, f>>] # "absent" \/ extract[<<p, f>>] # "absent" => at[p] \in Holding /\ f = file[p]

\* What a process leaves behind is in the file it is at.
LEMMA StepKeepsTemporaries ==
    ASSUME TypeOK, OwnTemporaries, NEW p \in Pids, Step(p)
    PROVE  OwnTemporaries'
<1> SUFFICES ASSUME kills' = 0, NEW q \in Pids, NEW f \in Files,
                    part'[<<q, f>>] # "absent" \/ extract'[<<q, f>>] # "absent"
             PROVE  at'[q] \in Holding /\ f = file'[q]
  BY DEF OwnTemporaries
<1>1. kills = 0 /\ ~Kill(p)
  BY DEF TypeOK, Step, Begin, Skip, Missing, Finish, Open, Receive, Member, Fail, Source,
         Extract, Verify, Publish, Finally, Raise, Kill, Following
<1>2. CASE q # p
  <2>1. at'[q] = at[q] /\ file'[q] = file[q]
    BY <1>2, OthersUntouched
  <2>2. part'[<<q, f>>] = part[<<q, f>>] /\ extract'[<<q, f>>] = extract[<<q, f>>]
    <3>1. Name(p) # <<q, f>>
      BY <1>2 DEF Name
    <3> QED
      BY <3>1 DEF TypeOK, Step, Begin, Skip, Missing, Finish, Open, Receive, Member, Fail,
         Source, Extract, Verify, Publish, Finally, Raise, Kill, Removed, Following
  <2> QED
    BY <1>1, <2>1, <2>2 DEF OwnTemporaries
<1>3. CASE q = p
  <2>1. CASE Finally(p) \/ Raise(p)
    <3>1. f # file[p]
      BY <1>3, <2>1, WorkingFile DEF TypeOK, Finally, Raise, Removed, Goes, Name
    <3>2. part'[<<p, f>>] = part[<<p, f>>] /\ extract'[<<p, f>>] = extract[<<p, f>>]
      BY <2>1, <3>1, WorkingFile DEF TypeOK, Finally, Raise, Removed, Name
    <3> QED
      BY <1>1, <1>3, <3>1, <3>2 DEF OwnTemporaries
  <2>2. CASE Open(p) \/ Extract(p) \/ Publish(p)
             \/ \E bytes \in {"bad", "good"} : Receive(p, bytes) \/ Member(p, bytes)
    <3>1. at'[p] \in Holding /\ file'[p] = file[p]
      BY <2>2 DEF TypeOK, Open, Extract, Publish, Receive, Member, Goes, Holding
    <3>2. f # file[p] => part'[<<p, f>>] = part[<<p, f>>] /\ extract'[<<p, f>>] = extract[<<p, f>>]
      BY <2>2, WorkingFile DEF TypeOK, Open, Extract, Publish, Receive, Member, Goes, Name
    <3> QED
      BY <1>1, <1>3, <3>1, <3>2 DEF OwnTemporaries
  <2>3. CASE Begin(p) \/ Skip(p) \/ Missing(p) \/ Finish(p)
    <3>1. at[p] \notin Holding /\ UNCHANGED <<part, extract>>
      BY <2>3 DEF Begin, Skip, Missing, Finish, Goes, Holding
    <3> QED
      BY <1>1, <1>3, <3>1 DEF OwnTemporaries
  <2>4. CASE Fail(p) \/ Source(p) \/ Verify(p)
    <3>1. at'[p] \in Holding /\ UNCHANGED <<part, extract, file>>
      BY <2>4 DEF TypeOK, Fail, Source, Verify, Holding
    <3> QED
      BY <1>1, <1>3, <3>1 DEF OwnTemporaries
  <2> QED
    BY <1>1, <2>1, <2>2, <2>3, <2>4 DEF Step
<1> QED
  BY <1>2, <1>3

IInv == TypeOK /\ VerifiedKept /\ PassedGood /\ OwnTemporaries

\* At first no process has begun.
LEMMA InitIInv ==
    ASSUME Init
    PROVE  IInv
<1> USE DownloadAssumption DEF Init
<1>1. TypeOK
  BY DEF TypeOK, Files, Contents, Steps
<1>2. VerifiedKept /\ PassedGood
  BY DEF VerifiedKept, PassedGood
<1>3. OwnTemporaries
  BY DEF OwnTemporaries
<1> QED
  BY <1>1, <1>2, <1>3 DEF IInv

\* The invariant is inductive.
LEMMA NextIInv ==
    ASSUME IInv, [Next]_vars
    PROVE  IInv'
<1>1. CASE UNCHANGED vars
  BY <1>1 DEF IInv, TypeOK, VerifiedKept, PassedGood, OwnTemporaries, Product, Name, vars
<1>2. CASE Next
  <2>1. PICK p \in Pids : Step(p)
    BY <1>2 DEF Next, Step
  <2> QED
    BY <2>1, StepKeepsType, StepKeepsVerified, StepKeepsPassed, StepKeepsTemporaries DEF IInv
<1> QED
  BY <1>1, <1>2

(***************************************************************************)
(* The theorems                                                            *)
(***************************************************************************)

\* The typing of every state, with the invariant the other theorems use: what
\* a process verified is what it publishes, and what it has passed is good.
THEOREM Inductive == Spec => []IInv
BY InitIInv, NextIInv, PTL DEF Spec

\* Types (download-model.py:28-67).
THEOREM TypeCorrect == Spec => []TypeOK
<1>1. IInv => TypeOK
  BY DEF IInv
<1> QED
  BY <1>1, Inductive, PTL

\* A process that has said the models are ready (download-model.py:101) is right,
\* and stays right whatever any number of other processes do.
THEOREM ReadyTheorem == Spec => []ReadyIsGood
<1>1. IInv => ReadyIsGood
  <2> SUFFICES ASSUME IInv, NEW p \in Pids, at[p] = "done", NEW f \in Files
               PROVE  target[f] = "good"
    BY DEF ReadyIsGood
  <2>1. file[p] = N + 1
    BY DEF IInv, TypeOK
  <2>2. f < file[p]
    BY <2>1, DownloadAssumption DEF Files
  <2> QED
    BY <2>2 DEF IInv, PassedGood
<1> QED
  BY <1>1, Inductive, PTL

\* Only a process that was killed leaves temporary files (download-model.py:64-66).
THEOREM TidiedTheorem == Spec => []Tidied
<1>1. IInv => Tidied
  BY DEF IInv, OwnTemporaries, Tidied, Holding
<1> QED
  BY <1>1, Inductive, PTL

\* What a process reports ready can be trusted and nothing else is left behind
\* (download-model.py:28-67 and 101).
THEOREM TrustedTheorem == Spec => []Trusted
<1>1. TypeOK /\ ReadyIsGood /\ Tidied => Trusted
  BY DEF Trusted
<1> QED
  BY <1>1, TypeCorrect, ReadyTheorem, TidiedTheorem, PTL

\* A target changes only to the pinned file (download-model.py:61-63).
THEOREM PinnedTheorem == Spec => OnlyPinned
<1>1. ASSUME IInv, [Next]_vars
      PROVE  [\A f \in Files : target'[f] # target[f] => target'[f] = "good"]_vars
  <2>1. CASE UNCHANGED vars
    BY <2>1
  <2>2. CASE Next
    <3>1. PICK p \in Pids : Step(p)
      BY <2>2 DEF Next, Step
    <3> QED
      BY <1>1, <3>1, TargetSteps DEF IInv
  <2> QED
    BY <1>1, <2>1, <2>2
<1> QED
  BY <1>1, Inductive, PTL DEF Spec, OnlyPinned

(***************************************************************************)
(* AutoSetup                                                               *)
(***************************************************************************)
\* Nothing is older than the packages that were unpacked, and an upgrade that
\* began may unpack one more.
Dated ==
    /\ version \in {0, unpacks}
    /\ torn <= unpacks /\ payload <= unpacks /\ status.generation <= unpacks
    /\ user.source <= unpacks
    /\ dpkg = "upgrading" => unpacks < MaxUnpacks

\* What the run that holds the lock has done so far; a removal may undo it.
Underway(r) ==
    /\ run[r].generation \in 1 .. unpacks
    /\ status = [generation |-> run[r].generation, state |-> "installing"]
    /\ dpkg # "removing" /\ run[r].generation = version /\ torn # version =>
          /\ run[r].pc # "install-user" => user.source = version
          /\ run[r].pc \in {"doctor", "restart", "wait-ready", "desktop"} => user.models
          /\ run[r].pc \in {"wait-ready", "desktop"} => user.enabled

ReadyIsDone ==
    dpkg # "removing" /\ version # 0 /\ torn # version /\ Setup!AlreadyReady(version) =>
        user.source = version /\ user.models /\ user.enabled

\* The inductive invariant.
SetupInvariant ==
    /\ Setup!TypeOK /\ Dated
    /\ \A r \in Setup!Runs : run[r].pc \in Setup!Steps => Underway(r)
    /\ ReadyIsDone

----------------------------------------------------------------------------
\* The runs and their lock; the rest of the types.
RunTypes ==
    /\ unit \in {"inactive", "active", "retry"}
    /\ run \in [Setup!Runs -> [pc: {"idle", "started", "opened", "locked"} \union Setup!Steps,
                         generation: 0 .. MaxUnpacks]]
    /\ lock \in Setup!Runs \union {Setup!Nobody}
    /\ unit = "active" <=> run[Unit].pc # "idle"
    /\ \A r \in Setup!Runs : lock = r <=> run[r].pc \in {"locked"} \union Setup!Steps

StateTypes ==
    /\ dpkg \in {"idle", "upgrading", "removing", "unpacking", "unpacked"}
    /\ version \in 0 .. MaxUnpacks /\ payload \in 0 .. MaxUnpacks
    /\ session \in BOOLEAN
    /\ status \in [generation: 0 .. MaxUnpacks,
                   state: {"none", "installing", "failed", "ready"}]
    /\ user \in [source: 0 .. MaxUnpacks, models: BOOLEAN, enabled: BOOLEAN]
    /\ torn \in 0 .. MaxUnpacks
    /\ unpacks \in 0 .. MaxUnpacks /\ failures \in 0 .. MaxFailures /\ killed \in 0 .. MaxLogouts

\* The two parts together.
LEMMA SetupTypes ==
    /\ Setup!TypeOK <=> RunTypes /\ StateTypes
    /\ Setup!TypeOK' <=> (RunTypes /\ StateTypes)'
BY DEF Setup!TypeOK, RunTypes, StateTypes

SetupPlaces == {"idle", "started", "opened", "locked"} \union Setup!Steps

\* One run goes from one place to another.
LEMMA RunMoves ==
    ASSUME RunTypes, NEW r \in Setup!Runs,
           NEW pc \in SetupPlaces, NEW generation \in 0 .. MaxUnpacks,
           run' = [run EXCEPT ![r] = [pc |-> pc, generation |-> generation]],
           lock' \in Setup!Runs \union {Setup!Nobody}, unit' \in {"inactive", "active", "retry"},
           \A q \in Setup!Runs \ {r} : lock' = q <=> lock = q,
           lock' = r <=> pc \in {"locked"} \union Setup!Steps,
           IF r = Unit THEN unit' = "active" <=> pc # "idle" ELSE unit' = unit
    PROVE  RunTypes'
<1> DEFINE e == [pc |-> pc, generation |-> generation]
<1>1. e \in [pc: SetupPlaces, generation: 0 .. MaxUnpacks] /\ e.pc = pc
  OBVIOUS
<1> HIDE DEF e
<1>2. run' = [run EXCEPT ![r] = e]
  BY DEF e
<1>3. run \in [Setup!Runs -> [pc: SetupPlaces, generation: 0 .. MaxUnpacks]]
  BY DEF RunTypes, SetupPlaces
<1>4. /\ run' \in [Setup!Runs -> [pc: SetupPlaces, generation: 0 .. MaxUnpacks]]
      /\ run'[r].pc = pc /\ \A q \in Setup!Runs \ {r} : run'[q] = run[q]
  BY <1>1, <1>2, <1>3
<1>5. unit' = "active" <=> run'[Unit].pc # "idle"
  BY <1>4 DEF RunTypes, Setup!Runs
<1>6. \A q \in Setup!Runs : lock' = q <=> run'[q].pc \in {"locked"} \union Setup!Steps
  BY <1>4 DEF RunTypes
<1> QED
  BY <1>4, <1>5, <1>6 DEF RunTypes, SetupPlaces

\* A run ends and leaves the lock.
LEMMA ExitsTypes ==
    ASSUME RunTypes, NEW r \in Setup!Runs, NEW code, Setup!Exits(r, code)
    PROVE  RunTypes'
<1>1. run' = [run EXCEPT ![r] = [pc |-> "idle", generation |-> 0]]
  BY DEF Setup!Exits, Setup!Idle
<1>2. /\ lock' \in Setup!Runs \union {Setup!Nobody} /\ unit' \in {"inactive", "active", "retry"}
      /\ \A q \in Setup!Runs \ {r} : lock' = q <=> lock = q
      /\ lock' # r
      /\ IF r = Unit THEN unit' # "active" ELSE unit' = unit
  BY FilesAssumption DEF Setup!Exits, RunTypes, Setup!SetupAssumption
<1>3. "idle" \in SetupPlaces /\ 0 \in 0 .. MaxUnpacks /\ "idle" \notin {"locked"} \union Setup!Steps
  BY FilesAssumption DEF SetupPlaces, Setup!Steps, Setup!SetupAssumption
<1> QED
  BY <1>1, <1>2, <1>3, RunMoves

\* systemd stops the unit.
LEMMA StoppedTypes ==
    ASSUME RunTypes, Setup!Stopped
    PROVE  RunTypes'
<1>1. Unit \in Setup!Runs /\ Setup!Exits(Unit, 0)
  BY DEF Setup!Stopped, Setup!Exits, Setup!Runs
<1> QED
  BY <1>1, ExitsTypes

\* A run goes on within its process.
LEMMA GoesTypes ==
    ASSUME RunTypes, NEW r \in Setup!Runs, NEW pc \in SetupPlaces, Setup!Goes(r, pc),
           lock' \in Setup!Runs \union {Setup!Nobody},
           \A q \in Setup!Runs \ {r} : lock' = q <=> lock = q,
           lock' = r <=> pc \in {"locked"} \union Setup!Steps,
           IF r = Unit THEN unit' = "active" /\ pc # "idle" ELSE unit' = unit
    PROVE  RunTypes'
<1>1. run' = [run EXCEPT ![r] = [pc |-> pc, generation |-> run[r].generation]]
  <2>1. run[r] \in [pc: SetupPlaces, generation: 0 .. MaxUnpacks]
    BY DEF RunTypes, SetupPlaces
  <2>2. [run[r] EXCEPT !.pc = pc] = [pc |-> pc, generation |-> run[r].generation]
    BY <2>1
  <2>3. run' = [run EXCEPT ![r] = [run[r] EXCEPT !.pc = pc]]
    BY DEF Setup!Goes, RunTypes
  <2> QED
    BY <2>2, <2>3
<1>2. run[r].generation \in 0 .. MaxUnpacks /\ unit' \in {"inactive", "active", "retry"}
  BY DEF RunTypes
<1> QED
  BY <1>1, <1>2, RunMoves

\* systemd starts the unit unless it runs.
LEMMA RequestedTypes ==
    ASSUME RunTypes, Setup!Requested, UNCHANGED lock
    PROVE  RunTypes'
<1>1. CASE UNCHANGED <<unit, run>>
  BY <1>1 DEF RunTypes
<1>2. CASE unit # "active" /\ unit' = "active" /\ Setup!Goes(Unit, "started")
  <2>1. Unit \in Setup!Runs /\ run[Unit].pc = "idle" /\ lock # Unit
    BY <1>2 DEF RunTypes, Setup!Runs, Setup!Steps
  <2>2. "started" \in SetupPlaces /\ "started" \notin {"locked"} \union Setup!Steps
    BY DEF SetupPlaces, Setup!Steps
  <2> QED
    BY <1>2, <2>1, <2>2, GoesTypes DEF RunTypes
<1> QED
  BY <1>1, <1>2 DEF Setup!Requested, Setup!Goes

\* Before the first package nothing is recorded.
LEMMA SetupInit == Setup!Init => SetupInvariant
<1> SUFFICES ASSUME Setup!Init PROVE SetupInvariant
  OBVIOUS
<1>1. \A r \in Setup!Runs : run[r] = [pc |-> "idle", generation |-> 0]
  BY DEF Setup!Init, Setup!Idle
<1>2. RunTypes
  <2>1. run \in [Setup!Runs -> [pc: {"idle", "started", "opened", "locked"} \union Setup!Steps,
                         generation: 0 .. MaxUnpacks]]
    BY FilesAssumption DEF Setup!Init, Setup!Idle, Setup!SetupAssumption
  <2> QED
    BY <1>1, <2>1, FilesAssumption DEF Setup!Init, RunTypes, Setup!Runs, Setup!Steps,
       Setup!SetupAssumption
<1>3. StateTypes /\ Dated /\ ReadyIsDone
  BY FilesAssumption DEF Setup!Init, StateTypes, Dated, ReadyIsDone, Setup!SetupAssumption
<1>4. \A r \in Setup!Runs : run[r].pc \notin Setup!Steps
  BY <1>1 DEF Setup!Steps
<1> QED
  BY <1>2, <1>3, <1>4, SetupTypes DEF SetupInvariant

\* Every clause speaks of the installed files and the setup that holds the lock, so
\* it stays when only runs move outside the setup.
LEMMA OutsideSetup ==
    ASSUME SetupInvariant, RunTypes', StateTypes', UNCHANGED <<Setup!package, Setup!desktop>>,
           \A r \in Setup!Runs : run'[r] = run[r] \/ run'[r].pc \notin Setup!Steps
    PROVE  SetupInvariant'
<1>1. Dated' /\ ReadyIsDone'
  BY DEF SetupInvariant, Dated, ReadyIsDone, Setup!AlreadyReady, Setup!package,
     Setup!desktop
<1>2. ASSUME NEW r \in Setup!Runs, run'[r].pc \in Setup!Steps
      PROVE  Underway(r)'
  <2>1. Underway(r) /\ run'[r] = run[r]
    BY <1>2 DEF SetupInvariant
  <2> QED
    BY <2>1 DEF Underway, Setup!package, Setup!desktop
<1> QED
  BY <1>1, <1>2, SetupTypes DEF SetupInvariant

\* The runs that systemd or a program ends or starts are outside the setup after it.
LEMMA ExitsOutside ==
    ASSUME RunTypes, NEW r \in Setup!Runs, NEW code, Setup!Exits(r, code)
    PROVE  \A q \in Setup!Runs : run'[q] = run[q] \/ run'[q].pc \notin Setup!Steps
BY DEF RunTypes, Setup!Exits, Setup!Idle, Setup!Steps

\* So for the unit that systemd stops,
LEMMA StoppedOutside ==
    ASSUME RunTypes, Setup!Stopped
    PROVE  \A q \in Setup!Runs : run'[q] = run[q] \/ run'[q].pc \notin Setup!Steps
BY DEF RunTypes, Setup!Stopped, Setup!Idle, Setup!Steps

\* a run that goes to a place outside the setup,
LEMMA GoesOutside ==
    ASSUME RunTypes, NEW r \in Setup!Runs, NEW pc, pc \notin Setup!Steps, Setup!Goes(r, pc)
    PROVE  \A q \in Setup!Runs : run'[q] = run[q] \/ run'[q].pc \notin Setup!Steps
BY DEF RunTypes, Setup!Goes

\* and the unit that systemd starts.
LEMMA RequestedOutside ==
    ASSUME RunTypes, Setup!Requested
    PROVE  \A q \in Setup!Runs : run'[q] = run[q] \/ run'[q].pc \notin Setup!Steps
BY DEF RunTypes, Setup!Requested, Setup!Steps

\* A run that begins, waits for the lock or ends before the setup.
LEMMA BeginKeeps ==
    ASSUME SetupInvariant, NEW r \in Setup!Runs, Setup!Begin(r)
    PROVE  SetupInvariant'
<1>1. RunTypes /\ StateTypes
  BY SetupTypes DEF SetupInvariant
<1>2. StateTypes' /\ UNCHANGED <<Setup!package, Setup!desktop>>
  BY <1>1 DEF Setup!Begin, StateTypes, Setup!package, Setup!desktop
<1>3. CASE Setup!Exits(r, 0) \/ Setup!Exits(r, 78)
  BY <1>1, <1>2, <1>3, ExitsTypes, ExitsOutside, OutsideSetup
<1>4. CASE Setup!Goes(r, "opened") /\ UNCHANGED <<unit, lock>>
  <2>1. lock # r /\ "opened" \in SetupPlaces /\ "opened" \notin {"locked"} \union Setup!Steps
        /\ (r = Unit => unit = "active")
    BY <1>1 DEF Setup!Begin, RunTypes, Setup!Steps, SetupPlaces
  <2> QED
    BY <1>1, <1>2, <1>4, <2>1, GoesTypes, GoesOutside, OutsideSetup DEF RunTypes
<1> QED
  BY <1>3, <1>4 DEF Setup!Begin

\* The lock admits one run.
LEMMA LockKeeps ==
    ASSUME SetupInvariant, NEW r \in Setup!Runs, Setup!Lock(r)
    PROVE  SetupInvariant'
<1>1. RunTypes /\ StateTypes
  BY SetupTypes DEF SetupInvariant
<1>2. StateTypes' /\ UNCHANGED <<Setup!package, Setup!desktop>>
  BY <1>1 DEF Setup!Lock, StateTypes, Setup!package, Setup!desktop
<1>3. CASE Setup!Exits(r, 0)
  BY <1>1, <1>2, <1>3, ExitsTypes, ExitsOutside, OutsideSetup
<1>4. CASE lock = Setup!Nobody /\ lock' = r /\ Setup!Goes(r, "locked") /\ UNCHANGED unit
  <2>1. "locked" \in SetupPlaces /\ "locked" \notin Setup!Steps /\ (r = Unit => unit = "active")
        /\ r # Setup!Nobody
    BY <1>1, FilesAssumption DEF Setup!Lock, RunTypes, Setup!Steps, SetupPlaces,
       Setup!SetupAssumption
  <2>2. lock' \in Setup!Runs \union {Setup!Nobody} /\ \A q \in Setup!Runs \ {r} : lock' = q <=> lock = q
    BY <1>4, FilesAssumption DEF Setup!SetupAssumption
  <2>3. RunTypes'
    BY <1>1, <1>4, <2>1, <2>2, GoesTypes
  <2> QED
    BY <1>1, <1>2, <1>4, <2>1, <2>3, GoesOutside, OutsideSetup
<1> QED
  BY <1>3, <1>4 DEF Setup!Lock

\* The setup begins with the version it saw; no other run is at it.
LEMMA LookKeeps ==
    ASSUME SetupInvariant, NEW r \in Setup!Runs, Setup!Look(r)
    PROVE  SetupInvariant'
<1>1. RunTypes /\ StateTypes /\ Dated
  BY SetupTypes DEF SetupInvariant
<1>2. CASE (Setup!Exits(r, 0) \/ Setup!Exits(r, 1)) /\ UNCHANGED status
  <2>1. StateTypes' /\ UNCHANGED <<Setup!package, Setup!desktop>>
    BY <1>1, <1>2 DEF Setup!Look, StateTypes, Setup!package, Setup!desktop
  <2> QED
    BY <1>1, <1>2, <2>1, ExitsTypes, ExitsOutside, OutsideSetup
<1>3. CASE /\ version # 0
           /\ run' = [run EXCEPT ![r] = [pc |-> "install-user", generation |-> version]]
           /\ status' = [generation |-> version, state |-> "installing"]
           /\ UNCHANGED <<unit, lock>>
  <2>1. /\ "install-user" \in SetupPlaces /\ "install-user" \in Setup!Steps /\ lock = r
        /\ version \in 0 .. MaxUnpacks /\ (r = Unit => unit = "active")
    BY <1>1 DEF Setup!Look, RunTypes, StateTypes, SetupPlaces, Setup!Steps
  <2>2. RunTypes'
    BY <1>1, <1>3, <2>1, RunMoves DEF RunTypes
  <2>3. StateTypes'
    <3>1. status' \in [generation: 0 .. MaxUnpacks, state: {"none", "installing", "failed", "ready"}]
      BY <1>3, <2>1
    <3> QED
      BY <1>1, <3>1 DEF Setup!Look, StateTypes, Setup!package
  <2>4. Dated' /\ ReadyIsDone'
    BY <1>1, <1>3 DEF Setup!Look, StateTypes, Dated, ReadyIsDone, Setup!AlreadyReady,
       Setup!package
  <2>5. ASSUME NEW q \in Setup!Runs, run'[q].pc \in Setup!Steps
        PROVE  Underway(q)'
    <3>1. q = r
      BY <2>2, <2>5, <2>1, <1>3 DEF RunTypes
    <3>2. run'[q] = [pc |-> "install-user", generation |-> version]
      BY <3>1, <1>1, <1>3 DEF RunTypes
    <3>3. version' = version /\ unpacks' = unpacks /\ version \in 1 .. unpacks
      BY <1>1, <1>3 DEF Setup!Look, Setup!package, Dated, StateTypes
    <3> QED
      BY <1>3, <3>2, <3>3 DEF Underway
  <2> QED
    BY <2>2, <2>3, <2>4, <2>5, SetupTypes DEF SetupInvariant
<1> QED
  BY <1>2, <1>3 DEF Setup!Look, Setup!Generation

\* A command of the setup; the files are those of the installed package unless
\* dpkg is replacing them.
LEMMA CommandKeeps ==
    ASSUME SetupInvariant, NEW r \in Setup!Runs, Setup!Step(r)
    PROVE  SetupInvariant'
<1>1. RunTypes /\ StateTypes /\ Dated
  BY SetupTypes DEF SetupInvariant
<1>2. run[r].pc \in Setup!Steps /\ Underway(r) /\ lock = r
  BY <1>1 DEF Setup!Step, Setup!Steps, SetupInvariant, RunTypes
<1>3. PICK pc \in SetupPlaces : pc \in Setup!Steps \ {"install-user"} /\ Setup!Goes(r, pc)
  BY DEF Setup!Step, SetupPlaces, Setup!Steps
<1>4. RunTypes'
  <2>1. UNCHANGED <<unit, lock>> /\ pc # "idle" /\ (r = Unit => unit = "active")
    BY <1>1, <1>2, <1>3 DEF Setup!Step, RunTypes, Setup!Steps
  <2> QED
    BY <1>1, <1>2, <1>3, <2>1, GoesTypes DEF RunTypes
<1>5. /\ user' \in [source: 0 .. MaxUnpacks, models: BOOLEAN, enabled: BOOLEAN]
      /\ user'.source = (IF run[r].pc = "install-user" THEN payload ELSE user.source)
      /\ user.models /\ run[r].pc # "install-user" => user'.models
      /\ user.enabled /\ run[r].pc # "install-user" => user'.enabled
      /\ run[r].pc \in {"download-model", "doctor"} => user'.models
      /\ run[r].pc = "restart" => user'.enabled
  BY <1>1 DEF Setup!Step, StateTypes
<1>6. StateTypes' /\ Dated'
  BY <1>1, <1>5 DEF Setup!Step, StateTypes, Dated, Setup!package
<1>7. ReadyIsDone'
  <2>1. status'.state = "installing"
    BY <1>2 DEF Setup!Step, Underway
  <2> QED
    BY <2>1 DEF ReadyIsDone, Setup!AlreadyReady
<1>8. ASSUME NEW q \in Setup!Runs, run'[q].pc \in Setup!Steps
      PROVE  Underway(q)'
  <2>1. q = r
    BY <1>1, <1>2, <1>4, <1>8 DEF RunTypes, Setup!Step
  <2>2. run'[r].generation = run[r].generation /\ run'[r].pc = pc
    BY <1>1, <1>3 DEF Setup!Goes, RunTypes
  <2>3. UNCHANGED <<dpkg, version, unpacks, status>>
    BY DEF Setup!Step, Setup!package
  <2>4. run[r].pc = "install-user" => pc = "download-model"
    <3>1. ASSUME run[r].pc = "install-user" PROVE Setup!Goes(r, "download-model")
      BY <3>1 DEF Setup!Step
    <3> QED
      BY <3>1, <1>1, <1>3 DEF Setup!Goes, RunTypes
  <2>5. run[r].pc = "download-model" => pc = "doctor"
    <3>1. ASSUME run[r].pc = "download-model" PROVE Setup!Goes(r, "doctor")
      BY <3>1 DEF Setup!Step
    <3> QED
      BY <3>1, <1>1, <1>3 DEF Setup!Goes, RunTypes
  <2>6. run[r].pc = "doctor" => pc = "restart" /\ user.models
    <3>1. ASSUME run[r].pc = "doctor" PROVE Setup!Goes(r, "restart") /\ user.models
      BY <3>1 DEF Setup!Step
    <3> QED
      BY <3>1, <1>1, <1>3 DEF Setup!Goes, RunTypes
  <2>7. torn' # version => torn # version
    BY DEF Setup!Step
  <2>8. torn' # version /\ run[r].pc = "install-user" => payload = version
    BY DEF Setup!Step
  <2> QED
    BY <1>2, <1>3, <1>5, <2>1, <2>2, <2>3, <2>4, <2>5, <2>6, <2>7, <2>8 DEF Underway,
       Setup!Steps
<1> QED
  BY <1>4, <1>6, <1>7, <1>8, SetupTypes DEF SetupInvariant

\* The setup is over, and only its result is recorded.
LEMMA RecordedKeeps ==
    ASSUME SetupInvariant, NEW r \in Setup!Runs, run[r].pc \in Setup!Steps,
           NEW state \in {"failed", "ready"}, state = "ready" => run[r].pc = "desktop",
           Setup!Recorded(r, state), Setup!Exits(r, IF state = "failed" THEN 1 ELSE 0),
           failures' \in 0 .. MaxFailures, UNCHANGED <<Setup!package, session, user, torn, killed>>
    PROVE  SetupInvariant'
<1>1. RunTypes /\ StateTypes /\ Dated /\ Underway(r)
  BY SetupTypes DEF SetupInvariant
<1>2. RunTypes'
  BY <1>1, ExitsTypes
<1>3. StateTypes' /\ Dated'
  BY <1>1 DEF Setup!Recorded, StateTypes, RunTypes, Dated, Setup!package, Underway
<1>4. ReadyIsDone'
  BY <1>1, <1>3 DEF ReadyIsDone, Setup!AlreadyReady, Setup!Recorded, Underway, Setup!package
<1>5. \A q \in Setup!Runs : run'[q].pc \notin Setup!Steps
  BY <1>1, <1>2 DEF RunTypes, Setup!Exits, Setup!Steps, Setup!Idle
<1> QED
  BY <1>2, <1>3, <1>4, <1>5, SetupTypes DEF SetupInvariant

\* A setup ends with one of the two results.
LEMMA EndKeeps ==
    ASSUME SetupInvariant, NEW r \in Setup!Runs, Setup!SetupFails(r) \/ Setup!SetupSucceeds(r)
    PROVE  SetupInvariant'
<1>1. RunTypes /\ StateTypes
  BY SetupTypes DEF SetupInvariant
<1>2. CASE Setup!SetupFails(r)
  <2>1. failures' \in 0 .. MaxFailures
    BY <1>1, <1>2, FilesAssumption DEF Setup!SetupFails, StateTypes, Setup!SetupAssumption
  <2> QED
    BY <1>2, <2>1, RecordedKeeps DEF Setup!SetupFails
<1>3. CASE Setup!SetupSucceeds(r)
  <2>1. failures' \in 0 .. MaxFailures /\ run[r].pc \in Setup!Steps
    BY <1>1, <1>3 DEF Setup!SetupSucceeds, StateTypes, Setup!Steps
  <2> QED
    BY <1>3, <2>1, RecordedKeeps DEF Setup!SetupSucceeds
<1> QED
  BY <1>2, <1>3

\* The session and systemd.
LEMMA SessionKeeps ==
    ASSUME SetupInvariant,
           Setup!Retry \/ Setup!ByHand \/ Setup!Login \/ Setup!Logout \/ \E r \in Setup!Runs : Setup!Crash(r)
    PROVE  SetupInvariant'
<1>1. RunTypes /\ StateTypes
  BY SetupTypes DEF SetupInvariant
<1>2. UNCHANGED <<Setup!package, Setup!desktop>>
  BY DEF Setup!Retry, Setup!ByHand, Setup!Login, Setup!Logout, Setup!Crash
<1>3. StateTypes'
  <2>1. killed' \in 0 .. MaxLogouts
    BY <1>1, FilesAssumption DEF Setup!Retry, Setup!ByHand, Setup!Login, Setup!Logout,
       Setup!Crash, StateTypes, Setup!SetupAssumption
  <2>2. session' \in BOOLEAN /\ UNCHANGED failures
    BY <1>1 DEF Setup!Retry, Setup!ByHand, Setup!Login, Setup!Logout, Setup!Crash,
       StateTypes
  <2> QED
    BY <1>1, <1>2, <2>1, <2>2 DEF StateTypes, Setup!package, Setup!desktop
<1>4. CASE Setup!Requested /\ UNCHANGED lock
  BY <1>1, <1>2, <1>3, <1>4, RequestedTypes, RequestedOutside, OutsideSetup
<1>5. CASE unit = "retry" /\ unit' = "inactive" /\ UNCHANGED <<run, lock>>
  <2>1. RunTypes'
    BY <1>1, <1>5 DEF RunTypes
  <2> QED
    BY <1>2, <1>3, <1>5, <2>1, OutsideSetup
<1>6. CASE Setup!ByHand
  <2>1. Manual \in Setup!Runs /\ Manual # Unit /\ Setup!Goes(Manual, "started") /\ lock # Manual
    BY <1>1, <1>6, FilesAssumption DEF Setup!ByHand, Setup!Goes, RunTypes, Setup!Runs,
       Setup!Steps, Setup!SetupAssumption
  <2>2. "started" \in SetupPlaces /\ "started" \notin {"locked"} \union Setup!Steps
    BY DEF SetupPlaces, Setup!Steps
  <2>3. RunTypes'
    BY <1>1, <1>6, <2>1, <2>2, GoesTypes DEF Setup!ByHand, RunTypes
  <2> QED
    BY <1>1, <1>2, <1>3, <2>1, <2>2, <2>3, GoesOutside, OutsideSetup
<1>7. CASE Setup!Logout
  BY <1>1, <1>2, <1>3, <1>7, StoppedTypes, StoppedOutside, OutsideSetup DEF Setup!Logout
<1>8. ASSUME NEW r \in Setup!Runs, Setup!Crash(r) PROVE SetupInvariant'
  BY <1>1, <1>2, <1>3, <1>8, ExitsTypes, ExitsOutside, OutsideSetup DEF Setup!Crash
<1> QED
  BY <1>4, <1>5, <1>6, <1>7, <1>8 DEF Setup!Retry, Setup!Login

\* An upgrade leaves the service enabled; a removal is under way until the version is
\* gone, and what is recorded of it can only be older than the next package.
LEMMA PrermKeeps ==
    ASSUME SetupInvariant, NEW action \in {"upgrading", "removing"}, Setup!Prerm(action)
    PROVE  SetupInvariant'
<1>1. RunTypes /\ StateTypes /\ Dated
  BY SetupTypes DEF SetupInvariant
<1>2. /\ dpkg' = action /\ dpkg = "idle" /\ (action = "upgrading" => unpacks < MaxUnpacks)
      /\ UNCHANGED <<version, payload, unpacks, session, status, torn, failures, killed>>
  BY DEF Setup!Prerm
<1>3. RunTypes' /\ \A q \in Setup!Runs : run'[q] = run[q] \/ run'[q].pc \notin Setup!Steps
  <2>1. CASE Setup!Stopped
    BY <1>1, <2>1, StoppedTypes, StoppedOutside
  <2>2. CASE UNCHANGED <<unit, run, lock>>
    BY <1>1, <2>2 DEF RunTypes
  <2> QED
    BY <2>1, <2>2 DEF Setup!Prerm
<1>4. /\ user'.source = user.source /\ user'.models = user.models
      /\ (action = "upgrading" /\ user.enabled => user'.enabled)
      /\ user' \in [source: 0 .. MaxUnpacks, models: BOOLEAN, enabled: BOOLEAN]
  BY <1>1 DEF Setup!Prerm, StateTypes
<1>5. StateTypes' /\ Dated'
  BY <1>1, <1>2, <1>4 DEF StateTypes, Dated
<1>6. ReadyIsDone'
  BY <1>2, <1>4 DEF SetupInvariant, ReadyIsDone, Setup!AlreadyReady
<1>7. ASSUME NEW q \in Setup!Runs, run'[q].pc \in Setup!Steps
      PROVE  Underway(q)'
  <2>1. Underway(q) /\ run'[q] = run[q]
    BY <1>3, <1>7 DEF SetupInvariant
  <2> QED
    BY <1>2, <1>4, <2>1 DEF Underway
<1> QED
  BY <1>3, <1>5, <1>6, <1>7, SetupTypes DEF SetupInvariant

\* Unpacked is a package newer than anything recorded.
LEMMA PackageKeeps ==
    ASSUME SetupInvariant, Setup!Removed \/ Setup!Unpack \/ Setup!UnpackRest
    PROVE  SetupInvariant'
<1>1. RunTypes /\ StateTypes /\ Dated
  BY SetupTypes DEF SetupInvariant
<1>2. UNCHANGED <<unit, session, run, lock, status, user, torn, failures, killed>>
  BY DEF Setup!Removed, Setup!Unpack, Setup!UnpackRest, Setup!desktop
<1>3. RunTypes'
  BY <1>1, <1>2 DEF RunTypes
<1>4. StateTypes' /\ Dated'
  BY <1>1, <1>2, FilesAssumption DEF Setup!Removed, Setup!Unpack, Setup!UnpackRest,
     StateTypes, Dated, Setup!SetupAssumption
<1>5. CASE Setup!Removed \/ Setup!Unpack
  <2>1. version' \notin 1 .. unpacks /\ unpacks <= unpacks'
    BY <1>1, <1>5 DEF Setup!Removed, Setup!Unpack, StateTypes
  <2>2. ReadyIsDone'
    BY <1>1, <1>2, <2>1 DEF ReadyIsDone, Setup!AlreadyReady, Dated, StateTypes
  <2>3. ASSUME NEW q \in Setup!Runs, run'[q].pc \in Setup!Steps
        PROVE  Underway(q)'
    <3>1. Underway(q) /\ run'[q] = run[q]
      BY <1>2, <2>3 DEF SetupInvariant
    <3>2. run[q].generation \in 1 .. unpacks' /\ run[q].generation # version'
      BY <1>1, <1>4, <2>1, <3>1 DEF Underway, StateTypes
    <3> QED
      BY <1>2, <3>1, <3>2 DEF Underway
  <2> QED
    BY <1>3, <1>4, <2>2, <2>3, SetupTypes DEF SetupInvariant
<1>6. CASE Setup!UnpackRest
  <2>1. UNCHANGED <<version, unpacks>> /\ dpkg # "removing"
    BY <1>6 DEF Setup!UnpackRest
  <2>2. ReadyIsDone'
    BY <1>2, <2>1 DEF SetupInvariant, ReadyIsDone, Setup!AlreadyReady
  <2>3. ASSUME NEW q \in Setup!Runs, run'[q].pc \in Setup!Steps
        PROVE  Underway(q)'
    <3>1. Underway(q) /\ run'[q] = run[q]
      BY <1>2, <2>3 DEF SetupInvariant
    <3> QED
      BY <1>2, <2>1, <3>1 DEF Underway
  <2> QED
    BY <1>3, <1>4, <2>2, <2>3, SetupTypes DEF SetupInvariant
<1> QED
  BY <1>5, <1>6

\* The hook after unpacking may start the unit.
LEMMA PostinstKeeps ==
    ASSUME SetupInvariant, Setup!Postinst
    PROVE  SetupInvariant'
<1>1. RunTypes /\ StateTypes /\ Dated
  BY SetupTypes DEF SetupInvariant
<1>2. /\ dpkg = "unpacked" /\ dpkg' = "idle"
      /\ UNCHANGED <<version, payload, unpacks, session, lock, Setup!desktop, failures, killed>>
  BY DEF Setup!Postinst
<1>3. RunTypes' /\ \A q \in Setup!Runs : run'[q] = run[q] \/ run'[q].pc \notin Setup!Steps
  <2>1. CASE Setup!Requested
    BY <1>1, <1>2, <2>1, RequestedTypes, RequestedOutside
  <2>2. CASE UNCHANGED <<unit, run>>
    BY <1>1, <1>2, <2>2 DEF RunTypes
  <2> QED
    BY <2>1, <2>2 DEF Setup!Postinst
<1>4. StateTypes' /\ Dated' /\ ReadyIsDone'
  BY <1>1, <1>2 DEF SetupInvariant, StateTypes, Dated, ReadyIsDone, Setup!AlreadyReady,
     Setup!desktop
<1>5. ASSUME NEW q \in Setup!Runs, run'[q].pc \in Setup!Steps
      PROVE  Underway(q)'
  <2>1. Underway(q) /\ run'[q] = run[q]
    BY <1>3, <1>5 DEF SetupInvariant
  <2> QED
    BY <1>2, <2>1 DEF Underway, Setup!desktop
<1> QED
  BY <1>3, <1>4, <1>5, SetupTypes DEF SetupInvariant

\* The invariant is inductive.
LEMMA SetupStep ==
    SetupInvariant /\ [Setup!Next]_Setup!vars => SetupInvariant'
<1> SUFFICES ASSUME SetupInvariant, [Setup!Next]_Setup!vars
             PROVE  SetupInvariant'
  OBVIOUS
<1>1. ASSUME NEW r \in Setup!Runs, Setup!RunStep(r) \/ Setup!SetupFails(r)
      PROVE  SetupInvariant'
  BY <1>1, BeginKeeps, LockKeeps, LookKeeps, CommandKeeps, EndKeeps DEF Setup!RunStep
<1>2. CASE Setup!Retry \/ Setup!ByHand \/ Setup!Login \/ Setup!Logout \/ \E r \in Setup!Runs : Setup!Crash(r)
  BY <1>2, SessionKeeps
<1>3. ASSUME NEW action \in {"upgrading", "removing"}, Setup!Prerm(action)
      PROVE  SetupInvariant'
  BY <1>3, PrermKeeps
<1>4. CASE Setup!Removed \/ Setup!Unpack \/ Setup!UnpackRest
  BY <1>4, PackageKeeps
<1>5. CASE Setup!Postinst
  BY <1>5, PostinstKeeps
<1>6. CASE UNCHANGED Setup!vars
  <2>1. RunTypes /\ StateTypes
    BY SetupTypes DEF SetupInvariant
  <2>2. RunTypes' /\ StateTypes'
    BY <1>6, <2>1 DEF Setup!vars, RunTypes, StateTypes
  <2> QED
    BY <1>6, <2>2, OutsideSetup DEF Setup!vars, Setup!package, Setup!desktop
<1> QED
  BY <1>1, <1>2, <1>3, <1>4, <1>5, <1>6 DEF Setup!Next

\* A package that is recorded ready is set up: what auto-setup.py read in
\* setup-status.json, and when it skips its work, is true of the user's files.
THEOREM SetUpTheorem == Setup!Spec => []SetUp
<1>1. Setup!Init => SetupInvariant
  BY SetupInit
<1>2. SetupInvariant /\ [Setup!Next]_Setup!vars => SetupInvariant'
  BY SetupStep
<1>3. SetupInvariant => SetUp
  BY DEF SetupInvariant, SetUp, Setup!SetUp, Setup!Configured, ReadyIsDone, Setup!Generation
<1> QED
  BY <1>1, <1>2, <1>3, PTL DEF Setup!Spec

(***************************************************************************)
(* UserInstall                                                             *)
(***************************************************************************)
\* In what is left to do, every b comes after an a.
Precedes(todo, a, b) ==
    \A i \in DOMAIN todo : todo[i] = b => \E k \in 1 .. i - 1 : todo[k] = a

Operations == {"venv", "packages", "source", "plugin", "addon", "wrapper", "unit", "config",
               "backup", "classicui", "marker", "obsolete", "manifest", "remove", "unlink"}

\* What an interruption can leave half written.
CopiedInPlace == {"venv", "source", "addon", "wrapper", "unit", "config", "manifest"}

LastIs(todo, b) == \A i \in DOMAIN todo : todo[i] = b => i = Len(todo)

\* Whatever theme.py would replace of the user's has been copied.
Saved == User!Enabled /\ classic \notin {"none", "liltkey"} => backup # "none"

InOrder ==
    /\ Saved \/ Precedes(job.todo, "backup", "classicui")
    /\ marker \/ Precedes(job.todo, "marker", "manifest")
    /\ LastIs(job.todo, "manifest")

JobTypes ==
    /\ job \in [kind: {"none", "full", "service-only", "uninstall"}, todo: Seq(Operations),
                half: BOOLEAN, previous: SUBSET User!Paths, written: SUBSET User!Paths]
    /\ job.kind = "none" <=> job.todo = <<>>
    /\ job.half => Head(job.todo) \in CopiedInPlace

FileTypes ==
    /\ disk \in [User!Paths -> {"absent", "partial", "whole"}]
    /\ manifest \in [there: BOOLEAN, readable: BOOLEAN, listed: SUBSET User!Paths]
    /\ ~manifest.there => manifest = User!NoManifest
    /\ toml \in {"absent", "partial", "whole"}
    /\ classic \in User!Configs /\ backup \in User!Configs /\ marker \in BOOLEAN
    /\ completed \subseteq User!Paths

\* What an installation that ended wrote is in the manifest, and in what the run
\* under way read of it.
Completed ==
    /\ manifest.readable => completed \subseteq manifest.listed
    /\ job.kind # "none" => completed \subseteq job.previous

Copied ==
    /\ replaced = "nothing" =>
          classic # "liltkey" /\ backup \in {"none", "default", "default, edited"}
    /\ User!BackupIsUsers

\* The inductive invariant.
InstallInvariant ==
    /\ JobTypes /\ FileTypes
    /\ InOrder /\ Completed /\ Copied
    /\ settled => marker

----------------------------------------------------------------------------
\* One list of operations after another.
LEMMA ConcatInOrder ==
    ASSUME NEW s \in Seq(Operations), NEW t \in Seq(Operations), NEW a, NEW b,
           Precedes(s, a, b),
           Precedes(t, a, b) \/ \E k \in DOMAIN s : s[k] = a
    PROVE  s \o t \in Seq(Operations) /\ Precedes(s \o t, a, b)
<1>1. s \o t \in Seq(Operations) /\ Len(s \o t) = Len(s) + Len(t)
  OBVIOUS
<1>2. \A i \in 1 .. Len(s) + Len(t) : (s \o t)[i] = IF i <= Len(s) THEN s[i] ELSE t[i - Len(s)]
  OBVIOUS
<1>3. ASSUME NEW i \in 1 .. Len(s) + Len(t), (s \o t)[i] = b
      PROVE  \E k \in 1 .. i - 1 : (s \o t)[k] = a
  <2>1. CASE i <= Len(s)
    <3>1. PICK k \in 1 .. i - 1 : s[k] = a
      BY <1>2, <1>3, <2>1 DEF Precedes
    <3> QED
      BY <1>2, <2>1, <3>1
  <2>2. CASE i > Len(s) /\ \E k \in DOMAIN s : s[k] = a
    BY <1>2, <2>2
  <2>3. CASE i > Len(s) /\ Precedes(t, a, b)
    <3>1. i - Len(s) \in DOMAIN t /\ t[i - Len(s)] = b
      BY <1>2, <1>3, <2>3
    <3>2. PICK k \in 1 .. (i - Len(s)) - 1 : t[k] = a
      BY <2>3, <3>1 DEF Precedes
    <3>3. Len(s) + k \in 1 .. i - 1 /\ (s \o t)[Len(s) + k] = a
      BY <1>2, <2>3, <3>2
    <3> QED
      BY <3>3
  <2> QED
    BY <2>1, <2>2, <2>3
<1> QED
  BY <1>1, <1>3, SMTT(40) DEF Precedes

\* Whatever the options, main() backs up before it replaces, and keeps the decision
\* before it writes the manifest.
LEMMA PlanInOrder ==
    ASSUME NEW kind \in {"full", "service-only"}, NEW runtime \in BOOLEAN
    PROVE  /\ User!Plan(kind, runtime) \in Seq(Operations) /\ User!Plan(kind, runtime) # <<>>
           /\ Precedes(User!Plan(kind, runtime), "backup", "classicui")
           /\ Precedes(User!Plan(kind, runtime), "marker", "manifest")
           /\ LastIs(User!Plan(kind, runtime), "manifest")
<1> DEFINE S1 == IF runtime THEN <<"venv", "packages">> ELSE <<>>
           S2 == S1 \o <<"source">>
           T3 == IF kind = "full" THEN <<"plugin", "addon">> ELSE <<>>
           S3 == S2 \o T3
           T4 == <<"wrapper", "unit", "config", "backup", "classicui", "marker">>
           S4 == S3 \o T4
           T5 == IF kind = "full" THEN <<>> ELSE <<"obsolete">>
           S5 == S4 \o T5
           Ordered(s) == /\ s \in Seq(Operations)
                         /\ Precedes(s, "backup", "classicui")
                         /\ \A i \in DOMAIN s : s[i] # "manifest"
<1>1. Ordered(S1) /\ Ordered(<<"source">>) /\ Ordered(T3) /\ Ordered(T4) /\ Ordered(T5)
  <2>1. Ordered(<<>>)
    BY DEF Precedes
  <2>2. Ordered(<<"venv", "packages">>)
    BY DEF Precedes, Operations
  <2>3. Ordered(<<"source">>) /\ Ordered(<<"obsolete">>)
    BY DEF Precedes, Operations
  <2>4. Ordered(<<"plugin", "addon">>)
    BY DEF Precedes, Operations
  <2>5. Ordered(<<"wrapper", "unit", "config", "backup", "classicui", "marker">>)
    <3> DEFINE t == <<"wrapper", "unit", "config", "backup", "classicui", "marker">>
    <3>1. t \in Seq(Operations)
      BY DEF Operations
    <3>2. DOMAIN t = 1 .. 6 /\ t[1] = "wrapper" /\ t[2] = "unit" /\ t[3] = "config"
          /\ t[4] = "backup" /\ t[5] = "classicui" /\ t[6] = "marker"
      OBVIOUS
    <3> HIDE DEF t
    <3>3. \A i \in 1 .. 6 : t[i] # "manifest" /\ (t[i] = "classicui" => i = 5)
      BY <3>2
    <3> QED
      BY <3>1, <3>2, <3>3 DEF Precedes, t
  <2> HIDE DEF Ordered
  <2> QED
    BY <2>1, <2>2, <2>3, <2>4, <2>5
<1>2. ASSUME NEW s, NEW t, Ordered(s), Ordered(t)
      PROVE  Ordered(s \o t)
  <2>1. s \o t \in Seq(Operations) /\ Precedes(s \o t, "backup", "classicui")
    BY <1>2, ConcatInOrder
  <2>2. \A i \in DOMAIN (s \o t) : (s \o t)[i] # "manifest"
    BY <1>2
  <2> QED
    BY <2>1, <2>2
<1>3. User!Plan(kind, runtime) = S5 \o <<"manifest">>
  BY DEF User!Plan
<1>4. T4[6] = "marker" /\ 6 \in 1 .. Len(T4)
  OBVIOUS
<1>5. <<"manifest">> \in Seq(Operations) /\ Precedes(<<"manifest">>, "backup", "classicui")
  BY DEF Precedes, Operations
<1> HIDE DEF S1, T3, T4, T5, Ordered
<1>6. Ordered(S4)
  BY <1>1, <1>2
<1>7. S3 \in Seq(Operations) /\ T4 \in Seq(Operations)
  BY <1>1, <1>2 DEF Ordered
<1> HIDE DEF S3
<1>8. Len(S3) + 6 \in DOMAIN S4 /\ S4[Len(S3) + 6] = "marker"
  BY <1>4, <1>7 DEF S4
<1>9. Ordered(S5)
  BY <1>1, <1>2, <1>6
<1>10. Len(S3) + 6 \in DOMAIN S5 /\ S5[Len(S3) + 6] = "marker"
  <2>1. S4 \in Seq(Operations) /\ T5 \in Seq(Operations)
    BY <1>1, <1>6 DEF Ordered
  <2> HIDE DEF S4
  <2> QED
    BY <1>8, <2>1
<1> HIDE DEF S5
<1>11. Precedes(S5 \o <<"manifest">>, "backup", "classicui")
       /\ S5 \o <<"manifest">> \in Seq(Operations)
  BY <1>5, <1>9, ConcatInOrder DEF Ordered
<1>12. S5 \in Seq(Operations) /\ \A i \in DOMAIN S5 : S5[i] # "manifest"
  BY <1>9 DEF Ordered
<1>13. LastIs(S5 \o <<"manifest">>, "manifest") /\ S5 \o <<"manifest">> # <<>>
  BY <1>12 DEF LastIs
<1>14. Precedes(S5 \o <<"manifest">>, "marker", "manifest")
  <2>1. Len(S5) + 1 = Len(S5 \o <<"manifest">>)
        /\ (S5 \o <<"manifest">>)[Len(S3) + 6] = "marker"
    BY <1>10, <1>12
  <2> QED
    BY <1>7, <1>10, <1>12, <1>13, <2>1 DEF LastIs, Precedes
<1> QED
  BY <1>3, <1>11, <1>13, <1>14

\* After another operation, the order is still one of what is left.
LEMMA TailInOrder ==
    ASSUME NEW todo \in Seq(Operations), todo # <<>>, NEW a, NEW b,
           Precedes(todo, a, b), Head(todo) # a
    PROVE  Precedes(Tail(todo), a, b)
<1> SUFFICES ASSUME NEW i \in DOMAIN Tail(todo), Tail(todo)[i] = b
             PROVE  \E k \in 1 .. i - 1 : Tail(todo)[k] = a
  BY DEF Precedes
<1>1. i \in 1 .. Len(todo) - 1 /\ todo[i + 1] = b
  OBVIOUS
<1>2. PICK k \in 1 .. i : todo[k] = a
  BY <1>1 DEF Precedes
<1>3. k - 1 \in 1 .. i - 1 /\ Tail(todo)[k - 1] = a
  BY <1>1, <1>2
<1> QED
  BY <1>3

\* What is last stays last.
LEMMA TailLast ==
    ASSUME NEW todo \in Seq(Operations), todo # <<>>, NEW b, LastIs(todo, b)
    PROVE  LastIs(Tail(todo), b)
BY DEF LastIs

\* Nothing precedes what comes next.
LEMMA NothingFirst ==
    ASSUME NEW todo \in Seq(Operations), todo # <<>>, NEW a, Precedes(todo, a, Head(todo))
    PROVE  FALSE
BY DEF Precedes

\* The two parts together.
LEMMA InstallTypes == JobTypes /\ FileTypes => User!TypeOK
BY DEF JobTypes, FileTypes, CopiedInPlace, User!TypeOK

\* What becomes of the job when an operation is done.
LEMMA ContinuedJob ==
    ASSUME JobTypes, job.kind # "none"
    PROVE  /\ User!Continued \in [kind: {"none", "full", "service-only", "uninstall"},
                             todo: Seq(Operations), half: BOOLEAN,
                             previous: SUBSET User!Paths, written: SUBSET User!Paths]
           /\ User!Continued.todo = Tail(job.todo) /\ ~User!Continued.half
           /\ User!Continued.kind = "none" <=> Tail(job.todo) = <<>>
           /\ User!Continued.kind # "none" => User!Continued.previous = job.previous
<1>1. job.todo \in Seq(Operations) /\ job.todo # <<>>
  BY DEF JobTypes
<1>2. Tail(job.todo) \in Seq(Operations) /\ (Len(job.todo) = 1 <=> Tail(job.todo) = <<>>)
  <2>1. Tail(job.todo) \in Seq(Operations) /\ Len(Tail(job.todo)) = Len(job.todo) - 1
    BY <1>1
  <2>2. Len(Tail(job.todo)) = 0 <=> Tail(job.todo) = <<>>
    BY <2>1, EmptySeq
  <2>3. Len(job.todo) \in Nat
    BY <1>1
  <2> QED
    BY <2>1, <2>2, <2>3
<1>3. CASE Len(job.todo) = 1
  BY <1>2, <1>3 DEF User!Continued, User!NoJob, JobTypes
<1>4. CASE Len(job.todo) # 1
  BY <1>2, <1>4 DEF User!Continued, JobTypes
<1> QED
  BY <1>3, <1>4

\* An operation is done; it may have written files.
LEMMA DoneJob ==
    ASSUME JobTypes, job.kind # "none",
           \/ job' = User!Continued
           \/ \E paths \in SUBSET User!Paths : job' = [User!Continued EXCEPT !.written = @ \union paths]
    PROVE  /\ JobTypes' /\ job'.todo = Tail(job.todo)
           /\ job'.kind # "none" => job'.previous = job.previous
BY ContinuedJob DEF JobTypes

\* A file is opened.
LEMMA OpenedJob ==
    ASSUME JobTypes, job.kind # "none", job' = [job EXCEPT !.half = TRUE],
           Head(job.todo) \in CopiedInPlace
    PROVE  JobTypes' /\ UNCHANGED <<job.kind, job.todo, job.previous, job.written>>
BY DEF JobTypes

\* The job is over before it is done.
LEMMA DroppedJob ==
    ASSUME job' = User!NoJob
    PROVE  JobTypes' /\ job'.kind = "none" /\ job'.todo = <<>>
BY DEF JobTypes, User!NoJob

\* The order is kept as long as the two marks are not passed over.
LEMMA OrderKept ==
    ASSUME JobTypes, job.kind # "none", InOrder, Head(job.todo) \notin {"backup", "marker"},
           job'.todo = Tail(job.todo), UNCHANGED <<classic, backup, marker>>
    PROVE  InOrder'
<1>1. job.todo \in Seq(Operations) /\ job.todo # <<>>
  BY DEF JobTypes
<1>2. Saved' = Saved /\ marker' = marker
  BY DEF Saved, User!Enabled
<1>3. Precedes(job.todo, "backup", "classicui") => Precedes(Tail(job.todo), "backup", "classicui")
  BY <1>1, TailInOrder
<1>4. Precedes(job.todo, "marker", "manifest") => Precedes(Tail(job.todo), "marker", "manifest")
  BY <1>1, TailInOrder
<1>5. LastIs(Tail(job.todo), "manifest")
  BY <1>1, TailLast DEF InOrder
<1> QED
  BY <1>2, <1>3, <1>4, <1>5 DEF InOrder

\* While no operation is done and no mark set, the order stays,
LEMMA OrderSame ==
    ASSUME InOrder, UNCHANGED <<job.todo, classic, backup, marker>>
    PROVE  InOrder'
BY DEF InOrder, Saved, User!Enabled

\* and of nothing there is no order.
LEMMA OrderDropped ==
    ASSUME job'.todo = <<>>
    PROVE  InOrder'
BY DEF InOrder, Precedes, LastIs

----------------------------------------------------------------------------
\* At first nothing is installed.
LEMMA InstallInit == User!Init => InstallInvariant
<1> SUFFICES ASSUME User!Init PROVE InstallInvariant
  OBVIOUS
<1>1. JobTypes
  BY DEF User!Init, JobTypes, User!NoJob
<1>2. FileTypes
  BY DEF User!Init, FileTypes, User!NoManifest, User!Configs
<1>3. Completed /\ Copied
  BY DEF User!Init, Completed, Copied, User!BackupIsUsers, User!NoJob
<1>4. InOrder
  BY DEF User!Init, InOrder, User!NoJob, Precedes, LastIs
<1> QED
  BY <1>1, <1>2, <1>3, <1>4 DEF User!Init, InstallInvariant

\* A run begins with what the manifest says, and with the whole plan.
LEMMA StartsKeeps ==
    ASSUME InstallInvariant, NEW kind \in {"full", "service-only", "uninstall"},
           NEW todo \in Seq(Operations), todo # <<>>,
           Precedes(todo, "backup", "classicui"), Precedes(todo, "marker", "manifest"),
           LastIs(todo, "manifest"),
           User!Starts([User!NoJob EXCEPT !.kind = kind, !.todo = todo, !.previous = manifest.listed])
    PROVE  InstallInvariant'
<1>1. FileTypes' /\ Copied' /\ (settled => marker)' /\ UNCHANGED <<User!personal, manifest, completed>>
  BY DEF InstallInvariant, User!Starts, User!personal, FileTypes, Copied, User!BackupIsUsers
<1>2. CASE UNCHANGED job
  <2>1. InOrder'
    BY <1>1, <1>2, OrderSame DEF InstallInvariant, User!personal
  <2> QED
    BY <1>1, <1>2, <2>1 DEF InstallInvariant, JobTypes, Completed
<1>3. CASE manifest.readable /\ job' = [User!NoJob EXCEPT !.kind = kind, !.todo = todo, !.previous = manifest.listed]
  <2>1. JobTypes' /\ job'.todo = todo /\ job'.previous = manifest.listed
    BY <1>3 DEF User!NoJob, JobTypes, InstallInvariant, FileTypes
  <2>2. InOrder'
    BY <2>1 DEF InOrder
  <2>3. Completed'
    BY <1>1, <1>3, <2>1 DEF Completed, InstallInvariant
  <2> QED
    BY <1>1, <2>1, <2>2, <2>3 DEF InstallInvariant
<1> QED
  BY <1>2, <1>3 DEF User!Starts

\* install-user.py and its uninstaller start.
LEMMA BeginsKeeps ==
    ASSUME InstallInvariant,
           User!Uninstall \/ \E kind \in {"full", "service-only"}, runtime \in BOOLEAN : User!Install(kind, runtime)
    PROVE  InstallInvariant'
<1>1. ASSUME NEW kind \in {"full", "service-only"}, NEW runtime \in BOOLEAN, User!Install(kind, runtime)
      PROVE  InstallInvariant'
  <2> DEFINE todo == User!Plan(kind, runtime)
  <2>1. User!Starts([User!NoJob EXCEPT !.kind = kind, !.todo = todo, !.previous = manifest.listed])
    BY <1>1 DEF User!Install
  <2>2. todo \in Seq(Operations) /\ todo # <<>> /\ Precedes(todo, "backup", "classicui")
        /\ Precedes(todo, "marker", "manifest") /\ LastIs(todo, "manifest")
    BY PlanInOrder
  <2> HIDE DEF todo
  <2> QED
    BY <2>1, <2>2, StartsKeeps
<1>2. CASE User!Uninstall
  <2> DEFINE todo == <<"remove", "unlink">>
  <2>1. todo \in Seq(Operations) /\ todo # <<>> /\ Precedes(todo, "backup", "classicui")
        /\ Precedes(todo, "marker", "manifest") /\ LastIs(todo, "manifest")
    BY DEF Operations, Precedes, LastIs
  <2>2. User!Starts([User!NoJob EXCEPT !.kind = "uninstall", !.todo = todo, !.previous = manifest.listed])
    BY <1>2 DEF User!Uninstall
  <2> HIDE DEF todo
  <2> QED
    BY <2>1, <2>2, StartsKeeps
<1> QED
  BY <1>1, <1>2

\* The operations on files that the manifest does not tell of yet.
LEMMA FilesKeep ==
    ASSUME InstallInvariant,
           \/ \E p \in User!Paths : User!Open(p) \/ User!Write(p)
           \/ User!Venv \/ User!Packages \/ User!Toml \/ User!Remove
    PROVE  InstallInvariant'
<1>1. /\ job.kind # "none" /\ Head(job.todo) \notin {"backup", "marker"}
      /\ UNCHANGED <<manifest, classic, backup, marker, replaced, completed, settled>>
  BY DEF User!Open, User!Write, User!Venv, User!Packages, User!Toml, User!Remove, User!Doing,
     User!personal
<1>2. FileTypes' /\ Copied' /\ (settled => marker)'
  <2>1. disk' \in [User!Paths -> {"absent", "partial", "whole"}]
    BY DEF InstallInvariant, FileTypes, User!Open, User!Write, User!Venv, User!Packages,
       User!Toml, User!Remove
  <2>2. toml' \in {"absent", "partial", "whole"}
    BY DEF InstallInvariant, FileTypes, User!Open, User!Write, User!Venv, User!Packages,
       User!Toml, User!Remove, User!personal
  <2> QED
    BY <1>1, <2>1, <2>2 DEF InstallInvariant, FileTypes, Copied, User!BackupIsUsers
<1>3. \/ job' = User!Continued \/ job' = User!NoJob \/ UNCHANGED job
      \/ \E paths \in SUBSET User!Paths : job' = [User!Continued EXCEPT !.written = @ \union paths]
      \/ /\ job' = [job EXCEPT !.half = TRUE]
         /\ Head(job.todo) \in CopiedInPlace
  <2>1. ASSUME NEW p \in User!Paths, User!Open(p) PROVE job' = [job EXCEPT !.half = TRUE]
            /\ Head(job.todo) \in CopiedInPlace
    BY <2>1 DEF User!Open, User!Doing, CopiedInPlace
  <2>2. ASSUME NEW p \in User!Paths, User!Write(p)
        PROVE \E paths \in SUBSET User!Paths : job' = [User!Continued EXCEPT !.written = @ \union paths]
    BY <2>2 DEF User!Write
  <2>3. CASE User!Venv
    BY <2>3 DEF User!Venv, User!Doing, CopiedInPlace
  <2>4. CASE User!Packages
    <3>1. {"venv"} \in SUBSET User!Paths
      BY DEF User!Paths
    <3> QED
      BY <2>4, <3>1 DEF User!Packages
  <2>5. CASE User!Remove
    BY <2>5 DEF User!Remove
  <2>6. CASE User!Toml
    BY <2>6 DEF User!Toml, User!Doing, CopiedInPlace
  <2> QED
    BY <2>1, <2>2, <2>3, <2>4, <2>5, <2>6
<1>4. UNCHANGED <<classic, backup, marker>> /\ JobTypes /\ InOrder /\ Completed
  BY <1>1 DEF InstallInvariant
<1>5. JobTypes' /\ InOrder' /\ (job'.kind # "none" => job'.previous = job.previous)
  <2>1. CASE \/ job' = User!Continued
             \/ \E paths \in SUBSET User!Paths : job' = [User!Continued EXCEPT !.written = @ \union paths]
    BY <1>1, <1>4, <2>1, DoneJob, OrderKept
  <2>2. CASE job' = User!NoJob
    BY <2>2, DroppedJob, OrderDropped
  <2>3. CASE UNCHANGED job
    BY <1>4, <2>3, OrderSame DEF JobTypes
  <2>4. CASE /\ job' = [job EXCEPT !.half = TRUE]
             /\ Head(job.todo) \in CopiedInPlace
    BY <1>1, <1>4, <2>4, OpenedJob, OrderSame
  <2> QED
    BY <1>3, <2>1, <2>2, <2>3, <2>4
<1>6. Completed'
  BY <1>1, <1>4, <1>5 DEF Completed
<1> QED
  BY <1>2, <1>5, <1>6 DEF InstallInvariant

\* A migration forgets what it removed, in the manifest to come too.
LEMMA ObsoleteKeeps ==
    ASSUME InstallInvariant, User!Obsolete
    PROVE  InstallInvariant'
<1>1. /\ job.kind # "none" /\ Head(job.todo) = "obsolete"
      /\ UNCHANGED <<manifest, User!personal, settled>>
      /\ job' = [User!Continued EXCEPT !.previous = @ \ User!Removable]
      /\ completed' = completed \ User!Removable
  BY DEF User!Obsolete, User!Doing
<1>2. JobTypes /\ FileTypes /\ InOrder /\ Completed
  BY DEF InstallInvariant
<1>3. FileTypes' /\ Copied' /\ (settled => marker)'
  <2>1. disk' \in [User!Paths -> {"absent", "partial", "whole"}]
    BY DEF InstallInvariant, FileTypes, User!Obsolete
  <2> QED
    BY <1>1, <2>1 DEF InstallInvariant, FileTypes, User!personal, Copied, User!BackupIsUsers
<1>4. /\ JobTypes' /\ job'.todo = Tail(job.todo)
      /\ job'.kind # "none" => job'.previous = job.previous \ User!Removable
  <2> HIDE DEF User!Removable
  <2> QED
    BY <1>1, <1>2, ContinuedJob DEF JobTypes
<1>5. InOrder'
  BY <1>1, <1>2, <1>4, OrderKept DEF User!personal
<1>6. Completed'
  BY <1>1, <1>2, <1>4 DEF Completed
<1> QED
  BY <1>3, <1>4, <1>5, <1>6 DEF InstallInvariant

\* The manifest is written when everything else is done: nothing of this run or of an
\* earlier one is missing from it.
LEMMA ManifestKeeps ==
    ASSUME InstallInvariant, User!OpenManifest \/ User!WriteManifest \/ User!Unlink
    PROVE  InstallInvariant'
<1>1. /\ job.kind # "none" /\ Head(job.todo) \notin {"backup", "marker"}
      /\ UNCHANGED <<disk, User!personal>>
  BY DEF User!OpenManifest, User!WriteManifest, User!Unlink, User!Doing
<1>2. /\ JobTypes /\ FileTypes /\ InOrder /\ Completed /\ (settled => marker)
      /\ UNCHANGED <<toml, classic, backup, marker>> /\ completed \subseteq job.previous
      /\ job.previous \subseteq User!Paths /\ job.written \subseteq User!Paths
  BY <1>1 DEF InstallInvariant, User!personal, Completed, JobTypes
<1>3. Copied'
  BY <1>1 DEF InstallInvariant, Copied, User!BackupIsUsers, User!personal
<1>4. job.todo \in Seq(Operations) /\ job.todo # <<>>
  BY <1>1, <1>2 DEF JobTypes
<1>5. CASE User!OpenManifest
  <2>1. JobTypes' /\ UNCHANGED <<job.kind, job.todo, job.previous>>
    BY <1>1, <1>2, <1>5, OpenedJob DEF User!OpenManifest, User!Doing, CopiedInPlace
  <2>2. InOrder' /\ FileTypes' /\ Completed'
    BY <1>1, <1>2, <1>5, <2>1, OrderSame DEF User!OpenManifest, FileTypes, Completed
  <2> QED
    BY <1>2, <1>3, <1>5, <2>1, <2>2 DEF InstallInvariant, User!OpenManifest
<1>6. CASE User!WriteManifest
  <2>1. JobTypes' /\ job'.todo = Tail(job.todo)
    BY <1>1, <1>2, <1>6, DoneJob DEF User!WriteManifest
  <2>2. Head(job.todo) = "manifest"
    BY <1>6 DEF User!WriteManifest, User!Doing
  <2>3. Len(job.todo) = 1
    <3>1. 1 \in DOMAIN job.todo /\ job.todo[1] = "manifest"
      BY <1>4, <2>2
    <3> QED
      BY <1>2, <3>1 DEF InOrder, LastIs
  <2>4. job'.kind = "none"
    <3>1. Tail(job.todo) = <<>>
      <4>1. Tail(job.todo) \in Seq(Operations) /\ Len(Tail(job.todo)) = 0
        BY <1>4, <2>3
      <4> QED
        BY <4>1, EmptySeq
    <3> QED
      BY <2>1, <3>1 DEF JobTypes
  <2>5. marker
    BY <1>2, <1>4, <2>2, NothingFirst DEF InOrder
  <2>6. InOrder'
    BY <1>1, <1>2, <2>1, OrderKept
  <2>7. FileTypes' /\ Completed'
    <3>1. manifest' = [there |-> TRUE, readable |-> TRUE, listed |-> job.previous \union job.written]
          /\ completed' = completed \union job.written
      BY <1>6 DEF User!WriteManifest, User!Listed
    <3> QED
      BY <1>1, <1>2, <2>4, <3>1 DEF FileTypes, Completed
  <2> QED
    BY <1>2, <1>3, <2>1, <2>5, <2>6, <2>7 DEF InstallInvariant
<1>7. CASE User!Unlink
  <2>1. JobTypes' /\ job'.todo = Tail(job.todo)
    BY <1>1, <1>2, <1>7, DoneJob DEF User!Unlink
  <2>2. InOrder'
    BY <1>1, <1>2, <2>1, OrderKept
  <2>3. completed' = {} /\ UNCHANGED settled
    BY <1>2, <1>7 DEF User!Unlink
  <2>4. FileTypes' /\ Completed'
    BY <1>1, <1>2, <1>7, <2>3 DEF User!Unlink, User!NoManifest, FileTypes, Completed
  <2> QED
    BY <1>2, <1>3, <2>1, <2>2, <2>3, <2>4 DEF InstallInvariant
<1> QED
  BY <1>5, <1>6, <1>7

\* theme.py copies before it replaces, and decides for good.
LEMMA ThemeKeeps ==
    ASSUME InstallInvariant, User!Backup \/ User!Classicui \/ User!Marker
    PROVE  InstallInvariant'
<1>1. /\ job.kind # "none" /\ job' = User!Continued
      /\ UNCHANGED <<disk, manifest, toml, completed, settled>>
  BY DEF User!Backup, User!Classicui, User!Marker, User!Theme, User!Doing
<1>2. JobTypes /\ FileTypes /\ InOrder /\ Completed /\ Copied /\ (settled => marker)
  BY DEF InstallInvariant
<1>3. /\ JobTypes' /\ job'.todo = Tail(job.todo)
      /\ job'.kind # "none" => job'.previous = job.previous
  BY <1>1, <1>2, DoneJob
<1>4. Completed'
  BY <1>1, <1>2, <1>3 DEF Completed
<1>5. job.todo \in Seq(Operations) /\ job.todo # <<>>
  BY <1>1, <1>2 DEF JobTypes
<1>6. LastIs(job'.todo, "manifest")
  BY <1>2, <1>3, <1>5, TailLast DEF InOrder
<1>7. CASE User!Backup
  <2>1. Head(job.todo) = "backup" /\ UNCHANGED <<classic, marker, replaced>>
        /\ backup' = IF User!BackedUp THEN classic ELSE backup
    BY <1>7 DEF User!Backup, User!Theme, User!Doing
  <2>2. Saved'
    BY <2>1 DEF Saved, User!Enabled, User!BackedUp
  <2>3. Precedes(job.todo, "marker", "manifest") => Precedes(job'.todo, "marker", "manifest")
    BY <1>3, <1>5, <2>1, TailInOrder
  <2>4. InOrder'
    BY <1>2, <1>6, <2>1, <2>2, <2>3 DEF InOrder
  <2>5. FileTypes'
    BY <1>1, <1>2, <2>1 DEF FileTypes
  <2>6. Copied'
    BY <1>2, <2>1 DEF Copied, User!BackupIsUsers, User!BackedUp, User!Enabled, FileTypes,
       User!Configs
  <2> QED
    BY <1>1, <1>2, <1>3, <1>4, <2>1, <2>4, <2>5, <2>6 DEF InstallInvariant
<1>8. CASE User!Classicui
  <2>1. /\ Head(job.todo) = "classicui" /\ UNCHANGED <<backup, marker>>
        /\ classic' = IF User!Enabled THEN "liltkey" ELSE classic
        /\ replaced' = IF User!Enabled /\ replaced = "nothing" THEN classic ELSE replaced
    BY <1>8 DEF User!Classicui, User!Theme, User!Doing
  <2>2. Saved
    BY <1>2, <1>5, <2>1, NothingFirst DEF InOrder
  <2>3. Saved'
    BY <2>1, <2>2 DEF Saved, User!Enabled
  <2>4. Precedes(job.todo, "marker", "manifest") => Precedes(job'.todo, "marker", "manifest")
    BY <1>3, <1>5, <2>1, TailInOrder
  <2>5. InOrder'
    BY <1>2, <1>6, <2>1, <2>3, <2>4 DEF InOrder
  <2>6. FileTypes'
    BY <1>1, <1>2, <2>1 DEF FileTypes, User!Configs
  <2>7. Copied'
    BY <1>2, <2>1, <2>2 DEF Copied, User!BackupIsUsers, Saved, User!Enabled, FileTypes,
       User!Configs
  <2> QED
    BY <1>1, <1>2, <1>3, <1>4, <2>1, <2>5, <2>6, <2>7 DEF InstallInvariant
<1>9. CASE User!Marker
  <2>1. marker' = TRUE /\ UNCHANGED <<classic, backup, replaced>>
    BY <1>9 DEF User!Marker
  <2>2. InOrder'
    BY <1>6, <2>1 DEF InOrder, Saved, User!Enabled
  <2>3. FileTypes' /\ Copied'
    BY <1>1, <1>2, <2>1 DEF FileTypes, Copied, User!BackupIsUsers
  <2> QED
    BY <1>3, <1>4, <2>1, <2>2, <2>3 DEF InstallInvariant
<1> QED
  BY <1>7, <1>8, <1>9

\* Between the runs the user edits the configuration; an interruption ends a run.
LEMMA BetweenRunsKeeps ==
    ASSUME InstallInvariant,
           \/ User!Crash
           \/ \E config \in {"none", "default, edited", "custom"} : User!Choose(config)
    PROVE  InstallInvariant'
<1>1. /\ UNCHANGED <<disk, manifest, toml, backup, marker, replaced, completed, settled>>
  BY DEF User!Crash, User!Choose, User!personal
<1>2. JobTypes /\ FileTypes /\ InOrder /\ Completed /\ Copied /\ (settled => marker)
  BY DEF InstallInvariant
<1>3. JobTypes' /\ job'.kind = "none" /\ job'.todo = <<>>
  <2>1. CASE User!Crash
    BY <2>1, DroppedJob DEF User!Crash
  <2>2. ASSUME NEW config, User!Choose(config) PROVE job.kind = "none" /\ UNCHANGED job
    BY <2>2 DEF User!Choose
  <2> QED
    BY <1>2, <2>1, <2>2 DEF JobTypes
<1>4. classic' = classic \/ classic' \in {"none", "default, edited", "custom"}
  BY DEF User!Crash, User!Choose, User!personal
<1>5. InOrder'
  BY <1>3, OrderDropped
<1>6. FileTypes' /\ Completed' /\ Copied'
  BY <1>1, <1>2, <1>3, <1>4 DEF FileTypes, Completed, Copied, User!BackupIsUsers,
     User!Configs
<1> QED
  BY <1>1, <1>2, <1>3, <1>5, <1>6 DEF InstallInvariant

\* The invariant is inductive.
LEMMA InstallStep == InstallInvariant /\ [User!Next]_User!vars => InstallInvariant'
<1> SUFFICES ASSUME InstallInvariant, [User!Next]_User!vars PROVE InstallInvariant'
  OBVIOUS
<1>1. CASE UNCHANGED User!vars
  <2>1. InOrder'
    BY <1>1, OrderSame DEF User!vars, User!personal, InstallInvariant
  <2> QED
    BY <1>1, <2>1, ZenonT(60) DEF User!vars, User!personal, InstallInvariant, JobTypes, FileTypes,
       Completed, Copied, User!BackupIsUsers
<1> QED
  BY <1>1, BeginsKeeps, FilesKeep, ObsoleteKeeps, ManifestKeeps, ThemeKeeps, BetweenRunsKeeps
     DEF User!Next

\* What a completed installation wrote stays in the manifest while it is on the disk,
\* and what was copied of the user's configuration is not overwritten, over every sequence of runs of
\* install-user.py with any options, interrupted anywhere.
THEOREM NothingLostTheorem == User!Spec => []NothingLost
<1>1. InstallInvariant => NothingLost
  BY DEF InstallInvariant, NothingLost, User!NothingLost, JobTypes, FileTypes, CopiedInPlace, User!TypeOK,
     User!StaysListed, Completed, Copied, User!AtRest
<1> QED
  BY <1>1, InstallInit, InstallStep, PTL DEF User!Spec

\* Once theme.py has left its marker, no run changes classicui.conf.
THEOREM ChoiceKeptTheorem == User!Spec => ChoiceKept
<1>1. InstallInvariant /\ [User!Next]_User!vars => [settled /\ ~User!AtRest => classic' = classic]_User!vars
  <2> SUFFICES ASSUME InstallInvariant, [User!Next]_User!vars, settled, job.kind # "none"
               PROVE  classic' = classic
    BY DEF User!AtRest
  <2>1. ~User!Enabled
    BY DEF InstallInvariant, User!Enabled
  <2> QED
    BY <2>1 DEF User!Next, User!vars, User!personal, User!Install, User!Uninstall, User!Starts,
       User!Open, User!Write, User!Venv, User!Packages, User!Toml, User!Obsolete,
       User!OpenManifest, User!WriteManifest, User!Remove, User!Unlink, User!Backup,
       User!Classicui, User!Marker, User!Theme, User!Choose, User!Crash
<1> QED
  BY <1>1, InstallInit, InstallStep, PTL DEF User!Spec, ChoiceKept, User!ChoiceKept
=============================================================================
