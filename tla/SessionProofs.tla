--------------------------- MODULE SessionProofs ---------------------------
(***************************************************************************)
(* Facts about Session that the proofs about both kinds of session use.    *)
(***************************************************************************)
EXTENDS Session, TLAPS

\* The bound on starts is checked when the line is read.
StartsLeft == pc[Client] = "start" => started < MaxStarts

LEMMA TaskFacts ==
    /\ Client \in Task
    /\ \A n \in Starts : Timer(n) \in Task /\ Worker(n) \in Task
    /\ \A n : Timer(n) # Client /\ Worker(n) # Client
    /\ \A m, n \in Starts : Timer(m) # Worker(n)
    /\ \A m, n \in Starts : m # n => Timer(m) # Timer(n) /\ Worker(m) # Worker(n)
    /\ NoTask \notin Task
BY DEF Task, Client, Timer, Worker, NoTask

(***************************************************************************)
(* asyncio.Lock                                                            *)
(***************************************************************************)

LockType == holder \in Task \cup {NoTask} /\ waiters \in Seq(Task)

LEMMA HeadTail ==
    ASSUME NEW S, NEW s \in Seq(S), s # <<>>
    PROVE  Head(s) \in S /\ Tail(s) \in Seq(S)
OBVIOUS

LEMMA AcquireType ==
    ASSUME NEW t \in Task, LockType, Acquire(t)
    PROVE  LockType' /\ (holder # NoTask => holder' = holder)
BY DEF LockType, Acquire

LEMMA ReleaseType ==
    ASSUME LockType, Release
    PROVE  LockType'
BY HeadTail DEF LockType, Release

LEMMA ReacquireType ==
    ASSUME NEW t \in Task, LockType, holder \in Task, Reacquire(t)
    PROVE  LockType'
BY HeadTail DEF LockType, Reacquire, lockVars

\* Exclusion survives a step of the holder: every other task is outside.
LEMMA HolderSteps ==
    ASSUME LockExclusive, NEW t \in Task, holder = t,
           \A u \in Task \ {t} : pc'[u] \in Inside => pc[u] \in Inside,
           pc'[t] \in Inside => holder' = t
    PROVE  LockExclusive'
BY DEF LockExclusive

\* Exclusion survives a step that leaves the lock to its holder and that
\* does not enter a locked block.
LEMMA WaiterSteps ==
    ASSUME LockExclusive, NEW t \in Task, holder # NoTask => holder' = holder,
           \A u \in Task \ {t} : pc'[u] \in Inside => pc[u] \in Inside,
           pc'[t] \notin Inside
    PROVE  LockExclusive'
BY TaskFacts DEF LockExclusive

(***************************************************************************)
(* The parts of BaseTypeOK                                                 *)
(***************************************************************************)

SelfType == self \in [phase : Phases, id : Ids \cup {NoId},
                      capture : 0 .. MaxStarts, worker : 0 .. MaxStarts,
                      timer : 0 .. MaxStarts]
RecordType == /\ started \in 0 .. MaxStarts
              /\ sid \in [Starts -> Ids \cup {NoId}]
CapType == cap \in [Starts -> Capture]
PcType == pc \in [Task -> Labels]
CmdType == cmd \in [kind : Kinds \cup {"none", "too long"}, id : Ids \cup {NoId}]
ToldType == told \in [Ids -> [phase : Phases \cup {"none", "finished", "cancelled", "error"},
                              segment : Nat, seq : Nat]]
WireType == peer \in {"here", "gone"} /\ writer \in {"open", "closing"}

LEMMA TypeParts ==
    BaseTypeOK <=> /\ SelfType /\ closed \in BOOLEAN /\ RecordType /\ CapType /\ PcType /\ LockType
                   /\ CmdType /\ commands \in Nat /\ WireType /\ ToldType
BY DEF BaseTypeOK, SelfType, RecordType, CapType, PcType, LockType, CmdType,
       WireType, ToldType

LEMMA TypePartsNext ==
    ASSUME SelfType', closed' \in BOOLEAN, RecordType', CapType', PcType', LockType',
           CmdType', commands' \in Nat, WireType', ToldType'
    PROVE  BaseTypeOK'
BY DEF BaseTypeOK, SelfType, RecordType, CapType, PcType, LockType, CmdType,
       WireType, ToldType

Sane == BaseTypeOK /\ LockExclusive /\ StartsLeft

(***************************************************************************)
(* A capture keeps its type through every operation.                       *)
(***************************************************************************)

LEMMA TerminatedType ==
    ASSUME NEW c \in Capture, NEW f \in SUBSET Flags
    PROVE  Terminated(c, f) \in Capture
BY DEF Capture, Terminated

LEMMA TakenType ==
    ASSUME NEW c \in Capture, c.queue > 0
    PROVE  Taken(c) \in Capture
<1>1. c.queue - 1 \in Nat /\ c.taken + 1 \in Nat
  BY DEF Capture
<1> DEFINE q == c.queue - 1
           k == c.taken + 1
<1>2. [c EXCEPT !.queue = q, !.taken = k] \in Capture
  <2>1. q \in Nat /\ k \in Nat
    BY <1>1
  <2> HIDE DEF q, k
  <2> QED
    BY <2>1 DEF Capture
<1> QED
  BY <1>2 DEF Taken

LEMMA ReadType ==
    ASSUME NEW c \in Capture
    PROVE  Read(c) \in Capture
<1>1. c.queue + 1 \in Nat /\ c.read + 1 \in Nat /\ c.flags \in SUBSET Flags
  BY DEF Capture
<1> DEFINE q == c.queue + 1
           k == c.read + 1
           f == c.flags \cup {"available"}
<1>2. q \in Nat /\ k \in Nat /\ f \in SUBSET Flags
  BY <1>1 DEF Flags
<1>3. /\ [c EXCEPT !.queue = q, !.read = k, !.flags = f] \in Capture
      /\ [c EXCEPT !.read = k] \in Capture
  <2> HIDE DEF q, k, f
  <2> QED
    BY <1>2 DEF Capture
<1>4. Terminated(c, {"failed"}) \in Capture
  BY TerminatedType DEF Flags
<1> QED
  BY <1>3, <1>4 DEF Read

LEMMA CaptureTypes ==
    ASSUME NEW c \in Capture
    PROVE  /\ Spawned(c) \in Capture /\ Exited(c) \in Capture
           /\ Sealed(c) \in Capture /\ CancelBegun(c) \in Capture
           /\ Emptied(c) \in Capture /\ Looked(c) \in Capture
           /\ \A odd \in BOOLEAN : Ended(c, odd) \in Capture
<1>1. Spawned(c) \in Capture
  BY DEF Capture, Spawned
<1>2. Exited(c) \in Capture
  BY DEF Capture, Exited
<1>3. Sealed(c) \in Capture /\ CancelBegun(c) \in Capture
  BY TerminatedType DEF Sealed, CancelBegun, Flags
<1>4. Emptied(c) \in Capture
  BY DEF Capture, Emptied
<1>5. Looked(c) \in Capture
  BY DEF Capture, Looked
<1>6. \A odd \in BOOLEAN : Ended(c, odd) \in Capture
  BY DEF Capture, Ended, Flags
<1> QED
  BY <1>1, <1>2, <1>3, <1>4, <1>5, <1>6

(***************************************************************************)
(* The parts of the session that the methods change.                       *)
(***************************************************************************)

SelfSet == [phase : Phases, id : Ids \cup {NoId}, capture : 0 .. MaxStarts,
            worker : 0 .. MaxStarts, timer : 0 .. MaxStarts]

LEMMA IdleType ==
    ASSUME SelfType
    PROVE  Idle \in SelfSet /\ [Idle EXCEPT !.timer = 0] \in SelfSet
<1>1. 0 \in 0 .. MaxStarts
  BY SessionAssumption
<1> QED
  BY <1>1 DEF SelfType, SelfSet, Idle, Phases

LEMMA TellType ==
    ASSUME ToldType, NEW i,
           NEW kind \in {"recording", "transcribing", "refused", "error",
                         "cancelled", "finished"},
           Tell(i, kind)
    PROVE  ToldType'
<1> DEFINE P == Phases \cup {"none", "finished", "cancelled", "error"}
           H == [phase : P, segment : Nat, seq : Nat]
<1>1. \A h \in H : Hear(h, kind) \in H
  BY DEF Hear, Phases
<1>2. told \in [Ids -> H] /\ told' = IF i \in Ids THEN [told EXCEPT ![i] = Hear(@, kind)] ELSE told
  BY DEF ToldType, Tell
<1>3. told' \in [Ids -> H]
  <2> HIDE DEF H
  <2> QED
    BY <1>1, <1>2
<1> QED
  BY <1>3 DEF ToldType

LEMMA ClearedFacts ==
    ASSUME PcType, SelfType, NEW t
    PROVE  /\ Cleared(t) \in [Task -> Labels]
           /\ \A u \in Task : Cleared(t)[u] = pc[u] \/ Cleared(t)[u] \in {"done", "cancelled"}
           /\ Cleared(t)[Client] = pc[Client]
           /\ \A n \in Starts : Cleared(t)[Worker(n)] = pc[Worker(n)]
<1> DEFINE m == Timer(self.timer)
           v == CASE pc[m] = "sleep" -> "done" [] pc[m] = "stop" -> "cancelled"
                  [] OTHER -> pc[m]
<1>1. CASE self.timer = 0 \/ m = t
  BY <1>1 DEF Cleared, PcType
<1>2. CASE ~(self.timer = 0 \/ m = t)
  <2>1. self.timer \in Starts
    BY <1>2, SessionAssumption DEF SelfType, Starts
  <2>2. m \in Task /\ m # Client /\ \A n \in Starts : m # Worker(n)
    BY <2>1, TaskFacts
  <2>3. v = pc[m] \/ v \in {"done", "cancelled"}
    OBVIOUS
  <2>4. v \in Labels
    <3>1. pc[m] \in Labels /\ "done" \in Labels /\ "cancelled" \in Labels
      BY <2>2 DEF PcType, Labels
    <3> HIDE DEF v, m
    <3> QED
      BY <2>3, <3>1
  <2>5. Cleared(t) = [pc EXCEPT ![m] = v]
    BY <1>2 DEF Cleared
  <2> HIDE DEF m, v
  <2> QED
    BY <2>2, <2>3, <2>4, <2>5, TaskFacts DEF PcType
<1> QED
  BY <1>1, <1>2

(***************************************************************************)
(* How the methods of a session end, seen from the lock.                   *)
(***************************************************************************)

\* The labels p differ from pc in no way that takes a task other than t
\* into a locked block, or the client to start().
Harmless(p, t) ==
    /\ p \in [Task -> Labels]
    /\ \A u \in Task \ {t} : p[u] \in Inside => pc[u] \in Inside
    /\ t # Client /\ p[Client] = "start" => pc[Client] = "start"

LEMMA HarmlessPc ==
    ASSUME BaseTypeOK, NEW t
    PROVE  Harmless(pc, t) /\ Harmless(Cleared(t), t)
<1>1. "done" \notin Inside /\ "cancelled" \notin Inside
  BY DEF Inside
<1> QED
  BY <1>1, TypeParts, ClearedFacts DEF Harmless, PcType

\* What a step of t that calls no method twice leaves true.
Kept == /\ SelfType' /\ PcType' /\ LockType' /\ CmdType' /\ LockExclusive'
        /\ pc'[Client] = "start" => pc[Client] = "start"

LEMMA ReturnKeeps ==
    ASSUME BaseTypeOK, LockExclusive, NEW t \in Task, holder = t, Return(t)
    PROVE  Kept
<1> USE TypeParts
<1>1. LockType'
  BY ReleaseType DEF Return
<1>2. CmdType'
  BY DEF Return, Forget, CmdType, NoCommand
<1>3. SelfType'
  BY DEF Return, SelfType
<1>4. PcType' /\ pc'[t] \in {"read", "done"}
      /\ \A u \in Task \ {t} : pc'[u] = pc[u] \/ pc'[u] = "create"
  <2>1. CASE t = Client /\ Spawns
    <3>1. Worker(self.capture) # t
      BY <2>1, TaskFacts
    <3>2. pc' = [pc EXCEPT ![t] = "read", ![Worker(self.capture)] = "create"]
      BY <2>1 DEF Return
    <3>3. "read" \in Labels /\ "create" \in Labels
      BY DEF Labels
    <3> QED
      BY <3>1, <3>2, <3>3 DEF PcType
  <2>2. CASE ~(t = Client /\ Spawns)
    <3>1. "read" \in Labels /\ "done" \in Labels
      BY DEF Labels
    <3> QED
      BY <2>2, <3>1 DEF Return, Goto, PcType
  <2> QED
    BY <2>1, <2>2
<1>5. LockExclusive'
  <2>1. {"read", "done", "create"} \cap Inside = {}
    BY DEF Inside
  <2> QED
    BY <1>4, <2>1, HolderSteps
<1> QED
  BY <1>1, <1>2, <1>3, <1>4, <1>5, TaskFacts DEF Kept

LEMMA RaiseKeeps ==
    ASSUME BaseTypeOK, LockExclusive, NEW t \in Task, holder = t,
           NEW p, Harmless(p, t), Raise(t, p)
    PROVE  /\ PcType' /\ LockType' /\ CmdType' /\ LockExclusive'
           /\ pc'[Client] = "start" => pc[Client] = "start"
<1> USE TypeParts
<1>1. LockType'
  BY ReleaseType, ReacquireType DEF Raise
<1>2. CmdType'
  BY DEF Raise, Forget, CmdType, NoCommand
<1>3. PcType' /\ pc'[t] \in {"close", "done"} /\ \A u \in Task \ {t} : pc'[u] = p[u]
  <2>1. "close" \in Labels /\ "done" \in Labels
    BY DEF Labels
  <2> QED
    BY <2>1 DEF Raise, Harmless, PcType
<1>4. LockExclusive'
  <2>1. {"close", "done"} \cap Inside = {}
    BY DEF Inside
  <2> QED
    BY <1>3, <2>1, HolderSteps DEF Harmless
<1> QED
  BY <1>1, <1>2, <1>3, <1>4, TaskFacts DEF Harmless

LEMMA ReplyKeeps ==
    ASSUME BaseTypeOK, LockExclusive, NEW t \in Task, holder = t,
           NEW i, NEW kind \in {"recording", "transcribing", "refused", "error",
                                "cancelled", "finished"},
           NEW p, Harmless(p, t), Reply(t, i, kind, p)
    PROVE  /\ PcType' /\ LockType' /\ CmdType' /\ LockExclusive' /\ ToldType'
           /\ pc'[Client] = "start" => pc[Client] = "start"
<1> USE TypeParts
<1>1. CASE CanWrite
  <2>1. ToldType' /\ LockType' /\ CmdType' /\ holder' = t
    BY <1>1, TellType DEF Reply, LockType, CmdType, lockVars
  <2>2. PcType' /\ pc'[t] = "reply" /\ \A u \in Task \ {t} : pc'[u] = p[u]
    BY <1>1 DEF Reply, Harmless, PcType, Labels, Inside
  <2>3. LockExclusive'
    BY <2>1, <2>2, HolderSteps DEF Harmless
  <2> QED
    BY <2>1, <2>2, <2>3, TaskFacts DEF Harmless
<1>2. CASE ~CanWrite
  BY <1>2, RaiseKeeps DEF Reply, ToldType
<1> QED
  BY <1>1, <1>2

(***************************************************************************)
(* Every step of the shared part keeps types, exclusion and the bound.     *)
(***************************************************************************)

\* a step of t that holds the lock and goes on to label l without leaving it
LEMMA StayKeeps ==
    ASSUME BaseTypeOK, LockExclusive, NEW t \in Task, holder = t, UNCHANGED lockVars,
           NEW l \in Labels, NEW p, Harmless(p, t), pc' = [p EXCEPT ![t] = l]
    PROVE  PcType' /\ LockType' /\ LockExclusive'
           /\ (pc'[Client] = "start" => pc[Client] = "start" \/ (t = Client /\ l = "start"))
<1>1. LockType' /\ holder' = t
  BY TypeParts DEF LockType, lockVars
<1>2. PcType' /\ pc'[t] = l /\ \A u \in Task \ {t} : pc'[u] = p[u]
  BY DEF Harmless, PcType
<1>3. LockExclusive'
  BY <1>1, <1>2, HolderSteps DEF Harmless
<1> QED
  BY <1>1, <1>2, <1>3, TaskFacts DEF Harmless

\* a step of t that leaves the lock and goes on to label l outside
LEMMA LeaveKeeps ==
    ASSUME BaseTypeOK, LockExclusive, NEW t \in Task, holder = t,
           Release \/ Reacquire(t),
           NEW l \in Labels \ Inside, NEW p, Harmless(p, t), pc' = [p EXCEPT ![t] = l]
    PROVE  PcType' /\ LockType' /\ LockExclusive'
           /\ (pc'[Client] = "start" => pc[Client] = "start" \/ (t = Client /\ l = "start"))
<1>1. LockType'
  BY TypeParts, ReleaseType, ReacquireType
<1>2. PcType' /\ pc'[t] = l /\ \A u \in Task \ {t} : pc'[u] = p[u]
  BY DEF Harmless, PcType
<1>3. LockExclusive'
  BY <1>2, HolderSteps DEF Harmless
<1> QED
  BY <1>1, <1>2, <1>3, TaskFacts DEF Harmless

\* a step of t that is outside, stays outside and may ask for the lock
LEMMA OutsideKeeps ==
    ASSUME BaseTypeOK, LockExclusive, NEW t \in Task,
           Acquire(t) \/ UNCHANGED lockVars,
           NEW l \in Labels \ Inside, pc' = [pc EXCEPT ![t] = l]
    PROVE  PcType' /\ LockType' /\ LockExclusive'
           /\ (pc'[Client] = "start" => pc[Client] = "start" \/ (t = Client /\ l = "start"))
<1>1. LockType' /\ (holder # NoTask => holder' = holder)
  BY TypeParts, AcquireType DEF LockType, lockVars
<1>2. PcType' /\ pc'[t] = l /\ \A u \in Task \ {t} : pc'[u] = pc[u]
  BY TypeParts DEF PcType
<1>3. LockExclusive'
  BY <1>1, <1>2, WaiterSteps
<1> QED
  BY <1>1, <1>2, <1>3, TaskFacts

\* A task inside a locked block holds the lock.
LEMMA InsideHolds ==
    ASSUME LockExclusive, NEW t \in Task, pc[t] \in Inside
    PROVE  holder = t
BY DEF LockExclusive

LEMMA ReplySentKeeps ==
    ASSUME Sane, NEW t \in Task, ReplySent(t)
    PROVE  Sane'
<1> USE TypeParts, TypePartsNext
<1>1. holder = t
  BY InsideHolds DEF ReplySent, Inside, Sane
<1>2. /\ closed' = closed /\ commands' = commands /\ started' = started
      /\ RecordType' /\ CapType' /\ ToldType' /\ WireType'
  BY DEF ReplySent, Sane, RecordType, CapType, ToldType, WireType, Drained, DrainFails, wireVars
<1>3. CASE Return(t)
  BY <1>1, <1>2, <1>3, ReturnKeeps DEF Sane, Kept, StartsLeft
<1>4. CASE Raise(t, pc) /\ UNCHANGED self
  BY <1>1, <1>2, <1>4, RaiseKeeps, HarmlessPc DEF Sane, StartsLeft, SelfType
<1> QED
  BY <1>3, <1>4 DEF ReplySent

LEMMA ClientReadsKeeps ==
    ASSUME Sane, ClientReads
    PROVE  Sane'
<1> USE TypeParts, TypePartsNext, TaskFacts
<1>1. /\ closed' = closed /\ started' = started /\ RecordType' /\ CapType' /\ ToldType'
      /\ WireType' /\ SelfType' /\ commands' \in Nat
  BY DEF ClientReads, ReadCommand, ReadBadLine, Sane, RecordType, CapType, ToldType,
         WireType, SelfType, wireVars
<1>2. ASSUME NEW kind \in Kinds, NEW i \in Ids, ReadCommand(kind, i)
      PROVE  Sane'
  <2>1. CmdType'
    BY <1>2 DEF ReadCommand, CmdType
  <2>2. kind \in Labels \ Inside
    BY DEF Kinds, Labels, Inside
  <2>3. PcType' /\ LockType' /\ LockExclusive'
        /\ (pc'[Client] = "start" => pc[Client] = "start" \/ kind = "start")
    BY <1>2, <2>2, OutsideKeeps DEF ReadCommand, Goto, Sane
  <2>4. kind = "start" => started < MaxStarts
    BY <1>2 DEF ReadCommand
  <2> QED
    BY <1>1, <2>1, <2>3, <2>4 DEF Sane, StartsLeft
<1>3. CASE ReadBadLine
  <2>1. CmdType'
    <3>1. TooLong \in [kind : Kinds \cup {"none", "too long"}, id : Ids \cup {NoId}]
      BY DEF TooLong
    <3>2. cmd' \in {cmd, TooLong}
      BY <1>3 DEF ReadBadLine
    <3> QED
      BY <3>1, <3>2 DEF Sane, CmdType
  <2>2. PICK l \in {"badline", "overlong", "close"} :
          (Acquire(Client) \/ UNCHANGED lockVars) /\ pc' = [pc EXCEPT ![Client] = l]
    BY <1>3 DEF ReadBadLine, Goto
  <2>3. l \in Labels \ Inside /\ l # "start"
    BY DEF Labels, Inside
  <2>4. PcType' /\ LockType' /\ LockExclusive'
        /\ (pc'[Client] = "start" => pc[Client] = "start" \/ l = "start")
    BY <2>2, <2>3, OutsideKeeps DEF Sane
  <2> QED
    BY <1>1, <2>1, <2>3, <2>4 DEF Sane, StartsLeft
<1> QED
  BY <1>2, <1>3 DEF ClientReads

\* Replacing one capture by a capture keeps the type of cap.
LEMMA CapStep ==
    ASSUME CapType, NEW n, NEW c, n \in Starts => c \in Capture,
           cap' = [cap EXCEPT ![n] = c]
    PROVE  CapType'
BY DEF CapType

LEMMA StartKeeps ==
    ASSUME Sane,
           \/ StartClosed \/ StartRefused \/ StartOpens \/ StartFails
           \/ \E limited \in BOOLEAN : StartRecords(limited)
    PROVE  Sane'
<1> USE TypeParts, TypePartsNext, TaskFacts DEF Sane
<1> SUFFICES SelfType' /\ RecordType' /\ CapType' /\ PcType' /\ LockType' /\ CmdType'
             /\ ToldType' /\ LockExclusive' /\ StartsLeft'
             /\ UNCHANGED <<closed, commands, wireVars>>
  BY DEF WireType, wireVars
<1>0. UNCHANGED <<closed, commands, wireVars>>
  BY DEF StartClosed, StartRefused, StartOpens, StartFails, StartRecords, lineVars
<1>1. CASE StartClosed
  <2>1. Kept
    BY <1>1, ReturnKeeps DEF StartClosed, Holds
  <2> QED
    BY <1>0, <1>1, <2>1
    DEF StartClosed, Kept, RecordType, CapType, ToldType, StartsLeft
<1>2. CASE StartRefused
  <2>1. PcType' /\ LockType' /\ CmdType' /\ LockExclusive' /\ ToldType'
        /\ (pc'[Client] = "start" => pc[Client] = "start")
    BY <1>2, ReplyKeeps, HarmlessPc DEF StartRefused, Holds
  <2> QED
    BY <1>0, <1>2, <2>1 DEF StartRefused, SelfType, RecordType, CapType, StartsLeft
<1>3. CASE StartOpens
  <2>1. started + 1 \in Starts /\ cmd.id \in Ids \cup {NoId}
    <3>1. started < MaxStarts
      BY <1>3 DEF StartOpens, Holds, StartsLeft
    <3>2. cmd.id \in Ids \cup {NoId}
      BY DEF CmdType
    <3> QED
      BY <3>1, <3>2, SessionAssumption DEF RecordType, Starts
  <2>2. SelfType'
    <3> DEFINE k == started + 1
    <3>1. k \in 0 .. MaxStarts
      BY <2>1, SessionAssumption DEF Starts
    <3>2. self' = [self EXCEPT !.capture = k, !.id = cmd.id]
      BY <1>3 DEF StartOpens
    <3> HIDE DEF k
    <3> QED
      BY <2>1, <3>1, <3>2 DEF SelfType
  <2>3. RecordType'
    BY <1>3, <2>1, SessionAssumption DEF StartOpens, RecordType, Starts
  <2>4. PcType' /\ LockType' /\ LockExclusive' /\ pc'[Client] = "opening"
    <3>1. "opening" \in Labels
      BY DEF Labels, Inside
    <3>2. PcType' /\ LockType' /\ LockExclusive'
      BY <1>3, <3>1, StayKeeps, HarmlessPc DEF StartOpens, Holds, Goto
    <3> QED
      BY <1>3, <3>2 DEF StartOpens, Goto, PcType
  <2> QED
    BY <1>0, <1>3, <2>2, <2>3, <2>4
    DEF StartOpens, CapType, CmdType, ToldType, StartsLeft, lineVars
<1>4. CASE StartFails
  <2>1. holder = Client
    BY <1>4, InsideHolds DEF StartFails, Inside
  <2>2. PcType' /\ LockType' /\ CmdType' /\ LockExclusive' /\ ToldType'
        /\ (pc'[Client] = "start" => pc[Client] = "start")
    BY <1>4, <2>1, ReplyKeeps, HarmlessPc DEF StartFails
  <2>3. CapType'
    BY <1>4, CapStep, CaptureTypes DEF StartFails, CapType
  <2>4. SelfType'
    BY <1>4, IdleType DEF StartFails, SelfType, SelfSet
  <2> QED
    BY <1>0, <1>4, <2>2, <2>3, <2>4 DEF StartFails, RecordType, StartsLeft
<1>5. ASSUME NEW limited \in BOOLEAN, StartRecords(limited)
      PROVE  SelfType' /\ RecordType' /\ CapType' /\ PcType' /\ LockType' /\ CmdType'
             /\ ToldType' /\ LockExclusive' /\ StartsLeft'
             /\ UNCHANGED <<closed, commands, wireVars>>
  <2>1. holder = Client
    BY <1>5, InsideHolds DEF StartRecords, Inside
  <2> DEFINE p == IF limited THEN [pc EXCEPT ![Timer(started)] = "sleep"] ELSE pc
  <2>2. Harmless(p, Client)
    <3>1. "sleep" \in Labels \ Inside
      BY DEF Labels, Inside
    <3> QED
      BY <3>1 DEF Harmless, PcType
  <2>3. Reply(Client, cmd.id, "recording", p)
    BY <1>5 DEF StartRecords
  <2>4. PcType' /\ LockType' /\ CmdType' /\ LockExclusive' /\ ToldType'
        /\ (pc'[Client] = "start" => pc[Client] = "start")
    <3> HIDE DEF p
    <3> QED
      BY <2>1, <2>2, <2>3, ReplyKeeps
  <2>5. CapType'
    BY <1>5, CapStep, CaptureTypes DEF StartRecords, CapType
  <2>6. SelfType'
    <3> DEFINE k == IF limited THEN started ELSE 0
    <3>1. k \in 0 .. MaxStarts
      BY SessionAssumption DEF RecordType
    <3>2. self' = [self EXCEPT !.phase = "recording", !.timer = k]
      BY <1>5 DEF StartRecords
    <3> HIDE DEF k
    <3> QED
      BY <3>1, <3>2 DEF SelfType, Phases
  <2> QED
    BY <1>0, <1>5, <2>4, <2>5, <2>6 DEF StartRecords, RecordType, StartsLeft
<1> QED
  BY <1>1, <1>2, <1>3, <1>4, <1>5

\* Clearing the timer attribute keeps the type.
LEMMA TimerOffType ==
    ASSUME SelfType
    PROVE  [self EXCEPT !.timer = 0] \in SelfSet
<1>1. 0 \in 0 .. MaxStarts
  BY SessionAssumption
<1> QED
  BY <1>1 DEF SelfType, SelfSet

LEMMA CancelKeeps ==
    ASSUME Sane,
           \/ CancelClosed \/ CancelRefused \/ CancelBegins \/ CancelsRecognition
           \/ CancelEnds
    PROVE  Sane'
<1> USE TypeParts, TypePartsNext, TaskFacts DEF Sane
<1> SUFFICES SelfType' /\ CapType' /\ PcType' /\ LockType' /\ CmdType' /\ ToldType'
             /\ LockExclusive' /\ (pc'[Client] = "start" => pc[Client] = "start")
  <2>1. UNCHANGED <<closed, started, sid, commands, wireVars>>
    BY DEF CancelClosed, CancelRefused, CancelBegins, CancelsRecognition, CancelEnds,
           lineVars
  <2> QED
    BY <2>1 DEF RecordType, WireType, wireVars, StartsLeft
<1>1. CASE CancelClosed
  <2>1. Kept
    BY <1>1, ReturnKeeps DEF CancelClosed, Holds
  <2> QED
    BY <1>1, <2>1 DEF CancelClosed, Kept, CapType, ToldType
<1>2. CASE CancelRefused
  <2>1. PcType' /\ LockType' /\ CmdType' /\ LockExclusive' /\ ToldType'
        /\ (pc'[Client] = "start" => pc[Client] = "start")
    BY <1>2, ReplyKeeps, HarmlessPc DEF CancelRefused, Holds
  <2> QED
    BY <1>2, <2>1 DEF CancelRefused, SelfType, CapType
<1>3. CASE CancelBegins
  <2>1. SelfType' /\ CapType'
    BY <1>3, TimerOffType, CapStep, CaptureTypes DEF CancelBegins, SelfType, SelfSet, CapType
  <2>2. "cancelling" \in Labels
    BY DEF Labels, Inside
  <2>3. PcType' /\ LockType' /\ LockExclusive'
        /\ (pc'[Client] = "start" => pc[Client] = "start")
    BY <1>3, <2>2, StayKeeps, HarmlessPc DEF CancelBegins, Cancels, Holds
  <2> QED
    BY <1>3, <2>1, <2>3 DEF CancelBegins, CmdType, ToldType, lineVars
<1>4. CASE CancelsRecognition
  <2>1. PcType' /\ LockType' /\ CmdType' /\ LockExclusive' /\ ToldType'
        /\ (pc'[Client] = "start" => pc[Client] = "start")
    BY <1>4, ReplyKeeps, HarmlessPc DEF CancelsRecognition, Cancels, Holds
  <2> QED
    BY <1>4, <2>1, IdleType DEF CancelsRecognition, SelfType, SelfSet, CapType
<1>5. CASE CancelEnds
  <2>1. holder = Client
    BY <1>5, InsideHolds DEF CancelEnds, Inside
  <2>2. PcType' /\ LockType' /\ CmdType' /\ LockExclusive' /\ ToldType'
        /\ (pc'[Client] = "start" => pc[Client] = "start")
    BY <1>5, <2>1, ReplyKeeps, HarmlessPc DEF CancelEnds
  <2>3. SelfType' /\ CapType'
    BY <1>5, IdleType, CapStep, CaptureTypes DEF CancelEnds, SelfType, SelfSet, CapType
  <2> QED
    BY <2>2, <2>3
<1> QED
  BY <1>1, <1>2, <1>3, <1>4, <1>5

LEMMA CloseKeeps ==
    ASSUME Sane, CloseBegins \/ CloseEnds \/ CloseJoins
    PROVE  Sane'
<1> USE TypeParts, TypePartsNext, TaskFacts DEF Sane
<1> SUFFICES SelfType' /\ CapType' /\ PcType' /\ LockType' /\ WireType' /\ closed' \in BOOLEAN
             /\ LockExclusive' /\ (pc'[Client] = "start" => pc[Client] = "start")
  <2>1. UNCHANGED <<started, sid, lineVars, told>>
    BY DEF CloseBegins, CloseEnds, CloseJoins
  <2> QED
    BY <2>1 DEF RecordType, CmdType, ToldType, lineVars, StartsLeft
<1>1. CASE CloseBegins
  <2>1. WireType' /\ closed' \in BOOLEAN /\ holder = Client
    BY <1>1 DEF CloseBegins, Holds, WireType, wireVars
  <2>2. CASE self.capture # 0
    <3>1. SelfType' /\ CapType'
      BY <1>1, <2>2, TimerOffType, CapStep, CaptureTypes
      DEF CloseBegins, SelfType, SelfSet, CapType
    <3>2. "closing" \in Labels
      BY DEF Labels, Inside
    <3>3. PcType' /\ LockType' /\ LockExclusive'
          /\ (pc'[Client] = "start" => pc[Client] = "start")
      BY <1>1, <2>1, <2>2, <3>2, StayKeeps, HarmlessPc DEF CloseBegins
    <3> QED
      BY <2>1, <3>1, <3>3
  <2>3. CASE self.capture = 0
    <3>1. SelfType' /\ CapType'
      BY <1>1, <2>3, IdleType DEF CloseBegins, SelfType, SelfSet, CapType
    <3>2. "join" \in Labels \ Inside
      BY DEF Labels, Inside
    <3>3. PcType' /\ LockType' /\ LockExclusive'
          /\ (pc'[Client] = "start" => pc[Client] = "start")
      BY <1>1, <2>1, <2>3, <3>2, LeaveKeeps, HarmlessPc DEF CloseBegins
    <3> QED
      BY <2>1, <3>1, <3>3
  <2> QED
    BY <2>2, <2>3
<1>2. CASE CloseEnds
  <2>1. holder = Client
    BY <1>2, InsideHolds DEF CloseEnds, Inside
  <2>2. "join" \in Labels \ Inside
    BY DEF Labels, Inside
  <2>3. PcType' /\ LockType' /\ LockExclusive'
        /\ (pc'[Client] = "start" => pc[Client] = "start")
    BY <1>2, <2>1, <2>2, LeaveKeeps, HarmlessPc DEF CloseEnds, Goto
  <2> QED
    BY <1>2, <2>3, IdleType, CapStep, CaptureTypes
    DEF CloseEnds, SelfType, SelfSet, CapType, WireType, wireVars
<1>3. CASE CloseJoins
  <2>1. "closed" \in Labels \ Inside
    BY DEF Labels, Inside
  <2>2. PcType' /\ LockType' /\ LockExclusive'
        /\ (pc'[Client] = "start" => pc[Client] = "start")
    BY <1>3, <2>1, OutsideKeeps DEF CloseJoins, Goto
  <2> QED
    BY <1>3, <2>2 DEF CloseJoins, SelfType, CapType, WireType
<1> QED
  BY <1>1, <1>2, <1>3

\* The remaining steps of the connection task and the timers.
LEMMA WaitKeeps ==
    ASSUME Sane, NEW n \in Starts,
           ReadEof \/ BadLineAnswered \/ TimerFires(n) \/ TimerDropped(n)
    PROVE  Sane'
<1> USE TypeParts, TypePartsNext, TaskFacts DEF Sane
<1> SUFFICES PcType' /\ LockType' /\ WireType' /\ LockExclusive'
             /\ (pc'[Client] = "start" => pc[Client] = "start")
  <2>1. UNCHANGED <<self, closed, started, sid, cap, lineVars, told>>
    BY DEF ReadEof, BadLineAnswered, TimerFires, TimerDropped
  <2> QED
    BY <2>1 DEF SelfType, RecordType, CapType, CmdType, ToldType, lineVars, StartsLeft
<1>1. WireType'
  BY DEF ReadEof, BadLineAnswered, TimerFires, TimerDropped, WireType, wireVars,
         Drained, DrainFails
<1>2. {"close", "read", "stop", "done"} \subseteq Labels \ Inside
  BY DEF Labels, Inside
<1>3. CASE ReadEof
  BY <1>1, <1>2, <1>3, OutsideKeeps DEF ReadEof, Goto
<1>4. CASE BadLineAnswered
  <2>1. PICK l \in {"read", "close"} :
        (Acquire(Client) \/ UNCHANGED lockVars) /\ pc' = [pc EXCEPT ![Client] = l]
    BY <1>4 DEF BadLineAnswered, Goto
  <2> QED
    BY <1>1, <1>2, <2>1, OutsideKeeps
<1>5. CASE TimerFires(n)
  BY <1>1, <1>2, <1>5, OutsideKeeps DEF TimerFires, Goto
<1>6. CASE TimerDropped(n)
  BY <1>1, <1>2, <1>6, LeaveKeeps, HarmlessPc DEF TimerDropped, Holds, Goto
<1> QED
  BY <1>3, <1>4, <1>5, <1>6

\* stop() where it changes nothing
LEMMA StopDeclinedKeeps ==
    ASSUME Sane, NEW t \in Task, StopIgnored(t) \/ StopRefused(t)
    PROVE  Sane'
<1> USE TypeParts, TypePartsNext, TaskFacts DEF Sane
<1>1. /\ holder = t
      /\ UNCHANGED <<closed, started, sid, cap, commands, wireVars>>
  BY DEF StopIgnored, StopRefused, Holds
<1>2. CASE StopIgnored(t)
  <2>1. Kept /\ UNCHANGED told
    BY <1>1, <1>2, ReturnKeeps DEF StopIgnored
  <2> QED
    BY <1>1, <2>1 DEF Kept, RecordType, CapType, ToldType, WireType, wireVars, StartsLeft
<1>3. CASE StopRefused(t)
  <2>1. PcType' /\ LockType' /\ CmdType' /\ LockExclusive' /\ ToldType'
        /\ (pc'[Client] = "start" => pc[Client] = "start")
    BY <1>1, <1>3, ReplyKeeps, HarmlessPc DEF StopRefused
  <2>2. UNCHANGED self
    BY <1>3 DEF StopRefused
  <2> QED
    BY <1>1, <2>1, <2>2
    DEF SelfType, RecordType, CapType, WireType, wireVars, StartsLeft
<1> QED
  BY <1>2, <1>3

LEMMA CaptureKeeps ==
    ASSUME Sane, NEW n \in Starts, CaptureStep(n)
    PROVE  Sane'
<1> USE TypeParts, TypePartsNext DEF Sane
<1>1. UNCHANGED <<self, closed, started, sid, pc, lockVars, lineVars, wireVars, told>>
  BY DEF CaptureStep
<1>2. CapType'
  <2>1. cap[n] \in Capture
    BY DEF CapType
  <2>2. PICK c \in Capture : cap' = [cap EXCEPT ![n] = c]
    BY <2>1, ReadType, CaptureTypes
    DEF CaptureStep, CaptureReads, CaptureExits, CaptureEnds
  <2> QED
    BY <2>2, CapStep
<1> QED
  BY <1>1, <1>2
  DEF SelfType, RecordType, PcType, LockType, lockVars, CmdType, lineVars, WireType,
      wireVars, ToldType, LockExclusive, StartsLeft

LEMMA PeerKeeps ==
    ASSUME Sane, PeerLeaves
    PROVE  Sane'
BY TypeParts, TypePartsNext
DEF Sane, PeerLeaves, SelfType, RecordType, CapType, PcType, LockType, lockVars,
    CmdType, lineVars, WireType, ToldType, LockExclusive, StartsLeft

LEMMA BaseStepKeeps ==
    ASSUME Sane, BaseStep
    PROVE  Sane'
<1>1. CASE ClientReads
  BY <1>1, ClientReadsKeeps
<1>2. CASE ClientRuns
  <2>1. 1 \in Starts
    BY SessionAssumption DEF Starts
  <2> QED
    BY <1>2, <2>1, TaskFacts, WaitKeeps, ReplySentKeeps, StartKeeps, CancelKeeps, CloseKeeps
    DEF ClientRuns
<1>3. CASE PeerLeaves
  BY <1>3, PeerKeeps
<1>4. ASSUME NEW n \in Starts, TimerRuns(n) \/ CaptureStep(n)
      PROVE  Sane'
  BY <1>4, TaskFacts, WaitKeeps, ReplySentKeeps, CaptureKeeps DEF TimerRuns
<1> QED
  BY <1>1, <1>2, <1>3, <1>4 DEF BaseStep

LEMMA SameSane ==
    ASSUME Sane, UNCHANGED baseVars
    PROVE  Sane'
<1> USE TypeParts, TypePartsNext DEF Sane
<1>1. SelfType' /\ closed' \in BOOLEAN /\ RecordType' /\ CapType'
  BY DEF baseVars, SelfType, RecordType, CapType
<1>2. PcType' /\ LockType' /\ CmdType'
  BY DEF baseVars, PcType, LockType, CmdType
<1>3. commands' \in Nat /\ WireType' /\ ToldType'
  BY DEF baseVars, WireType, ToldType
<1>4. LockExclusive' /\ StartsLeft'
  BY DEF baseVars, LockExclusive, StartsLeft
<1> QED
  BY <1>1, <1>2, <1>3, <1>4

LEMMA InitSane ==
    ASSUME Init
    PROVE  Sane
<1> USE SessionAssumption
<1>1. SelfType /\ RecordType /\ PcType /\ LockType /\ CmdType /\ WireType
  <2>1. SelfType /\ RecordType
    <3>1. 0 \in 0 .. MaxStarts
      OBVIOUS
    <3>2. SelfType
      BY <3>1 DEF Init, SelfType, Phases
    <3>3. RecordType
      BY DEF Init, RecordType
    <3> QED
      BY <3>2, <3>3
  <2>2. PcType
    BY DEF Init, PcType, Labels
  <2>3. LockType /\ CmdType /\ WireType
    BY DEF Init, LockType, CmdType, NoCommand, WireType
  <2> QED
    BY <2>1, <2>2, <2>3
<1>2. CapType
  <2>1. Fresh \in Capture
    BY DEF Fresh, Capture
  <2> QED
    BY <2>1 DEF Init, CapType
<1>3. ToldType
  BY DEF Init, ToldType
<1>4. closed \in BOOLEAN /\ commands \in Nat
  BY DEF Init
<1>5. LockExclusive /\ StartsLeft
  BY TaskFacts DEF Init, LockExclusive, StartsLeft, Inside
<1> QED
  BY <1>1, <1>2, <1>3, <1>4, <1>5, TypeParts DEF Sane

(***************************************************************************)
(* Where tasks wait, and what a step does to it                            *)
(***************************************************************************)

ClientPlaces == {"read", "badline", "overlong", "start", "stop", "cancel", "close", "join",
                 "closed", "opening", "reply", "cancelling", "closing", "stopping",
                 "announce"}
TimerPlaces == {"none", "sleep", "stop", "cancelled", "done", "stopping", "announce",
                "reply"}
Alive(n) == pc[Worker(n)] \notin {"none", "done"}
Opening == pc[Client] = "opening"
Engaged == self.phase # "idle"
Callers == {Client} \cup {Timer(n) : n \in Starts}

\* A call of stop() waits for the end of the capture.
Sealing == \E t \in Callers : pc[t] = "stopping"

\* t goes on to l; the other tasks stay where they are.
Moves(t, l) == pc'[t] = l /\ \A u \in Task \ {t} : pc'[u] = pc[u]

\* t goes on to l, and no timer but t's own is armed any more.
Clears(t, l) ==
    /\ pc'[t] = l
    /\ \A u \in Task \ {t} :
          \/ pc'[u] = pc[u]
          \/ pc[u] \in {"sleep", "stop"} /\ pc'[u] \in {"done", "cancelled"}
             /\ \E n \in Starts : u = Timer(n)
    /\ \A n \in Starts : Timer(n) # t => pc'[Timer(n)] \notin {"sleep", "stop"}

\* drain() may have failed.
WriterKept == writer' \in {writer, "closing"}

CommandStays == cmd' \in {cmd, NoCommand, TooLong}

LEMMA NotKinds == NoCommand.kind \notin Kinds /\ TooLong.kind \notin Kinds
BY DEF NoCommand, TooLong, Kinds

LEMMA MovesTo ==
    ASSUME PcType, NEW t \in Task, NEW l, pc' = [pc EXCEPT ![t] = l]
    PROVE  Moves(t, l)
BY DEF PcType, Moves

LEMMA ClearsTo ==
    ASSUME PcType, SelfType, TimerCurrent, NEW t \in Task, NEW l,
           pc' = [Cleared(t) EXCEPT ![t] = l]
    PROVE  Clears(t, l)
<1> DEFINE m == Timer(self.timer)
<1>1. Cleared(t) \in [Task -> Labels]
  BY ClearedFacts
<1>2. pc'[t] = l /\ \A u \in Task \ {t} : pc'[u] = Cleared(t)[u]
  BY <1>1
<1>3. \A n \in Starts : Timer(n) # m => pc[Timer(n)] \notin {"sleep", "stop"}
  BY DEF TimerCurrent
<1>4. CASE self.timer = 0 \/ m = t
  <2>1. Cleared(t) = pc
    BY <1>4 DEF Cleared
  <2>2. self.timer = 0 => \A n \in Starts : pc[Timer(n)] \notin {"sleep", "stop"}
    BY DEF TimerCurrent, Starts
  <2> QED
    BY <1>2, <1>3, <1>4, <2>1, <2>2, TaskFacts DEF Clears
<1>5. CASE ~(self.timer = 0 \/ m = t)
  <2>1. self.timer \in Starts /\ m \in Task
    BY <1>5, TaskFacts, SessionAssumption DEF SelfType, Starts
  <2>2. \A u \in Task : Cleared(t)[u] =
            IF u = m THEN CASE pc[m] = "sleep" -> "done" [] pc[m] = "stop" -> "cancelled"
                            [] OTHER -> pc[m]
            ELSE pc[u]
    BY <1>5, <2>1 DEF Cleared, PcType
  <2>3. \A u \in Task \ {t, m} : pc'[u] = pc[u]
    BY <1>2, <2>2
  <2>4. \/ pc[m] \notin {"sleep", "stop"} /\ pc'[m] = pc[m]
        \/ pc[m] \in {"sleep", "stop"} /\ pc'[m] \in {"done", "cancelled"}
    BY <1>2, <1>5, <2>1, <2>2
  <2> HIDE DEF m
  <2>5. \A n \in Starts : Timer(n) # t => pc'[Timer(n)] \notin {"sleep", "stop"}
    BY <1>3, <2>3, <2>4, TaskFacts
  <2>6. \E n \in Starts : m = Timer(n)
    BY <2>1 DEF m
  <2> QED
    BY <1>2, <2>3, <2>4, <2>5, <2>6 DEF Clears
<1> QED
  BY <1>4, <1>5

LEMMA Replied ==
    ASSUME NEW t \in Task, NEW p, NEW i \in Ids, NEW kind, Reply(t, i, kind, p)
    PROVE  \E l \in {"reply", "close", "done"} :
             /\ pc' = [p EXCEPT ![t] = l]
             /\ IF CanWrite
                THEN /\ l = "reply" /\ UNCHANGED cmd
                     /\ told' = [told EXCEPT ![i] = Hear(@, kind)]
                ELSE /\ l = IF t = Client THEN "close" ELSE "done"
                     /\ UNCHANGED told
                     /\ IF t = Client THEN CommandStays ELSE UNCHANGED cmd
BY DEF Reply, Tell, Raise, Forget, CommandStays

(***************************************************************************)
(* Why the connection task leaves                                          *)
(***************************************************************************)

\* close() is called for a client that cannot be reached, or after a line
\* that was too long.
Leaving ==
    /\ pc[Client] = "overlong" => cmd = TooLong
    /\ pc[Client] \in {"close", "closing"} =>
          cmd = TooLong \/ peer = "gone" \/ writer = "closing"

\* A client that is gone stays gone, and a writer that is closing stays so.
WireFalls == /\ peer = "gone" => peer' = "gone"
             /\ writer = "closing" => writer' = "closing"

\* The connection task stays where it is.
LEMMA Remains ==
    ASSUME Leaving, pc'[Client] = pc[Client], UNCHANGED cmd, WireFalls
    PROVE  Leaving'
BY DEF Leaving, WireFalls

\* The connection task goes on to a place that is not on its way out.
LEMMA GoesOn ==
    ASSUME pc'[Client] \notin {"overlong", "close", "closing"}
    PROVE  Leaving'
BY DEF Leaving

LEMMA ReturnLeaves ==
    ASSUME Leaving, PcType, NEW t \in Task, Return(t), WireFalls
    PROVE  Leaving'
<1>1. CASE t = Client
  <2>1. pc'[Client] = "read"
    BY <1>1, TaskFacts DEF Return, Goto, PcType
  <2> QED
    BY <2>1, GoesOn
<1>2. CASE t # Client
  <2>1. pc'[Client] = pc[Client] /\ UNCHANGED cmd
    BY <1>2, TaskFacts DEF Return, Goto, Forget, PcType
  <2> QED
    BY <2>1, Remains
<1> QED
  BY <1>1, <1>2

LEMMA RaiseLeaves ==
    ASSUME Leaving, NEW t \in Task, NEW p \in [Task -> Labels], t # Client => p[Client] = pc[Client],
           Raise(t, p), WireFalls, writer' = "closing"
    PROVE  Leaving'
<1>1. CASE t = Client
  <2>1. pc'[Client] = "close"
    BY <1>1, TaskFacts DEF Raise
  <2> QED
    BY <2>1 DEF Leaving
<1>2. CASE t # Client
  <2>1. pc'[Client] = pc[Client] /\ UNCHANGED cmd
    BY <1>2, TaskFacts DEF Raise, Forget
  <2> QED
    BY <2>1, Remains
<1> QED
  BY <1>1, <1>2

LEMMA ReplyLeaves ==
    ASSUME Leaving, WireType, NEW t \in Task, NEW p \in [Task -> Labels],
           t # Client => p[Client] = pc[Client], NEW i, NEW kind,
           Reply(t, i, kind, p), UNCHANGED wireVars
    PROVE  Leaving'
<1>1. WireFalls
  BY DEF WireFalls, wireVars
<1>2. CASE CanWrite
  <2>1. pc'[t] = "reply" /\ UNCHANGED cmd /\ (t # Client => pc'[Client] = pc[Client])
    BY <1>2, TaskFacts DEF Reply
  <2> QED
    BY <1>1, <2>1, Remains, GoesOn
<1>3. CASE ~CanWrite
  <2>1. Raise(t, p) /\ writer' = "closing"
    BY <1>3 DEF Reply, CanWrite, WireType, wireVars
  <2> QED
    BY <1>1, <2>1, RaiseLeaves
<1> QED
  BY <1>2, <1>3

LEMMA InitLeaves ==
    ASSUME Init
    PROVE  Leaving
BY TaskFacts DEF Init, Leaving

\* Every step of the shared part.
LEMMA BaseLeaves ==
    ASSUME Sane, Leaving, BaseStep
    PROVE  Leaving'
<1> USE TaskFacts
<1>1. PcType /\ SelfType /\ WireType /\ pc \in [Task -> Labels]
  BY TypeParts DEF Sane, PcType
<1>2. CASE ClientReads \/ ReadEof \/ BadLineAnswered
  <2>1. ASSUME NEW kind \in Kinds, NEW i \in Ids, ReadCommand(kind, i)
        PROVE  Leaving'
    BY <1>1, <2>1, GoesOn DEF ReadCommand, Goto, PcType, Kinds
  <2>2. CASE ReadBadLine
    <3>1. UNCHANGED wireVars /\ (CanWrite \/ writer' = "closing")
      BY <1>1, <2>2 DEF ReadBadLine, CanWrite, WireType, wireVars
    <3> QED
      BY <1>1, <2>2, <3>1 DEF ReadBadLine, Goto, PcType, Leaving
  <2>3. CASE ReadEof
    BY <1>1, <2>3 DEF ReadEof, Goto, PcType, Leaving, wireVars
  <2>4. CASE BadLineAnswered
    BY <1>1, <2>4 DEF BadLineAnswered, DrainFails, Goto, PcType, Leaving, lineVars
  <2> QED
    BY <1>2, <2>1, <2>2, <2>3, <2>4 DEF ClientReads
<1>3. ASSUME NEW t \in Task, ReplySent(t)
      PROVE  Leaving'
  <2>1. CASE Drained /\ Return(t)
    <3>1. WireFalls
      BY <2>1 DEF Drained, WireFalls, wireVars
    <3> QED
      BY <1>1, <2>1, <3>1, ReturnLeaves
  <2>2. CASE DrainFails /\ Raise(t, pc)
    <3>1. WireFalls /\ writer' = "closing"
      BY <2>2 DEF DrainFails, WireFalls
    <3> QED
      BY <1>1, <2>2, <3>1, RaiseLeaves
  <2> QED
    BY <1>3, <2>1, <2>2 DEF ReplySent
<1>4. CASE StartClosed \/ CancelClosed
  <2>1. Return(Client) /\ WireFalls
    BY <1>4 DEF StartClosed, CancelClosed, WireFalls, wireVars
  <2> QED
    BY <1>1, <2>1, ReturnLeaves
<1>5. CASE StartRefused \/ CancelRefused \/ StartFails \/ CancelEnds
  <2>1. PICK i, kind : Reply(Client, i, kind, pc) /\ UNCHANGED wireVars
    BY <1>5 DEF StartRefused, CancelRefused, StartFails, CancelEnds
  <2> QED
    BY <1>1, <2>1, ReplyLeaves
<1>6. ASSUME NEW limited \in BOOLEAN, StartRecords(limited)
      PROVE  Leaving'
  <2> DEFINE p == IF limited THEN [pc EXCEPT ![Timer(started)] = "sleep"] ELSE pc
  <2>1. "sleep" \in Labels
    BY DEF Labels
  <2>2. p \in [Task -> Labels]
    BY <1>1, <2>1
  <2>3. Reply(Client, cmd.id, "recording", p) /\ UNCHANGED wireVars
    BY <1>6 DEF StartRecords
  <2> HIDE DEF p
  <2> QED
    BY <1>1, <2>2, <2>3, ReplyLeaves
<1>7. CASE CancelsRecognition
  <2>1. Reply(Client, cmd.id, "cancelled", Cleared(Client)) /\ UNCHANGED wireVars
    BY <1>7 DEF CancelsRecognition
  <2> QED
    BY <1>1, <2>1, ClearedFacts, ReplyLeaves
<1>8. CASE StartOpens \/ CancelBegins \/ CloseJoins \/ CloseEnds
  <2>1. pc'[Client] \in {"opening", "cancelling", "closed", "join"}
    BY <1>1, <1>8, ClearedFacts
    DEF StartOpens, CancelBegins, CloseJoins, CloseEnds, Goto, PcType
  <2> QED
    BY <2>1, GoesOn
<1>9. CASE CloseBegins
  <2>1. pc[Client] = "close" /\ UNCHANGED <<cmd, peer, writer>>
    BY <1>9 DEF CloseBegins, Holds, lineVars, wireVars
  <2>2. pc'[Client] \in {"closing", "join"}
    BY <1>1, <1>9, ClearedFacts DEF CloseBegins, PcType
  <2> QED
    BY <2>1, <2>2 DEF Leaving
<1>10. ASSUME NEW n \in Starts, TimerFires(n) \/ TimerDropped(n) \/ CaptureStep(n)
       PROVE  Leaving'
  <2>1. pc'[Client] = pc[Client] /\ UNCHANGED cmd /\ WireFalls
    BY <1>1, <1>10
    DEF TimerFires, TimerDropped, CaptureStep, Goto, PcType, WireFalls, lineVars, wireVars
  <2> QED
    BY <2>1, Remains
<1>11. CASE PeerLeaves
  <2>1. UNCHANGED <<pc, cmd>> /\ WireFalls
    BY <1>11 DEF PeerLeaves, WireFalls, lineVars
  <2> QED
    BY <2>1, Remains
<1> QED
  BY <1>2, <1>3, <1>4, <1>5, <1>6, <1>7, <1>8, <1>9, <1>10, <1>11
  DEF BaseStep, ClientRuns, TimerRuns

(***************************************************************************)
(* What a step tells the client                                            *)
(***************************************************************************)

\* No id hears that it is idle.
Named == \A i \in Ids : told[i].phase # "idle"

Quiet == UNCHANGED told /\ (closed => closed')

\* A step that says nothing, or one event of the promise.
Promised == Quiet \/ (UNCHANGED closed /\ \E i \in Ids : Promise!Speak(i))
=============================================================================
