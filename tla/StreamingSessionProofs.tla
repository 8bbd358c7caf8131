----------------------- MODULE StreamingSessionProofs -----------------------
(***************************************************************************)
(* A streaming session, for any number of recordings, commands, chunks and *)
(* decoder results: its types and mutual exclusion, then its recordings    *)
(* kept apart (one microphone, one worker, one timer, and the events of    *)
(* each id in the promised order).                                         *)
(***************************************************************************)
EXTENDS StreamingSession, SessionProofs

RunSet == [segment : Nat, seq : Nat, previous : {"none", "text"},
           results : Seq({"partial", "final"}), stage : {"accept", "finish"}]

RunType == run \in [Starts -> RunSet]

\* The suspensions of publish() at which a result is being dealt with.
Dealing == {"emit", "finalize", "emitting"}

\* publish() is only there with a result left.
ResultLeft == \A n \in Starts : pc[Worker(n)] \in Dealing => run[n].results # <<>>

Inv == Sane /\ RunType /\ ResultLeft

\* What a step of the connection or of a timer does to the workers.
WorkersKept == \A n \in Starts : pc'[Worker(n)] \in {pc[Worker(n)], "create"}

LEMMA SpawnKeepsWorkers ==
    ASSUME Sane, NEW t \in {Client} \cup {Timer(n) : n \in Starts},
           \/ Return(t)
           \/ Raise(t, pc) \/ Raise(t, Cleared(t))
    PROVE  WorkersKept
<1> USE TypeParts, TaskFacts DEF Sane
<1>1. PcType /\ SelfType /\ t \in Task /\ \A n \in Starts : t # Worker(n)
  BY DEF Task
<1>2. CASE Return(t)
  BY <1>1, <1>2 DEF Return, Goto, WorkersKept, PcType
<1>3. CASE Raise(t, pc) \/ Raise(t, Cleared(t))
  BY <1>1, <1>3, ClearedFacts DEF Raise, WorkersKept, PcType
<1> QED
  BY <1>2, <1>3

LEMMA ReplyKeepsWorkers ==
    ASSUME Sane, NEW t \in {Client} \cup {Timer(n) : n \in Starts}, NEW i, NEW kind,
           NEW p, p \in [Task -> Labels],
           \A n \in Starts : p[Worker(n)] = pc[Worker(n)],
           Reply(t, i, kind, p)
    PROVE  WorkersKept
<1>1. t \in Task /\ \A n \in Starts : Worker(n) \in Task /\ t # Worker(n)
  BY TaskFacts DEF Task
<1> QED
  BY <1>1 DEF Reply, Raise, WorkersKept

LEMMA BaseKeepsWorkers ==
    ASSUME Sane, BaseStep
    PROVE  WorkersKept
<1> USE TypeParts, TaskFacts DEF Sane
<1> DEFINE Others == {Client} \cup {Timer(n) : n \in Starts}
<1>1. PcType /\ SelfType /\ Others \subseteq Task
      /\ \A t \in Others, n \in Starts : t # Worker(n)
  BY DEF Task
<1>2. ASSUME NEW t \in Others, NEW p \in [Task -> Labels],
             \A n \in Starts : p[Worker(n)] = pc[Worker(n)],
             NEW l, pc' = [p EXCEPT ![t] = l]
      PROVE  WorkersKept
  BY <1>1, <1>2 DEF WorkersKept
<1>3. \A t \in Others : ReplySent(t) => WorkersKept
  BY SpawnKeepsWorkers DEF ReplySent
<1>4. ClientReads => WorkersKept
  BY <1>1, <1>2 DEF ClientReads, ReadCommand, ReadBadLine, Goto, PcType
<1>5. ReadEof \/ BadLineAnswered \/ CloseEnds \/ CloseJoins \/ StartOpens => WorkersKept
  BY <1>1, <1>2 DEF ReadEof, BadLineAnswered, CloseEnds, CloseJoins, StartOpens, Goto, PcType
<1>6. CancelBegins \/ CloseBegins => WorkersKept
  BY <1>1, <1>2, ClearedFacts DEF CancelBegins, CloseBegins
<1>7. StartClosed \/ CancelClosed => WorkersKept
  BY SpawnKeepsWorkers DEF StartClosed, CancelClosed
<1>8. StartRefused \/ StartFails \/ CancelRefused \/ CancelEnds => WorkersKept
  BY <1>1, ReplyKeepsWorkers DEF StartRefused, StartFails, CancelRefused, CancelEnds, PcType
<1>9. CancelsRecognition => WorkersKept
  BY <1>1, ReplyKeepsWorkers, ClearedFacts DEF CancelsRecognition
<1>10. ASSUME NEW limited \in BOOLEAN, StartRecords(limited)
       PROVE  WorkersKept
  <2> DEFINE p == IF limited THEN [pc EXCEPT ![Timer(started)] = "sleep"] ELSE pc
  <2>1. p \in [Task -> Labels] /\ \A n \in Starts : p[Worker(n)] = pc[Worker(n)]
    <3>1. "sleep" \in Labels
      BY DEF Labels
    <3>2. \A n \in Starts : Timer(started) # Worker(n)
      BY DEF Timer, Worker
    <3> QED
      BY <3>1, <3>2 DEF PcType
  <2>2. Reply(Client, cmd.id, "recording", p)
    BY <1>10 DEF StartRecords
  <2> HIDE DEF p
  <2> QED
    BY <2>1, <2>2, ReplyKeepsWorkers
<1>11. \A n \in Starts : TimerFires(n) \/ TimerDropped(n) => WorkersKept
  BY <1>1, <1>2 DEF TimerFires, TimerDropped, Goto, PcType
<1>12. PeerLeaves \/ (\E n \in Starts : CaptureStep(n)) => WorkersKept
  BY DEF PeerLeaves, CaptureStep, WorkersKept
<1> QED
  BY <1>3, <1>4, <1>5, <1>6, <1>7, <1>8, <1>9, <1>10, <1>11, <1>12
  DEF BaseStep, ClientRuns, TimerRuns

(***************************************************************************)
(* stop(), called by the connection task or by a timer                     *)
(***************************************************************************)

LEMMA DroppedType ==
    ASSUME CapType, cap' = CaptureDropped
    PROVE  CapType'
<1>1. \A c \in Capture : Emptied(CancelBegun(c)) \in Capture
  BY CaptureTypes
<1>2. self.capture \in Starts => Emptied(CancelBegun(cap[self.capture])) \in Capture
  BY <1>1 DEF CapType
<1> QED
  BY <1>2, CapStep DEF CaptureDropped

LEMMA StopKeeps ==
    ASSUME Sane, NEW t \in {Client} \cup {Timer(n) : n \in Starts},
           StopBegins(t) \/ StopSealed(t) \/ StopAnnounced(t) \/ StopBreaks(t)
    PROVE  Sane' /\ WorkersKept
<1> USE TypeParts, TypePartsNext, TaskFacts DEF Sane
<1>0. t \in Task /\ \A n \in Starts : t # Worker(n)
  BY DEF Task
<1>1. holder = t
  BY <1>0, InsideHolds
  DEF StopBegins, StopSealed, StopAnnounced, StopBreaks, Holds, Inside
<1> SUFFICES /\ SelfType' /\ CapType' /\ PcType' /\ LockType' /\ CmdType' /\ ToldType'
             /\ WireType' /\ closed' \in BOOLEAN
             /\ LockExclusive' /\ (pc'[Client] = "start" => pc[Client] = "start")
             /\ WorkersKept
  <2>1. UNCHANGED <<started, sid, commands>>
    BY DEF StopBegins, StopSealed, StopAnnounced, StopBreaks, lineVars
  <2> QED
    BY <2>1 DEF RecordType, StartsLeft
<1>2. WireType'
  BY DEF StopBegins, StopSealed, StopAnnounced, StopBreaks, WireType, wireVars, Drained, DrainFails
<1>3. ASSUME StopLoses(t)
      PROVE  /\ SelfType' /\ CapType' /\ PcType' /\ LockType' /\ CmdType' /\ LockExclusive'
             /\ closed' \in BOOLEAN /\ (pc'[Client] = "start" => pc[Client] = "start")
             /\ WorkersKept
  <2>1. SelfType' /\ CapType' /\ closed' \in BOOLEAN
    BY <1>3, IdleType, DroppedType DEF StopLoses, SelfType, SelfSet
  <2>2. CmdType'
    BY <1>3 DEF StopLoses, Forget, CmdType, NoCommand
  <2>3. PICK l \in {"read", "done"} : pc' = [pc EXCEPT ![t] = l]
    BY <1>3 DEF StopLoses, Goto
  <2>4. l \in Labels \ Inside /\ l # "start"
    BY DEF Labels, Inside
  <2>5. PcType' /\ LockType' /\ LockExclusive' /\ (pc'[Client] = "start" => pc[Client] = "start")
    BY <1>0, <1>1, <1>3, <2>3, <2>4, LeaveKeeps, HarmlessPc DEF StopLoses
  <2>6. WorkersKept
    BY <1>0, <2>3 DEF WorkersKept, PcType
  <2> QED
    BY <2>1, <2>2, <2>5, <2>6
<1>4. CASE StopBegins(t)
  <2>1. SelfType'
    <3>1. 0 \in 0 .. MaxStarts
      BY SessionAssumption
    <3> QED
      BY <1>4, <3>1 DEF StopBegins, SelfType, Phases
  <2>2. CapType'
    BY <1>4, CapStep, CaptureTypes DEF StopBegins, CapType
  <2>3. "stopping" \in Labels /\ "stopping" # "start"
    BY DEF Labels, Inside
  <2>4. PcType' /\ LockType' /\ LockExclusive' /\ (pc'[Client] = "start" => pc[Client] = "start")
    BY <1>0, <1>1, <1>4, <2>3, StayKeeps, HarmlessPc DEF StopBegins
  <2>5. WorkersKept
    BY <1>0, <1>4, ClearedFacts DEF StopBegins, WorkersKept
  <2> QED
    BY <1>2, <1>4, <2>1, <2>2, <2>4, <2>5 DEF StopBegins, CmdType, lineVars, ToldType
<1>5. CASE StopSealed(t)
  <2>1. CASE CanWrite
    <3>1. ToldType'
      BY <1>5, <2>1, TellType DEF StopSealed
    <3>2. "announce" \in Labels /\ "announce" # "start"
      BY DEF Labels, Inside
    <3>3. PcType' /\ LockType' /\ LockExclusive' /\ (pc'[Client] = "start" => pc[Client] = "start")
      BY <1>0, <1>1, <1>5, <2>1, <3>2, StayKeeps, HarmlessPc DEF StopSealed, Goto
    <3>4. WorkersKept
      BY <1>0, <1>5, <2>1 DEF StopSealed, Goto, WorkersKept, PcType
    <3> QED
      BY <1>2, <1>5, <2>1, <3>1, <3>3, <3>4 DEF StopSealed, SelfType, CapType, CmdType
  <2>2. CASE ~CanWrite
    BY <1>2, <1>3, <1>5, <2>2 DEF StopSealed, ToldType
  <2> QED
    BY <2>1, <2>2
<1>6. CASE StopAnnounced(t)
  <2>1. ToldType'
    BY <1>6 DEF StopAnnounced, ToldType
  <2>2. CASE Return(t) /\ UNCHANGED <<closed, cap>>
    <3>1. Kept
      BY <1>0, <1>1, <2>2, ReturnKeeps
    <3>2. WorkersKept
      BY <2>2, SpawnKeepsWorkers
    <3> QED
      BY <1>2, <2>1, <2>2, <3>1, <3>2 DEF Kept, CapType
  <2>3. CASE StopLoses(t)
    BY <1>2, <1>3, <2>1, <2>3
  <2> QED
    BY <1>6, <2>2, <2>3 DEF StopAnnounced
<1>7. CASE StopBreaks(t)
  <2>1. PcType' /\ LockType' /\ CmdType' /\ LockExclusive' /\ ToldType'
        /\ (pc'[Client] = "start" => pc[Client] = "start")
    BY <1>0, <1>1, <1>7, ReplyKeeps, HarmlessPc DEF StopBreaks
  <2>2. WorkersKept
    BY <1>7, ReplyKeepsWorkers DEF StopBreaks, PcType
  <2> QED
    BY <1>2, <1>7, <2>1, <2>2, IdleType, DroppedType DEF StopBreaks, SelfType, SelfSet
<1> QED
  BY <1>4, <1>5, <1>6, <1>7

LEMMA DeclinedKeepsWorkers ==
    ASSUME Sane, NEW t \in {Client} \cup {Timer(n) : n \in Starts},
           StopIgnored(t) \/ StopRefused(t)
    PROVE  WorkersKept
<1> USE TypeParts DEF Sane
<1>1. CASE StopIgnored(t)
  BY <1>1, SpawnKeepsWorkers DEF StopIgnored
<1>2. CASE StopRefused(t)
  BY <1>2, ReplyKeepsWorkers DEF StopRefused, PcType
<1> QED
  BY <1>1, <1>2

(***************************************************************************)
(* The worker                                                              *)
(***************************************************************************)

\* A worker that goes on to label l, with its locals changed to r.
LEMMA MoveKeeps ==
    ASSUME Sane, RunType, ResultLeft, NEW n \in Starts, NEW l \in Labels, NEW r \in RunSet,
           pc' = [pc EXCEPT ![Worker(n)] = l] \/ pc' = [Cleared(Worker(n)) EXCEPT ![Worker(n)] = l],
           run' = [run EXCEPT ![n] = r],
           l \in Dealing => r.results # <<>>
    PROVE  RunType' /\ ResultLeft'
<1>1. PcType /\ SelfType
  BY TypeParts DEF Sane
<1>2. pc'[Worker(n)] = l /\ \A m \in Starts \ {n} : pc'[Worker(m)] = pc[Worker(m)]
  BY <1>1, TaskFacts, ClearedFacts DEF PcType
<1> QED
  BY <1>2 DEF RunType, ResultLeft

\* ... and that leaves its locals alone.
LEMMA MoveAloneKeeps ==
    ASSUME Sane, RunType, ResultLeft, NEW n \in Starts, NEW l \in Labels \ Dealing,
           pc' = [pc EXCEPT ![Worker(n)] = l] \/ pc' = [Cleared(Worker(n)) EXCEPT ![Worker(n)] = l],
           UNCHANGED run
    PROVE  RunType' /\ ResultLeft'
<1>1. run' = [run EXCEPT ![n] = run[n]] /\ run[n] \in RunSet
  BY DEF RunType
<1> QED
  BY <1>1, MoveKeeps

\* Steps outside the lock, up to where a worker asks for it.
LEMMA DecodingKeeps ==
    ASSUME Inv, NEW n \in Starts,
           \/ WorkerCreates(n) \/ WorkerLooks(n) \/ WorkerWakes(n) \/ WorkerDecoded(n)
           \/ WorkerPublishes(n) \/ WorkerFinalized(n)
    PROVE  Inv'
<1> USE TypeParts, TypePartsNext, TaskFacts DEF Sane
<1>1. UNCHANGED <<self, closed, started, sid, lineVars, wireVars, told>>
  BY DEF WorkerCreates, WorkerLooks, WorkerWakes, WorkerDecoded, WorkerPublishes,
         WorkerFinalized
<1>2. CapType'
  <2>1. cap[n] \in Capture /\ Looked(cap[n]) \in Capture
    BY CaptureTypes DEF Inv, CapType
  <2>2. CASE WorkerLooks(n)
    <3> DEFINE c == Looked(cap[n])
               d == IF Look(c) = "chunk" THEN Taken(c) ELSE c
    <3>1. Look(c) = "chunk" => c.queue > 0
      BY DEF Look
    <3>2. d \in Capture
      <4>1. Look(c) = "chunk" => Taken(c) \in Capture
        BY <2>1, <3>1, TakenType
      <4> QED
        BY <2>1, <4>1
    <3>3. cap' = [cap EXCEPT ![n] = d]
      BY <2>2 DEF WorkerLooks
    <3> HIDE DEF d
    <3> QED
      BY <3>2, <3>3, CapStep DEF Inv
  <2>3. CASE ~WorkerLooks(n)
    BY <2>3 DEF WorkerCreates, WorkerWakes, WorkerDecoded, WorkerPublishes,
                WorkerFinalized, Inv, CapType
  <2> QED
    BY <2>2, <2>3
<1>3. ASSUME NEW l \in Labels \ Inside, Acquire(Worker(n)) \/ UNCHANGED lockVars,
             pc' = [pc EXCEPT ![Worker(n)] = l]
      PROVE  Sane'
  <2>1. PcType' /\ LockType' /\ LockExclusive' /\ (pc'[Client] = "start" => pc[Client] = "start")
    BY <1>3, OutsideKeeps DEF Inv
  <2> QED
    BY <1>1, <1>2, <2>1
    DEF Inv, SelfType, RecordType, CmdType, ToldType, WireType, lineVars, wireVars, StartsLeft
<1>4. {"next", "fail", "done", "wait", "decode", "publish", "end"} \subseteq (Labels \ Inside) \ Dealing
      /\ {"emit", "finalize"} \subseteq Labels \ Inside
  BY DEF Labels, Inside, Dealing
<1>5. ASSUME NEW l \in {"next", "fail", "done", "wait", "decode", "publish", "end"},
             Acquire(Worker(n)) \/ UNCHANGED lockVars,
             pc' = [pc EXCEPT ![Worker(n)] = l], UNCHANGED run
      PROVE  Inv'
  BY <1>3, <1>4, <1>5, MoveAloneKeeps DEF Inv
<1>6. ASSUME NEW l \in {"next", "fail", "done", "wait", "decode", "publish", "end"},
             Acquire(Worker(n)) \/ UNCHANGED lockVars,
             pc' = [pc EXCEPT ![Worker(n)] = l],
             NEW r \in RunSet, run' = [run EXCEPT ![n] = r]
      PROVE  Inv'
  BY <1>3, <1>4, <1>6, MoveKeeps DEF Inv
<1>7. ASSUME NEW l \in {"emit", "finalize"},
             Acquire(Worker(n)) \/ UNCHANGED lockVars,
             pc' = [pc EXCEPT ![Worker(n)] = l], UNCHANGED run,
             run[n].results # <<>>
      PROVE  Inv'
  <2>1. run' = [run EXCEPT ![n] = run[n]] /\ run[n] \in RunSet
    BY <1>7 DEF Inv, RunType
  <2> QED
    BY <1>3, <1>4, <1>7, <2>1, MoveKeeps DEF Inv
<1>8. CASE WorkerCreates(n)
  BY <1>5, <1>8 DEF WorkerCreates, Goto, Await
<1>9. CASE WorkerLooks(n)
  <2>1. CASE StreamEnds(n)
    <3>1. [run[n] EXCEPT !.stage = "finish"] \in RunSet
      BY DEF Inv, RunType, RunSet
    <3> QED
      BY <1>5, <1>6, <2>1, <3>1 DEF StreamEnds, Goto, Await
  <2>2. CASE ~StreamEnds(n)
    <3>1. PICK l \in {"fail", "wait", "decode", "done"} :
            (Acquire(Worker(n)) \/ UNCHANGED lockVars) /\ pc' = [pc EXCEPT ![Worker(n)] = l]
            /\ UNCHANGED run
      BY <1>9, <2>2 DEF WorkerLooks, Goto, Await
    <3> QED
      BY <1>5, <3>1
  <2> QED
    BY <2>1, <2>2
<1>10. CASE WorkerWakes(n)
  BY <1>5, <1>10 DEF WorkerWakes, Goto
<1>11. CASE WorkerDecoded(n)
  <2>1. ASSUME NEW x \in Results, run' = [run EXCEPT ![n].results = x]
        PROVE  \E r \in RunSet : run' = [run EXCEPT ![n] = r]
    <3>1. x \in Seq({"partial", "final"})
      BY StreamingAssumption
    <3>2. [run[n] EXCEPT !.results = x] \in RunSet
      BY <3>1 DEF Inv, RunType, RunSet
    <3> QED
      BY <2>1, <3>2
  <2> QED
    BY <1>5, <1>6, <1>11, <2>1 DEF WorkerDecoded, Goto, Await
<1>12. CASE WorkerPublishes(n)
  BY <1>5, <1>7, <1>12 DEF WorkerPublishes, Goto, Await
<1>13. CASE WorkerFinalized(n)
  <2>1. run[n].results # <<>>
    BY <1>13 DEF WorkerFinalized, Inv, ResultLeft, Dealing
  <2> QED
    BY <1>5, <1>7, <1>13, <2>1 DEF WorkerFinalized, Await, Goto
<1> QED
  BY <1>8, <1>9, <1>10, <1>11, <1>12, <1>13

\* A step of a worker that holds the lock: it stays or leaves.
LEMMA WorkerHolds ==
    ASSUME Sane, NEW n \in Starts, holder = Worker(n), NEW l \in Labels,
           \/ UNCHANGED lockVars
           \/ (Release \/ Reacquire(Worker(n))) /\ l \notin Inside,
           pc' = [pc EXCEPT ![Worker(n)] = l] \/ pc' = [Cleared(Worker(n)) EXCEPT ![Worker(n)] = l]
    PROVE  PcType' /\ LockType' /\ LockExclusive' /\ (pc'[Client] = "start" => pc[Client] = "start")
<1>1. Worker(n) \in Task /\ Worker(n) # Client
  BY TaskFacts
<1>2. \E p : Harmless(p, Worker(n)) /\ pc' = [p EXCEPT ![Worker(n)] = l]
  BY HarmlessPc DEF Sane
<1>3. CASE UNCHANGED lockVars
  BY <1>1, <1>2, <1>3, StayKeeps DEF Sane
<1>4. CASE (Release \/ Reacquire(Worker(n))) /\ l \notin Inside
  BY <1>1, <1>2, <1>4, LeaveKeeps DEF Sane
<1> QED
  BY <1>3, <1>4

\* publish(), once it has the lock
LEMMA PublishingKeeps ==
    ASSUME Inv, NEW n \in Starts,
           PublishStops(n) \/ PublishSkips(n) \/ PublishEmits(n) \/ PublishSent(n)
    PROVE  Inv'
<1> USE TypeParts, TypePartsNext, TaskFacts DEF Sane
<1>1. UNCHANGED <<self, closed, started, sid, cap, lineVars>> /\ WireType'
  BY DEF PublishStops, PublishSkips, PublishEmits, PublishSent, Drained, DrainFails,
         Inv, WireType, wireVars
<1>2. holder = Worker(n)
  BY InsideHolds DEF PublishStops, PublishSkips, PublishEmits, PublishSent, Holds, Inside, Inv
<1>3. run[n] \in RunSet /\ run[n].results # <<>>
  BY DEF PublishStops, PublishSkips, PublishEmits, PublishSent, Holds, Inv, RunType,
         ResultLeft, Dealing
<1>4. ASSUME ToldType', NEW l \in Labels,
             \/ UNCHANGED lockVars
             \/ (Release \/ Reacquire(Worker(n))) /\ l \notin Inside,
             pc' = [pc EXCEPT ![Worker(n)] = l],
             NEW r \in RunSet, run' = [run EXCEPT ![n] = r],
             l \in Dealing => r.results # <<>>
      PROVE  Inv'
  <2>1. PcType' /\ LockType' /\ LockExclusive' /\ (pc'[Client] = "start" => pc[Client] = "start")
    BY <1>2, <1>4, WorkerHolds DEF Inv
  <2>2. RunType' /\ ResultLeft'
    BY <1>4, MoveKeeps DEF Inv
  <2> QED
    BY <1>1, <1>4, <2>1, <2>2
    DEF Inv, SelfType, RecordType, CapType, CmdType, lineVars, StartsLeft
<1>5. /\ "publish" \in (Labels \ Inside) \ Dealing /\ "lost" \in (Labels \ Inside) \ Dealing
      /\ "emitting" \in Labels
  BY DEF Labels, Inside, Dealing
<1>6. Tail(run[n].results) \in Seq({"partial", "final"})
  BY <1>3, HeadTail DEF RunSet
<1>7. CASE PublishStops(n)
  <2>1. [run[n] EXCEPT !.results = <<>>] \in RunSet
    <3> DEFINE e == <<>>
    <3>1. e \in Seq({"partial", "final"})
      OBVIOUS
    <3> HIDE DEF e
    <3>2. [run[n] EXCEPT !.results = e] \in RunSet
      BY <1>3, <3>1 DEF RunSet
    <3> QED
      BY <3>2 DEF e
  <2> QED
    BY <1>4, <1>5, <1>7, <2>1 DEF PublishStops, Leave, Goto, Inv, ToldType
<1>8. CASE PublishSkips(n)
  <2>1. [run[n] EXCEPT !.results = Tail(run[n].results)] \in RunSet
    BY <1>3, <1>6 DEF RunSet
  <2> QED
    BY <1>4, <1>5, <1>8, <2>1 DEF PublishSkips, Leave, Goto, Inv, ToldType
<1>9. CASE PublishEmits(n)
  <2> DEFINE q == run[n].seq + 1
             g == IF Head(run[n].results) = "final" THEN run[n].segment + 1 ELSE run[n].segment
  <2>1. q \in Nat /\ g \in Nat
    BY <1>3 DEF RunSet
  <2>2. [run[n] EXCEPT !.seq = q] \in RunSet /\ [run[n] EXCEPT !.seq = q].results # <<>>
    <3> HIDE DEF q
    <3> QED
      BY <1>3, <2>1 DEF RunSet
  <2>3. run' = [run EXCEPT ![n] = [run[n] EXCEPT !.seq = q]]
    BY <1>9 DEF PublishEmits, Inv, RunType
  <2>4. CASE CanWrite
    <3>1. told' = [told EXCEPT ![sid[n]].seq = q, ![sid[n]].segment = g]
      BY <1>9, <2>4 DEF PublishEmits
    <3>2. ToldType'
      <4> HIDE DEF q, g
      <4> QED
        BY <2>1, <3>1 DEF Inv, ToldType
    <3>3. pc' = [pc EXCEPT ![Worker(n)] = "emitting"] /\ UNCHANGED lockVars
      BY <1>9, <2>4 DEF PublishEmits, Goto
    <3> HIDE DEF q, g
    <3> QED
      BY <1>4, <1>5, <2>2, <2>3, <3>2, <3>3
  <2>5. CASE ~CanWrite
    <3>1. pc' = [pc EXCEPT ![Worker(n)] = "lost"] /\ Reacquire(Worker(n)) /\ ToldType'
      BY <1>9, <2>5 DEF PublishEmits, Breaks, Goto, Inv, ToldType
    <3> HIDE DEF q, g
    <3> QED
      BY <1>4, <1>5, <2>2, <2>3, <3>1
  <2> QED
    BY <2>4, <2>5
<1>10. CASE PublishSent(n)
  <2>1. ToldType'
    BY <1>10 DEF PublishSent, Inv, ToldType
  <2>2. Published(run[n]) \in RunSet
    <3> DEFINE g == IF Head(run[n].results) = "final" THEN run[n].segment + 1 ELSE run[n].segment
               v == IF Head(run[n].results) = "final" THEN "none" ELSE "text"
    <3>1. g \in Nat /\ v \in {"none", "text"}
      BY <1>3 DEF RunSet
    <3>2. Published(run[n]) = [run[n] EXCEPT !.results = Tail(run[n].results), !.previous = v,
                                             !.segment = g]
      BY DEF Published
    <3> HIDE DEF g, v
    <3> QED
      BY <1>3, <1>6, <3>1, <3>2 DEF RunSet
  <2>3. CASE Leave(n, "publish") /\ run' = [run EXCEPT ![n] = Published(run[n])]
    BY <1>4, <1>5, <2>1, <2>2, <2>3 DEF Leave, Goto
  <2>4. CASE Breaks(n) /\ UNCHANGED run
    <3>1. run' = [run EXCEPT ![n] = run[n]]
      BY <2>4 DEF Inv, RunType
    <3> QED
      BY <1>3, <1>4, <1>5, <2>1, <2>4, <3>1 DEF Breaks, Goto
  <2> QED
    BY <1>10, <2>3, <2>4 DEF PublishSent, Inv, RunType
<1> QED
  BY <1>7, <1>8, <1>9, <1>10

\* The end of a worker, by finishing, losing the client or failing
LEMMA EndingKeeps ==
    ASSUME Inv, NEW n \in Starts,
           \/ WorkerEnds(n) \/ WorkerEnded(n) \/ WorkerLost(n) \/ LostEnds(n)
           \/ WorkerFails(n) \/ FailEnds(n) \/ FailReported(n)
    PROVE  Inv'
<1> USE TypeParts, TypePartsNext, TaskFacts DEF Sane
<1>1. UNCHANGED <<started, sid, lineVars, run>> /\ WireType'
  BY DEF WorkerEnds, WorkerEnded, WorkerLost, LostEnds, WorkerFails, FailEnds, FailReported,
         Drained, DrainFails, Inv, WireType, wireVars
<1>2. holder = Worker(n)
  BY InsideHolds DEF WorkerEnds, WorkerEnded, WorkerLost, LostEnds, WorkerFails, FailEnds,
         FailReported, Holds, Inside, Inv
<1>3. ToldType'
  BY TellType DEF WorkerEnds, WorkerEnded, WorkerLost, LostEnds, WorkerFails, FailEnds,
         FailReported, Inv, ToldType
<1>4. ASSUME SelfType', CapType', closed' \in BOOLEAN, NEW l \in Labels \ Dealing,
             \/ UNCHANGED lockVars
             \/ (Release \/ Reacquire(Worker(n))) /\ l \notin Inside,
             pc' = [pc EXCEPT ![Worker(n)] = l] \/ pc' = [Cleared(Worker(n)) EXCEPT ![Worker(n)] = l]
      PROVE  Inv'
  <2>1. PcType' /\ LockType' /\ LockExclusive' /\ (pc'[Client] = "start" => pc[Client] = "start")
    BY <1>2, <1>4, WorkerHolds DEF Inv
  <2>2. RunType' /\ ResultLeft'
    BY <1>1, <1>4, MoveAloneKeeps DEF Inv
  <2> QED
    BY <1>1, <1>3, <1>4, <2>1, <2>2 DEF Inv, RecordType, CmdType, lineVars, StartsLeft
<1>5. /\ "done" \in (Labels \ Inside) \ Dealing /\ "lost" \in (Labels \ Inside) \ Dealing
      /\ {"ending", "losing", "failing", "reporting"} \subseteq Labels \ Dealing
  BY DEF Labels, Inside, Dealing
<1>6. ASSUME NEW closes \in BOOLEAN, NEW l \in {"losing", "failing"}, Abandons(n, closes, l)
      PROVE  Inv'
  <2>1. SelfType' /\ CapType' /\ closed' \in BOOLEAN
    BY <1>6, TimerOffType, CapStep, CaptureTypes
    DEF Abandons, SelfType, SelfSet, CapType, Inv
  <2> QED
    BY <1>4, <1>5, <1>6, <2>1 DEF Abandons
<1>7. CASE WorkerEnds(n)
  <2>1. SelfType' /\ CapType' /\ closed' \in BOOLEAN
    BY <1>7, TimerOffType DEF WorkerEnds, SelfType, SelfSet, CapType, Inv
  <2> QED
    BY <1>4, <1>5, <1>7, <2>1 DEF WorkerEnds, Leave, Goto
<1>8. CASE WorkerEnded(n)
  <2>1. SelfType' /\ CapType' /\ closed' \in BOOLEAN
    BY <1>8, IdleType DEF WorkerEnded, SelfType, SelfSet, CapType, Inv
  <2> QED
    BY <1>4, <1>5, <1>8, <2>1 DEF WorkerEnded, Leave, Breaks, Goto
<1>9. CASE WorkerLost(n) \/ WorkerFails(n)
  <2>1. CASE Leave(n, "done") /\ UNCHANGED <<self, closed, cap>>
    <3>1. SelfType' /\ CapType' /\ closed' \in BOOLEAN
      BY <2>1 DEF SelfType, CapType, Inv
    <3> QED
      BY <1>4, <1>5, <2>1, <3>1 DEF Leave, Goto
  <2> QED
    BY <1>6, <1>9, <2>1 DEF WorkerLost, WorkerFails
<1>10. CASE LostEnds(n) \/ FailEnds(n) \/ FailReported(n)
  <2>1. SelfType' /\ CapType' /\ closed' \in BOOLEAN
    BY <1>10, IdleType, CapStep, CaptureTypes
    DEF LostEnds, FailEnds, FailReported, SelfType, SelfSet, CapType, Inv
  <2> QED
    BY <1>4, <1>5, <1>10, <2>1 DEF LostEnds, FailEnds, FailReported, Leave, Goto
<1> QED
  BY <1>7, <1>8, <1>9, <1>10

(***************************************************************************)
(* The theorems                                                            *)
(***************************************************************************)

LEMMA InitInv ==
    ASSUME StreamInit
    PROVE  Inv
<1>1. Sane
  BY InitSane DEF StreamInit
<1>2. RunType
  BY DEF StreamInit, RunType, RunSet
<1>3. ResultLeft
  BY TaskFacts DEF StreamInit, Init, ResultLeft, Dealing
<1> QED
  BY <1>1, <1>2, <1>3 DEF Inv

\* When only the connection or a timer moves, the workers' results stay.
LEMMA OthersKeep ==
    ASSUME Inv, Sane', WorkersKept, UNCHANGED run
    PROVE  Inv'
BY DEF Inv, WorkersKept, RunType, ResultLeft, Dealing

LEMMA NextInv ==
    ASSUME Inv, [Next]_vars
    PROVE  Inv'
<1>1. CASE BaseStep /\ UNCHANGED run
  BY <1>1, BaseStepKeeps, BaseKeepsWorkers, OthersKeep DEF Inv
<1>2. ASSUME NEW t \in {Client} \cup {Timer(n) : n \in Starts}, Stop(t)
      PROVE  Inv'
  <2>1. t \in Task
    BY DEF Task
  <2>2. UNCHANGED run
    BY <1>2 DEF Stop, StopBegins, StopSealed, StopAnnounced, StopBreaks
  <2> QED
    BY <1>2, <2>1, <2>2, StopKeeps, StopDeclinedKeeps, DeclinedKeepsWorkers, OthersKeep
    DEF Stop, Inv
<1>3. ASSUME NEW n \in Starts, WorkerRuns(n)
      PROVE  Inv'
  BY <1>3, DecodingKeeps, PublishingKeeps, EndingKeeps DEF WorkerRuns
<1>4. CASE UNCHANGED vars
  <2>1. UNCHANGED baseVars /\ UNCHANGED run
    BY <1>4 DEF vars
  <2>2. Sane'
    BY <2>1, SameSane DEF Inv
  <2>3. WorkersKept
    BY <2>1 DEF WorkersKept, baseVars
  <2> QED
    BY <2>1, <2>2, <2>3, OthersKeep
<1> QED
  BY <1>1, <1>2, <1>3, <1>4 DEF Next

THEOREM Invariance == Spec => []Inv
<1>1. StreamInit => Inv
  BY InitInv
<1>2. Inv /\ [Next]_vars => Inv'
  BY NextInv
<1> QED
  BY <1>1, <1>2, PTL DEF Spec

\* Every attribute, local and queue length keeps its type: in particular no
\* chunk is taken from an empty queue, whatever the microphone delivers.
THEOREM StreamingTypes == Spec => []TypeOK
<1>1. Inv => TypeOK
  BY DEF Inv, Sane, TypeOK, RunType, RunSet
<1> QED
  BY <1>1, Invariance, PTL

\* The awaits of start, stop, cancel, close and the worker never overlap,
\* for any number of recordings and whoever waits for the lock.
THEOREM StreamingExclusion == Spec => []LockExclusive
<1>1. Inv => LockExclusive
  BY DEF Inv, Sane
<1> QED
  BY <1>1, Invariance, PTL

-----------------------------------------------------------------------------
(* The recordings kept apart.                                              *)

FreshRun == [segment |-> 1, seq |-> 0, previous |-> "none", results |-> <<>>,
             stage |-> "accept"]

WorkerPlaces == {"none", "create", "next", "wait", "decode", "publish", "finalize", "emit",
                 "emitting", "end", "ending", "lost", "losing", "fail", "failing",
                 "reporting", "done"}

\* Each kind of task waits at places of its own.
Places ==
    /\ pc[Client] \in ClientPlaces
    /\ \A n \in Starts : pc[Timer(n)] \in TimerPlaces /\ pc[Worker(n)] \in WorkerPlaces

\* The command being executed.
Commanded ==
    /\ cmd.kind \in Kinds => cmd.id \in Ids
    /\ pc[Client] \in Kinds => cmd.kind = pc[Client]
    /\ Opening => cmd.kind = "start" /\ cmd.id = self.id
    /\ pc[Client] = "cancelling" => cmd.kind = "cancel" /\ cmd.id = self.id

\* Recordings to come, and the one being opened, are as at the beginning.
Ahead ==
    \A n \in Starts : n > started \/ (n = started /\ Opening) =>
        /\ cap[n] = Fresh /\ run[n] = FreshRun
        /\ pc[Timer(n)] = "none" /\ pc[Worker(n)] = "none"

\* The session's capture and id are those of the last recording opened, or none.
Current ==
    /\ Engaged \/ Opening =>
          /\ started # 0 /\ self.capture = started /\ self.id = sid[started]
    /\ Opening => ~Engaged /\ ~closed
    /\ ~Engaged /\ ~Opening => self.capture = 0 /\ self.id = NoId
    /\ \A n \in Starts : n <= started => sid[n] \in Ids
    /\ closed /\ Engaged => \/ pc[Client] = "closing"
                            \/ \E n \in Starts : pc[Worker(n)] = "losing"

\* Only the capture of the session is live, and it is cancelled only by a
\* task that still waits for its end.
Captures ==
    \A n \in Starts :
        /\ "eof" \in cap[n].flags => cap[n].proc = "exited"
        /\ "cancelled" \notin cap[n].flags => cap[n].taken + cap[n].queue = cap[n].read
        /\ Live(cap[n]) => self.capture = n /\ Engaged
        /\ Engaged /\ self.capture = n =>
              /\ cap[n].proc # "absent"
              /\ "cancelled" \in cap[n].flags =>
                    \/ pc[Client] \in {"cancelling", "closing"}
                    \/ pc[Worker(n)] \in {"losing", "failing"}

\* A worker that has not ended is the session's, and reads the last capture;
\* a session in use has one unless it is about to be created, or never will
\* be because the connection is ending.
Workers ==
    /\ \A n \in Starts : Alive(n) => self.worker = n /\ n = started /\ ~Opening
    /\ \A n \in Starts : self.worker = n => pc[Worker(n)] # "none"
    /\ Engaged =>
        \/ self.worker = started /\ Alive(started)
        \/ pc[Client] \in {"close", "closing"}
        \/ /\ pc[Client] = "reply" /\ cmd.kind = "start" /\ cmd.id = self.id
           /\ self.phase = "recording"
           /\ pc[Worker(started)] = "none" /\ run[started] = FreshRun

\* No timer is armed but that of the recording in progress.
Timers ==
    /\ TimerCurrent
    /\ self.timer # 0 => self.phase = "recording"
    /\ pc[Client] \in {"cancelling", "closing"} => self.timer = 0
    /\ \A n \in Starts : pc[Worker(n)] \in {"losing", "failing"} => self.timer = 0

\* What a task that is suspended with the lock knows of the session.
Held ==
    /\ \A t \in Callers :
         /\ pc[t] \in {"stopping", "announce"} => self.phase = "transcribing"
         /\ pc[t] = "announce" => "eof" \in cap[started].flags
    /\ pc[Client] \in {"cancelling", "closing"} => Engaged /\ "cancelled" \in cap[started].flags
    /\ pc[Client] \in {"closing", "join", "closed"} => closed
    /\ \A n \in Starts :
         /\ pc[Worker(n)] \in {"emitting", "losing", "failing"} => Engaged
         /\ pc[Worker(n)] \in {"losing", "failing"} => "cancelled" \in cap[n].flags
         /\ pc[Worker(n)] = "ending" => self.phase = "transcribing"
         /\ pc[Worker(n)] = "reporting" => ~Engaged
         /\ pc[Worker(n)] = "losing" => closed

\* After close() nothing is left but, at first, a worker.
Shut ==
    /\ pc[Client] \in {"join", "closed"} =>
         ~Engaged /\ \A n \in Starts : pc[Timer(n)] \in {"none", "done", "cancelled"}
    /\ pc[Client] = "closed" => \A n \in Starts : ~Alive(n)

\* A worker past the end of its stream has read everything, or its capture
\* was cancelled.
Finishing ==
    \A n \in Starts :
        /\ pc[Worker(n)] \in {"end", "ending"} => run[n].stage = "finish"
        /\ Alive(n) /\ run[n].stage = "finish" =>
              /\ self.phase # "recording"
              /\ \/ "cancelled" \in cap[n].flags
                 \/ "eof" \in cap[n].flags /\ cap[n].queue = 0

Segment(n) ==
    IF pc[Worker(n)] = "emitting" /\ Head(run[n].results) = "final"
    THEN run[n].segment + 1 ELSE run[n].segment

\* What the client heard, for as long as it can be told.
Heard ==
    /\ \A n \in Starts : pc[Worker(n)] = "ending" => told[sid[n]].phase = "finished"
    /\ writer = "open" /\ ~closed =>
        /\ \A i \in Ids : told[i].phase \in Promise!Active => Engaged /\ i = self.id
        /\ self.phase = "recording" => told[self.id].phase = "recording"
        /\ self.phase = "transcribing" =>
             told[self.id].phase =
                IF Sealing THEN "recording"
                ELSE IF pc[Worker(started)] = "ending" THEN "finished"
                ELSE "transcribing"
        /\ Engaged => /\ told[self.id].seq = run[started].seq
                      /\ told[self.id].segment = Segment(started)

Lifecycle ==
    /\ Places /\ Commanded /\ Ahead /\ Current
    /\ Captures /\ Finishing /\ NoLostWakeup
    /\ Workers /\ Timers /\ Held /\ Shut
    /\ Heard

LInv == Inv /\ Lifecycle

(***************************************************************************)
(* What a step does to the places where tasks wait                         *)
(***************************************************************************)

LEMMA Typed ==
    ASSUME LInv
    PROVE  /\ SelfType /\ RecordType /\ CapType /\ PcType /\ CmdType /\ WireType /\ ToldType
           /\ closed \in BOOLEAN /\ RunType
BY TypeParts DEF LInv, Inv, Sane

\* Nobody but the holder of the lock is suspended with it.
LEMMA Alone ==
    ASSUME LInv, NEW t \in Task, holder = t
    PROVE  \A u \in Task \ {t} : pc[u] \notin Inside
BY DEF LInv, Inv, Sane, LockExclusive

\* A session in use is that of the last recording opened.
LEMMA InUse ==
    ASSUME LInv, Engaged \/ Opening
    PROVE  /\ started \in Starts /\ self.capture = started /\ self.id = sid[started]
           /\ self.id \in Ids /\ cap[started] \in Capture
<1>1. started \in Starts
  BY Typed, SessionAssumption DEF LInv, Lifecycle, Current, RecordType, Starts
<1> QED
  BY <1>1, Typed DEF LInv, Lifecycle, Current, CapType, RecordType

(***************************************************************************)
(* Steps that leave the session's attributes, the captures and what the    *)
(* client heard as they are                                                *)
(***************************************************************************)

SessionStays == UNCHANGED <<self, closed, started, sid, told>> /\ WriterKept

LEMMA ClientMoves ==
    ASSUME LInv, SessionStays, UNCHANGED <<cap, run>>,
           NEW l \in {"read", "badline", "overlong", "start", "stop", "cancel", "close",
                      "reply", "closed"},
           Moves(Client, l),
           pc[Client] \notin {"opening", "cancelling", "closing", "stopping", "closed"},
           pc[Client] = "join" <=> l = "closed",
           l = "closed" => \A n \in Starts : ~Alive(n),
           pc[Client] \in {"close", "reply"} =>
               l = "close" \/ ~Engaged \/ (self.worker = started /\ Alive(started)),
           IF l \in Kinds THEN cmd'.kind = l /\ cmd'.id \in Ids ELSE CommandStays
    PROVE  Lifecycle'
<1> USE TaskFacts, Typed DEF LInv, Lifecycle, SessionStays, WriterKept, CommandStays, Moves
<1>1. Places' /\ Ahead' /\ Current'
  BY DEF Places, ClientPlaces, Ahead, Current, Opening, Engaged
<1>2. Commanded'
  BY NotKinds DEF Commanded, Opening, Kinds
<1>3. Captures' /\ Finishing' /\ NoLostWakeup'
  BY DEF Captures, Finishing, NoLostWakeup, Alive, Engaged
<1>0. Engaged => started \in Starts
  BY InUse
<1>4. Workers'
  BY <1>0 DEF Workers, Alive, Engaged, Opening, NoCommand, TooLong
<1>5. Timers' /\ Held' /\ Shut'
  BY DEF Timers, TimerCurrent, Held, Shut, Alive, Engaged, Callers
<1>6. Heard'
  <2>1. Sealing' = Sealing
    BY DEF Sealing, Callers
  <2> QED
    BY <1>0, <2>1 DEF Heard, Engaged, Segment
<1> QED
  BY <1>1, <1>2, <1>3, <1>4, <1>5, <1>6

LEMMA TimerMoves ==
    ASSUME LInv, SessionStays, UNCHANGED <<cap, run, cmd>>,
           NEW n \in Starts, NEW l \in {"stop", "done", "reply"},
           Moves(Timer(n), l),
           pc[Timer(n)] \in {"sleep", "stop", "cancelled", "announce", "reply"},
           l \in {"stop", "reply"} => pc[Timer(n)] \in {"sleep", "stop"}
    PROVE  Lifecycle'
<1> USE TaskFacts, Typed DEF LInv, Lifecycle, SessionStays, WriterKept, Moves
<1>0. Engaged => started \in Starts
  BY InUse
<1>1. Places' /\ Commanded' /\ Ahead' /\ Current'
  BY DEF Places, TimerPlaces, Ahead, Current, Commanded, Opening, Engaged
<1>2. Captures' /\ Finishing' /\ NoLostWakeup'
  BY DEF Captures, Finishing, NoLostWakeup, Alive, Engaged
<1>3. Workers' /\ Timers' /\ Held' /\ Shut'
  BY <1>0 DEF Workers, Timers, TimerCurrent, Held, Shut, Alive, Engaged, Opening, Callers
<1>4. Heard'
  <2>1. Sealing' = Sealing
    BY DEF Sealing, Callers
  <2> QED
    BY <1>0, <2>1 DEF Heard, Engaged, Segment
<1> QED
  BY <1>1, <1>2, <1>3, <1>4

LEMMA WorkerMoves ==
    ASSUME LInv, SessionStays, UNCHANGED cmd,
           NEW n \in Starts, NEW l, NEW r \in RunSet, NEW c \in Capture,
           Moves(Worker(n), l), run' = [run EXCEPT ![n] = r], cap' = [cap EXCEPT ![n] = c],
           Alive(n), pc[Worker(n)] \notin {"losing", "failing", "reporting"},
           pc[Worker(n)] = "ending" => writer' = "closing",
           l \in WorkerPlaces \ {"none", "create", "emitting", "ending", "losing",
                                 "failing", "reporting"},
           l = "done" => ~Engaged \/ pc[Client] = "closing",
           l = "end" => r.stage = "finish",
           l = "wait" => c.queue = 0 /\ c.flags \cap {"eof", "cancelled"} = {},
           r.seq = run[n].seq \/ writer' = "closing",
           r.segment = Segment(n) \/ writer' = "closing",
           r.stage = "finish" =>
               \/ run[n].stage = "finish"
               \/ /\ self.phase # "recording"
                  /\ "cancelled" \in cap[n].flags \/ ("eof" \in cap[n].flags /\ cap[n].queue = 0),
           c.proc = cap[n].proc, c.read = cap[n].read,
           c.taken + c.queue = cap[n].taken + cap[n].queue,
           c.queue = cap[n].queue \/ (cap[n].queue > 0 /\ "cancelled" \notin cap[n].flags),
           c.flags \cup {"available"} = cap[n].flags \cup {"available"}
    PROVE  Lifecycle'
<1> USE TaskFacts, Typed DEF LInv, Lifecycle, SessionStays, WriterKept, Moves
<1>1. n = started /\ self.worker = n /\ ~Opening
  BY DEF Workers
<1>2. run'[n] = r /\ (\A m \in Starts \ {n} : run'[m] = run[m])
      /\ cap'[n] = c /\ (\A m \in Starts \ {n} : cap'[m] = cap[m])
  BY DEF RunType, CapType
<1>3. \A m \in Starts : cap[m].queue \in Nat /\ cap[m].taken \in Nat /\ cap[m].read \in Nat
                        /\ c.queue \in Nat /\ c.taken \in Nat
  BY DEF CapType, Capture
<1>4. \A f \in {"eof", "cancelled"} : f \in c.flags <=> f \in cap[n].flags
  OBVIOUS
<1>5. Places' /\ Commanded' /\ Current'
  BY DEF Places, WorkerPlaces, Current, Commanded, Opening, Engaged
<1>6. Ahead'
  BY <1>1, <1>2 DEF Ahead, Opening, RecordType
<1>7. Captures'
  BY <1>1, <1>2, <1>3, <1>4 DEF Captures, Alive, Engaged, Live
<1>8. Finishing'
  BY <1>1, <1>2, <1>3, <1>4 DEF Finishing, Alive
<1>9. NoLostWakeup'
  BY <1>1, <1>2, <1>3, <1>4 DEF NoLostWakeup
<1>10. Workers' /\ Timers' /\ Shut'
  BY <1>1, <1>2 DEF Workers, Timers, TimerCurrent, Shut, Alive, Engaged, Opening
<1>11. Held'
  BY <1>1, <1>2, <1>4 DEF Held, Engaged, Callers
<1>12. Heard'
  <2>1. Sealing' = Sealing
    BY DEF Sealing, Callers
  <2> QED
    BY <1>1, <1>2, <2>1 DEF Heard, Engaged, Segment
<1> QED
  BY <1>5, <1>6, <1>7, <1>8, <1>9, <1>10, <1>11, <1>12

(***************************************************************************)
(* The steps that end a recording                                          *)
(***************************************************************************)

LEMMA SessionEnds ==
    ASSUME LInv, Engaged, NEW t \in Task, holder = t, NEW l, Moves(t, l),
           self' = Idle, UNCHANGED <<started, sid, run>>, WriterKept,
           IF t = Client THEN CommandStays ELSE UNCHANGED cmd,
           pc[t] \in Inside,
           NEW c \in {cap[started], Emptied(cap[started]), Emptied(CancelBegun(cap[started]))},
           cap' = [cap EXCEPT ![started] = c],
           "eof" \in cap[started].flags,
           c = cap[started] \/ (c = Emptied(cap[started]) => "cancelled" \in cap[started].flags),
           self.phase = "transcribing" \/ self.timer = 0,
           closed => closed',
           \/ t = Client /\ l \in {"read", "reply", "close"}
           \/ t = Client /\ l = "join" /\ closed'
           \/ l \in {"reply", "done"} /\ \E n \in Starts : t = Timer(n)
           \/ l \in {"reporting", "done"} /\ \E n \in Starts : t = Worker(n),
           writer' = "open" /\ ~closed' => told'[self.id].phase \notin Promise!Active,
           \A i \in Ids : i # self.id => told'[i] = told[i]
    PROVE  Lifecycle'
<1> USE TaskFacts, Typed DEF LInv, Lifecycle, WriterKept, CommandStays, Moves
<1>0. /\ started \in Starts /\ self.capture = started /\ self.id \in Ids
      /\ cap[started] \in Capture
  BY InUse
<1>1. /\ self'.phase = "idle" /\ self'.id = NoId /\ self'.capture = 0
      /\ self'.worker = self.worker /\ self'.timer = self.timer
  BY DEF Idle, SelfType
<1>2. (\A u \in Task \ {t} : pc[u] \notin Inside) /\ t \in Callers \cup {Worker(n) : n \in Starts}
  BY Alone DEF Task, Callers
<1>3. (\A n \in Starts : pc[Timer(n)] \notin {"sleep", "stop"}) /\ self.timer = 0
  BY DEF Timers, TimerCurrent, Starts
<1>4. /\ cap'[started] = c /\ \A m \in Starts \ {started} : cap'[m] = cap[m]
      /\ "eof" \in c.flags /\ c.proc = "exited" /\ cap[started].flags \subseteq c.flags
      /\ "cancelled" \in c.flags \/ c = cap[started]
      /\ "cancelled" \in c.flags => \/ "available" \in c.flags
                                   \/ "cancelled" \in cap[started].flags
      /\ c.queue \in {0, cap[started].queue}
  <2>1. cap[started].proc = "exited"
    BY <1>0 DEF Captures
  <2>2. ASSUME NEW d \in Capture, d.proc = "exited"
        PROVE  /\ Emptied(d).proc = "exited" /\ Emptied(d).flags = d.flags /\ Emptied(d).queue = 0
               /\ CancelBegun(d).proc = "exited" /\ CancelBegun(d) \in Capture
               /\ CancelBegun(d).flags = d.flags \cup {"stopping", "cancelled", "available"}
    BY <2>2, CaptureTypes, ZenonT(60) DEF Capture, Emptied, CancelBegun, Terminated
  <2>3. /\ cap'[started] = c /\ \A m \in Starts \ {started} : cap'[m] = cap[m]
    BY <1>0 DEF CapType
  <2>4. CASE c = cap[started]
    BY <2>1, <2>3, <2>4
  <2>5. CASE c = Emptied(cap[started])
    BY <1>0, <2>1, <2>2, <2>3, <2>4, <2>5
  <2>6. CASE c = Emptied(CancelBegun(cap[started]))
    BY <1>0, <2>1, <2>2, <2>3, <2>6
  <2> QED
    BY <2>4, <2>5, <2>6
<1>5. Places'
  BY <1>2 DEF Places, ClientPlaces, TimerPlaces, WorkerPlaces
<1>6. Commanded' /\ Current'
  BY <1>0, <1>1, <1>2, NotKinds DEF Commanded, Current, Opening, Engaged, Kinds, Inside
<1>7. Ahead'
  BY <1>0, <1>2, <1>4 DEF Ahead, Opening, Inside, RecordType, Starts
<1>8. Captures'
  BY <1>0, <1>1, <1>4 DEF Captures, Engaged, Live
<1>9. Finishing'
  BY <1>0, <1>1, <1>2, <1>4 DEF Finishing, Alive, Inside
<1>10. NoLostWakeup'
  BY <1>0, <1>4 DEF NoLostWakeup
<1>11. Workers' /\ Timers'
  BY <1>0, <1>1, <1>2, <1>3 DEF Workers, Timers, TimerCurrent, Alive, Engaged, Opening, Inside
<1>12. Held'
  BY <1>1, <1>2 DEF Held, Engaged, Callers, Inside
<1>13. Shut'
  BY <1>0, <1>1, <1>2, <1>3 DEF Shut, Alive, Engaged, Inside, Places, TimerPlaces
<1>14. Heard'
  <2>1. \A i \in Ids : writer' = "open" /\ ~closed' => told'[i].phase \notin Promise!Active
    BY DEF Heard, WireType
  <2> QED
    BY <1>0, <1>1, <1>2, <2>1 DEF Heard, Engaged, Inside
<1> QED
  BY <1>5, <1>6, <1>7, <1>8, <1>9, <1>10, <1>11, <1>12, <1>13, <1>14

(***************************************************************************)
(* The end of a method                                                     *)
(***************************************************************************)

\* A refused command changes nothing but where its caller waits.
LEMMA Refused ==
    ASSUME LInv, NEW t \in Callers, NEW i, Reply(t, i, "refused", pc)
    PROVE  \E l \in {"reply", "close", "done"} :
             /\ Moves(t, l) /\ UNCHANGED told
             /\ t = Client => l # "done" /\ CommandStays
             /\ t # Client => l # "close" /\ UNCHANGED cmd
<1> USE Typed, TaskFacts
<1>0. t \in Task
  BY DEF Callers
<1>1. PICK l \in {"reply", "close", "done"} :
          /\ pc' = [pc EXCEPT ![t] = l]
          /\ t = Client => l # "done" /\ CommandStays
          /\ t # Client => l # "close" /\ UNCHANGED cmd
  BY DEF Reply, Raise, Forget, CommandStays
<1>2. UNCHANGED told
  BY DEF Reply, Tell, Hear, ToldType
<1> QED
  BY <1>0, <1>1, <1>2, MovesTo

\* The worker is created: the recording now has a consumer.
LEMMA SpawnKeeps ==
    ASSUME LInv, holder = Client, pc[Client] \notin {"close", "closing"},
           Spawns, Return(Client),
           UNCHANGED <<closed, started, sid, cap, told, run>>, WriterKept
    PROVE  Lifecycle'
<1> USE TaskFacts, Typed DEF LInv, Lifecycle, WriterKept
<1>0. /\ Engaged /\ self.phase = "recording" /\ ~closed /\ ~WorkerLive
      /\ started \in Starts /\ self.capture = started
  BY InUse DEF Spawns, Engaged
<1>1. /\ \A n \in Starts : ~Alive(n)
      /\ pc[Client] = "reply" /\ pc[Worker(started)] = "none" /\ run[started] = FreshRun
  <2>1. \A n \in Starts : ~Alive(n)
    BY <1>0 DEF Workers, WorkerLive, Alive, Starts
  <2> QED
    BY <1>0, <2>1 DEF Workers
<1>2. /\ self' = [self EXCEPT !.worker = self.capture]
      /\ pc' = [pc EXCEPT ![Client] = "read", ![Worker(started)] = "create"]
      /\ cmd' = NoCommand
  BY <1>0 DEF Return, Forget
<1>3. /\ pc'[Client] = "read" /\ pc'[Worker(started)] = "create"
      /\ \A u \in Task \ {Client, Worker(started)} : pc'[u] = pc[u]
  BY <1>0, <1>2 DEF PcType
<1>4. /\ self'.worker = started /\ self'.phase = self.phase /\ self'.id = self.id
      /\ self'.capture = self.capture /\ self'.timer = self.timer
  BY <1>0, <1>2 DEF SelfType
<1>5. Places' /\ Commanded' /\ Ahead' /\ Current'
  <2>1. Places'
    BY <1>0, <1>1, <1>3 DEF Places, ClientPlaces, WorkerPlaces
  <2>2. Commanded'
    BY <1>2, <1>3, NotKinds DEF Commanded, Opening, Kinds
  <2>3. Ahead'
    BY <1>0, <1>1, <1>3 DEF Ahead, Opening, RecordType, Starts
  <2>4. Current'
    BY <1>0, <1>1, <1>3, <1>4 DEF Current, Opening, Engaged
  <2> QED
    BY <2>1, <2>2, <2>3, <2>4
<1>6. Captures' /\ Finishing' /\ NoLostWakeup'
  BY <1>0, <1>1, <1>3, <1>4 DEF Captures, Finishing, NoLostWakeup, Alive, Engaged, FreshRun
<1>7. Workers' /\ Timers' /\ Shut'
  BY <1>0, <1>1, <1>3, <1>4 DEF Workers, Timers, TimerCurrent, Shut, Alive, Engaged, Opening, Starts
<1>8. Held'
  BY <1>0, <1>1, <1>3, <1>4 DEF Held, Engaged, Callers
<1>9. Heard'
  <2>1. Sealing' = Sealing
    BY <1>1, <1>3 DEF Sealing, Callers
  <2> QED
    BY <1>0, <1>1, <1>3, <1>4, <2>1 DEF Heard, Engaged, Segment
<1> QED
  BY <1>5, <1>6, <1>7, <1>8, <1>9

\* Once the connection task returns from the start of the recording in
\* progress, the worker is created.
LEMMA PendingSpawns ==
    ASSUME LInv, holder = Client, Engaged, pc[Client] = "reply",
           ~(self.worker = started /\ Alive(started))
    PROVE  Spawns
<1> USE TaskFacts, Typed DEF LInv, Lifecycle
<1>1. /\ cmd.kind = "start" /\ cmd.id = self.id /\ self.phase = "recording"
      /\ pc[Worker(started)] = "none" /\ started \in Starts
  BY InUse DEF Workers
<1>2. ~WorkerLive
  BY <1>1 DEF Workers, WorkerLive, Alive, SelfType, Starts
<1>3. ~closed
  BY Alone DEF Current, Inside
<1> QED
  BY <1>1, <1>2, <1>3, StreamingAssumption DEF Spawns

LEMMA ReturnLives ==
    ASSUME LInv, NEW t \in Callers, holder = t, Return(t),
           pc[t] \in {"start", "stop", "cancel", "announce", "reply"},
           UNCHANGED <<closed, started, sid, cap, told, run>>, WriterKept
    PROVE  Lifecycle'
<1> USE TaskFacts, Typed
<1>1. CASE t = Client /\ Spawns
  BY <1>1, SpawnKeeps
<1>2. CASE t = Client /\ ~Spawns
  <2>1. Moves(Client, "read") /\ UNCHANGED self /\ cmd' = NoCommand
    BY <1>2, MovesTo DEF Return, Goto, Forget
  <2>2. pc[Client] = "reply" /\ Engaged => self.worker = started /\ Alive(started)
    BY <1>2, PendingSpawns
  <2> QED
    BY <1>2, <2>1, <2>2, ClientMoves DEF SessionStays, CommandStays, Kinds
<1>3. ASSUME NEW n \in Starts, t = Timer(n)
      PROVE  Lifecycle'
  <2>1. Moves(t, "done") /\ UNCHANGED <<self, cmd>>
    BY <1>3, MovesTo DEF Return, Goto, Forget
  <2>2. pc[t] \in {"stop", "announce", "reply"}
    BY <1>3 DEF LInv, Lifecycle, Places, TimerPlaces
  <2> QED
    BY <1>3, <2>1, <2>2, TimerMoves DEF SessionStays
<1> QED
  BY <1>1, <1>2, <1>3 DEF Callers

LEMMA RefusedLives ==
    ASSUME LInv, NEW t \in Callers, NEW i, Reply(t, i, "refused", pc),
           pc[t] \in {"start", "stop", "cancel"},
           UNCHANGED <<self, closed, started, sid, cap, run, wireVars>>
    PROVE  Lifecycle'
<1> USE TaskFacts, Typed
<1>1. PICK l \in {"reply", "close", "done"} :
             /\ Moves(t, l) /\ UNCHANGED told
             /\ t = Client => l # "done" /\ CommandStays
             /\ t # Client => l # "close" /\ UNCHANGED cmd
  BY Refused
<1>2. SessionStays
  BY <1>1 DEF SessionStays, WriterKept, wireVars
<1>3. CASE t = Client
  BY <1>1, <1>2, <1>3, ClientMoves DEF Kinds
<1>4. ASSUME NEW n \in Starts, t = Timer(n)
      PROVE  Lifecycle'
  <2>1. pc[t] = "stop"
    BY <1>4 DEF LInv, Lifecycle, Places, TimerPlaces
  <2> QED
    BY <1>1, <1>2, <1>4, <2>1, TimerMoves
<1> QED
  BY <1>3, <1>4 DEF Callers

LEMMA ReplySentLives ==
    ASSUME LInv, NEW t \in Callers, ReplySent(t), UNCHANGED run
    PROVE  Lifecycle'
<1> USE TaskFacts, Typed
<1>1. /\ holder = t /\ pc[t] = "reply" /\ WriterKept
      /\ UNCHANGED <<closed, started, sid, cap, told, run>>
  BY InsideHolds DEF ReplySent, Inside, LInv, Inv, Sane, Callers, Drained, DrainFails, wireVars,
                     WriterKept
<1>2. CASE Return(t)
  BY <1>1, <1>2, ReturnLives
<1>3. CASE Raise(t, pc) /\ UNCHANGED self /\ t = Client
  <2>1. Moves(Client, "close") /\ CommandStays
    BY <1>3, MovesTo DEF Raise, Forget, CommandStays
  <2> QED
    BY <1>1, <1>3, <2>1, ClientMoves DEF SessionStays, Kinds
<1>4. ASSUME NEW n \in Starts, t = Timer(n), Raise(t, pc), UNCHANGED self
      PROVE  Lifecycle'
  <2>1. Moves(t, "done") /\ UNCHANGED cmd
    BY <1>4, MovesTo DEF Raise, Forget
  <2> QED
    BY <1>1, <1>4, <2>1, TimerMoves DEF SessionStays
<1> QED
  BY <1>2, <1>3, <1>4 DEF ReplySent, Callers

(***************************************************************************)
(* The connection task                                                     *)
(***************************************************************************)

LEMMA ReadsLives ==
    ASSUME LInv, ClientReads \/ ReadEof \/ BadLineAnswered \/ CloseJoins, UNCHANGED run
    PROVE  Lifecycle'
<1> USE TaskFacts, Typed
<1>1. SessionStays /\ UNCHANGED <<cap, run>>
  BY DEF ClientReads, ReadCommand, ReadBadLine, ReadEof, BadLineAnswered, CloseJoins,
         SessionStays, WriterKept, Drained, DrainFails, wireVars
<1>2. ASSUME NEW kind \in Kinds, NEW i \in Ids, ReadCommand(kind, i)
      PROVE  Lifecycle'
  <2>1. Moves(Client, kind) /\ pc[Client] = "read" /\ cmd'.kind = kind /\ cmd'.id = i
    BY <1>2, MovesTo DEF ReadCommand, Goto
  <2> QED
    BY <1>1, <2>1, ClientMoves DEF Kinds
<1>3. CASE ReadBadLine \/ ReadEof \/ BadLineAnswered
  <2>1. PICK l \in {"badline", "overlong", "close", "read"} : pc' = [pc EXCEPT ![Client] = l]
    BY <1>3 DEF ReadBadLine, ReadEof, BadLineAnswered, Goto
  <2>2. Moves(Client, l) /\ pc[Client] \in {"read", "badline", "overlong"} /\ CommandStays
    BY <1>3, <2>1, MovesTo DEF ReadBadLine, ReadEof, BadLineAnswered, CommandStays, lineVars
  <2> QED
    BY <1>1, <2>2, ClientMoves DEF Kinds
<1>4. CASE CloseJoins
  <2>1. Moves(Client, "closed") /\ pc[Client] = "join" /\ CommandStays
    BY <1>4, MovesTo DEF CloseJoins, Goto, CommandStays, lineVars
  <2>2. \A n \in Starts : ~Alive(n)
    BY <1>4 DEF CloseJoins, WorkerLive, Alive, LInv, Lifecycle, Workers, Starts
  <2> QED
    BY <1>1, <2>1, <2>2, ClientMoves DEF Kinds
<1> QED
  BY <1>2, <1>3, <1>4 DEF ClientReads

\* start() begins to open the capture of a new recording.
LEMMA OpensLives ==
    ASSUME LInv, StartOpens, UNCHANGED run
    PROVE  Lifecycle'
<1> USE TaskFacts, Typed DEF LInv, Lifecycle
<1> DEFINE k == started + 1
<1>1. /\ pc[Client] = "start" /\ holder = Client /\ ~closed /\ ~Engaged /\ ~Opening
      /\ \A n \in Starts : ~Alive(n)
  BY DEF StartOpens, Holds, MustWait, WorkerLive, Engaged, Opening, Alive, Workers, Starts
<1>2. k \in Starts /\ started \in Nat
  BY <1>1, SessionAssumption DEF Inv, Sane, StartsLeft, RecordType, Starts
<1>3. /\ started' = k /\ sid' = [sid EXCEPT ![k] = cmd.id]
      /\ self' = [self EXCEPT !.capture = k, !.id = cmd.id]
      /\ UNCHANGED <<closed, cap, cmd, writer, told, run>>
  BY DEF StartOpens, lineVars, wireVars
<1>4. Moves(Client, "opening")
  BY MovesTo DEF StartOpens, Goto
<1>5. cmd.kind = "start" /\ cmd.id \in Ids
  BY <1>1 DEF Commanded, Kinds
<1>6. /\ cap[k] = Fresh /\ run[k] = FreshRun /\ pc[Timer(k)] = "none" /\ pc[Worker(k)] = "none"
      /\ \A n \in Starts : n > k => n > started
      /\ \A n \in Starts : n <= k => n = k \/ n <= started
  BY <1>2 DEF Ahead, Starts
<1>7. /\ self'.phase = "idle" /\ self'.capture = k /\ self'.id = cmd.id
      /\ self'.worker = self.worker /\ self'.timer = self.timer
      /\ sid'[k] = cmd.id /\ \A n \in Starts \ {k} : sid'[n] = sid[n]
      /\ k # 0 /\ k # started
  BY <1>1, <1>2, <1>3 DEF SelfType, RecordType, Engaged
<1>8. \A n \in Starts : ~Live(cap[n]) /\ pc[Timer(n)] \notin {"sleep", "stop"}
  BY <1>1 DEF Captures, Timers, TimerCurrent, Engaged
<1>9. \A u \in Task \ {Client} : pc[u] \notin Inside
  BY <1>1, Alone
<1> HIDE DEF k
<1>10. Places' /\ Commanded'
  BY <1>3, <1>4, <1>5, <1>7 DEF Places, ClientPlaces, Commanded, Opening, Moves, Kinds
<1>11. Ahead'
  BY <1>2, <1>3, <1>4, <1>6 DEF Ahead, Moves
<1>12. Current'
  BY <1>1, <1>2, <1>3, <1>4, <1>5, <1>6, <1>7 DEF Current, Engaged, Opening, Moves
<1>13. Captures' /\ Finishing' /\ NoLostWakeup'
  BY <1>1, <1>3, <1>4, <1>7, <1>8 DEF Captures, Finishing, NoLostWakeup, Engaged, Alive, Moves
<1>14. Workers' /\ Timers' /\ Shut'
  BY <1>1, <1>3, <1>4, <1>7, <1>8
  DEF Workers, Timers, TimerCurrent, Shut, Engaged, Alive, Opening, Moves
<1>15. Held'
  BY <1>1, <1>3, <1>4, <1>7, <1>9 DEF Held, Engaged, Callers, Moves, Inside
<1>16. Heard'
  BY <1>1, <1>2, <1>3, <1>4, <1>7, <1>9 DEF Heard, Engaged, Moves, Inside
<1> QED
  BY <1>10, <1>11, <1>12, <1>13, <1>14, <1>15, <1>16

\* The capture could not be started.
LEMMA OpenFailsLives ==
    ASSUME LInv, StartFails, UNCHANGED run
    PROVE  Lifecycle'
<1> USE TaskFacts, Typed DEF LInv, Lifecycle
<1>1. /\ pc[Client] = "opening" /\ holder = Client /\ Opening /\ ~Engaged
  BY InsideHolds DEF StartFails, Inside, Inv, Sane, Opening, Current
<1>2. /\ started \in Starts /\ self.id \in Ids /\ cmd.id = self.id /\ cap[started] = Fresh
      /\ pc[Timer(started)] = "none" /\ pc[Worker(started)] = "none"
  BY <1>1, InUse DEF Commanded, Ahead
<1>3. /\ UNCHANGED <<closed, started, sid, writer, run>> /\ self' = Idle
      /\ cap' = [cap EXCEPT ![started] = CancelBegun(cap[started])]
  BY DEF StartFails, wireVars
<1>4. PICK l \in {"reply", "close"} :
        /\ pc' = [pc EXCEPT ![Client] = l] /\ CommandStays
        /\ IF CanWrite THEN told' = [told EXCEPT ![cmd.id] = Hear(@, "error")] ELSE UNCHANGED told
  BY <1>2, Replied DEF StartFails, CommandStays
<1>5. Moves(Client, l)
  BY <1>4, MovesTo
<1>6. /\ self'.phase = "idle" /\ self'.id = NoId /\ self'.capture = 0
      /\ self'.worker = self.worker /\ self'.timer = self.timer
  BY <1>3 DEF Idle, SelfType
<1>7. \A i \in Ids : writer = "open" /\ ~closed => told'[i].phase \notin Promise!Active
  BY <1>1, <1>2, <1>4 DEF Heard, CanWrite, Hear, ToldType, Promise!Active
<1>8. \A u \in Task \ {Client} : pc[u] \notin Inside
  BY <1>1, Alone
<1>9. /\ cap'[started] = CancelBegun(Fresh)
      /\ \A n \in Starts \ {started} : cap'[n] = cap[n]
      /\ CancelBegun(Fresh).proc = "absent" /\ "eof" \notin CancelBegun(Fresh).flags
      /\ "cancelled" \in CancelBegun(Fresh).flags
  BY <1>2, <1>3 DEF CapType, CancelBegun, Fresh, Terminated
<1>10. Places' /\ Commanded'
  BY <1>1, <1>4, <1>5, NotKinds DEF Places, ClientPlaces, Commanded, CommandStays, Opening, Moves, Kinds
<1>11. Ahead' /\ Current'
  BY <1>1, <1>2, <1>3, <1>5, <1>6, <1>9
  DEF Ahead, Current, Engaged, Opening, Moves, RecordType, Starts
<1>12. Captures' /\ Finishing' /\ NoLostWakeup'
  BY <1>1, <1>2, <1>3, <1>5, <1>6, <1>9
  DEF Captures, Finishing, NoLostWakeup, Engaged, Alive, Live, Moves
<1>13. Workers' /\ Timers' /\ Shut'
  BY <1>1, <1>2, <1>3, <1>5, <1>6
  DEF Workers, Timers, TimerCurrent, Shut, Engaged, Alive, Opening, Moves
<1>14. Held'
  BY <1>1, <1>3, <1>5, <1>6, <1>8 DEF Held, Engaged, Callers, Moves, Inside
<1>15. Heard'
  BY <1>1, <1>3, <1>5, <1>6, <1>7, <1>8 DEF Heard, Engaged, Moves, Inside
<1> QED
  BY <1>10, <1>11, <1>12, <1>13, <1>14, <1>15

\* The microphone is on, and the client is told so if it can be.
LEMMA RecordsLives ==
    ASSUME LInv, NEW limited \in BOOLEAN, StartRecords(limited), UNCHANGED run
    PROVE  Lifecycle'
<1> USE TaskFacts, Typed DEF LInv, Lifecycle
<1> DEFINE p == IF limited THEN [pc EXCEPT ![Timer(started)] = "sleep"] ELSE pc
           k == IF limited THEN started ELSE 0
           s == IF limited THEN "sleep" ELSE "none"
<1>1. /\ pc[Client] = "opening" /\ holder = Client /\ Opening /\ ~Engaged /\ ~closed
  BY InsideHolds DEF StartRecords, Inside, Inv, Sane, Opening, Current
<1>2. /\ started \in Starts /\ self.id \in Ids /\ cmd.id = self.id /\ cap[started] = Fresh
      /\ self.capture = started /\ self.id = sid[started] /\ cmd.kind = "start"
      /\ pc[Timer(started)] = "none" /\ pc[Worker(started)] = "none" /\ run[started] = FreshRun
  BY <1>1, InUse DEF Commanded, Ahead
<1>3. /\ UNCHANGED <<closed, started, sid, writer, run>>
      /\ self' = [self EXCEPT !.phase = "recording", !.timer = k]
      /\ cap' = [cap EXCEPT ![started] = Spawned(cap[started])]
  BY DEF StartRecords, wireVars
<1>4. Reply(Client, cmd.id, "recording", p)
  BY DEF StartRecords
<1>5. PICK l \in {"reply", "close"} :
        /\ pc' = [p EXCEPT ![Client] = l]
        /\ IF CanWrite
           THEN /\ l = "reply" /\ UNCHANGED cmd
                /\ told' = [told EXCEPT ![cmd.id] = Hear(@, "recording")]
           ELSE l = "close" /\ UNCHANGED told /\ CommandStays
  <2> HIDE DEF p
  <2> QED
    BY <1>2, <1>4 DEF Reply, Tell, Raise, Forget, CommandStays
<1>6. /\ pc'[Client] = l /\ pc'[Timer(started)] = s
      /\ \A u \in Task \ {Client, Timer(started)} : pc'[u] = pc[u]
  BY <1>2, <1>5 DEF PcType
<1>7. /\ self'.phase = "recording" /\ self'.id = self.id /\ self'.capture = self.capture
      /\ self'.worker = self.worker /\ self'.timer = k
  BY <1>3 DEF SelfType
<1>8. /\ cap'[started] = Spawned(Fresh)
      /\ \A n \in Starts \ {started} : cap'[n] = cap[n]
      /\ Spawned(Fresh).proc = "running" /\ Spawned(Fresh).flags = {}
      /\ Spawned(Fresh).queue = 0 /\ Spawned(Fresh).taken = 0 /\ Spawned(Fresh).read = 0
  BY <1>2, <1>3 DEF CapType, Spawned, Fresh
<1>9. \A u \in Task \ {Client} : pc[u] \notin Inside
  BY <1>1, Alone
<1>10. writer = "open" =>
         /\ told'[self.id].phase = "recording" /\ told'[self.id].segment = 1
         /\ told'[self.id].seq = 0
         /\ \A i \in Ids \ {self.id} : told'[i].phase \notin Promise!Active
  BY <1>1, <1>2, <1>5 DEF Heard, CanWrite, Hear, ToldType
<1>11. /\ \A n \in Starts : ~Alive(n) /\ ~Live(cap[n])
       /\ \A n \in Starts : pc[Timer(n)] \notin {"sleep", "stop"}
  BY <1>1 DEF Workers, Captures, Timers, TimerCurrent, Engaged
<1>12. s \in {"sleep", "none"} /\ (s = "sleep" => k = started)
  OBVIOUS
<1> HIDE DEF p, s, k
<1>13. Places'
  BY <1>2, <1>6, <1>12 DEF Places, ClientPlaces, TimerPlaces
<1>14. Commanded'
  BY <1>1, <1>2, <1>5, <1>6, NotKinds DEF Commanded, CommandStays, Opening, Kinds
<1>15. Ahead' /\ Current'
  BY <1>1, <1>2, <1>3, <1>6, <1>7, <1>8 DEF Ahead, Current, Engaged, Opening, RecordType, Starts
<1>16. Captures' /\ Finishing' /\ NoLostWakeup'
  BY <1>2, <1>3, <1>6, <1>7, <1>8, <1>11
  DEF Captures, Finishing, NoLostWakeup, Engaged, Alive, Live
<1>17. Workers'
  BY <1>1, <1>2, <1>3, <1>5, <1>6, <1>7, <1>11 DEF Workers, Engaged, Alive, Opening
<1>18. Timers' /\ Shut'
  BY <1>1, <1>2, <1>3, <1>6, <1>7, <1>9, <1>11, <1>12
  DEF Timers, TimerCurrent, Shut, Engaged, Alive, Inside
<1>19. Held'
  BY <1>2, <1>3, <1>6, <1>7, <1>9, <1>12 DEF Held, Engaged, Callers, Inside
<1>20. Heard'
  <2>1. ~Sealing' /\ Segment(started)' = 1 /\ run'[started].seq = 0
    BY <1>2, <1>3, <1>6, <1>9, <1>12 DEF Sealing, Callers, Segment, FreshRun, Inside
  <2> QED
    BY <1>2, <1>3, <1>6, <1>7, <1>9, <1>10, <2>1 DEF Heard, Engaged, Inside
<1> QED
  BY <1>13, <1>14, <1>15, <1>16, <1>17, <1>18, <1>19, <1>20

\* cancel(), close() and a failing worker give the capture up and stop the
\* timer; the session stays in use until the capture has ended.
LEMMA GivesUp ==
    ASSUME LInv, Engaged, NEW t \in Task, holder = t, NEW l, Clears(t, l),
           self' = [self EXCEPT !.timer = 0],
           cap' = [cap EXCEPT ![started] = CancelBegun(@)],
           UNCHANGED <<started, sid, told, run, cmd, writer>>,
           closed => closed',
           \/ /\ t = Client /\ l = "cancelling" /\ pc[t] = "cancel"
              /\ cmd.id = self.id /\ UNCHANGED closed
           \/ t = Client /\ l = "closing" /\ pc[t] = "close" /\ closed'
           \/ t = Worker(started) /\ l = "losing" /\ pc[t] = "lost" /\ closed'
           \/ t = Worker(started) /\ l = "failing" /\ pc[t] = "fail" /\ UNCHANGED closed
    PROVE  Lifecycle'
<1> USE TaskFacts, Typed DEF LInv, Lifecycle
<1>1. /\ started \in Starts /\ self.capture = started /\ self.id = sid[started]
      /\ self.id \in Ids /\ cap[started] \in Capture
  BY InUse
<1>2. /\ self'.phase = self.phase /\ self'.id = self.id /\ self'.capture = self.capture
      /\ self'.worker = self.worker /\ self'.timer = 0
  BY DEF SelfType
<1>3. /\ pc'[t] = l
      /\ \A n \in Starts : Worker(n) # t => pc'[Worker(n)] = pc[Worker(n)]
      /\ Client # t => pc'[Client] = pc[Client]
      /\ \A n \in Starts :
            \/ pc'[Timer(n)] = pc[Timer(n)] /\ pc[Timer(n)] \notin {"sleep", "stop"}
            \/ pc[Timer(n)] \in {"sleep", "stop"} /\ pc'[Timer(n)] \in {"done", "cancelled"}
  BY <1>1 DEF Clears
<1>4. /\ cap'[started] = CancelBegun(cap[started])
      /\ \A n \in Starts \ {started} : cap'[n] = cap[n]
  BY <1>1 DEF CapType
<1>5. /\ CancelBegun(cap[started]).queue = cap[started].queue
      /\ CancelBegun(cap[started]).flags = cap[started].flags \cup {"stopping", "cancelled", "available"}
      /\ CancelBegun(cap[started]).proc \in {cap[started].proc, "terminating"}
      /\ cap[started].proc \in {"absent", "exited"} =>
             CancelBegun(cap[started]).proc = cap[started].proc
  BY <1>1 DEF Capture, CancelBegun, Terminated
<1>6. \A u \in Task \ {t} : pc[u] \notin Inside
  BY Alone
<1>7. Places' /\ Commanded'
  BY <1>1, <1>2, <1>3 DEF Places, ClientPlaces, TimerPlaces, WorkerPlaces, Commanded, Opening, Kinds
<1>8. Ahead'
  BY <1>1, <1>3, <1>4, <1>6 DEF Ahead, Opening, Inside, RecordType, Starts
<1>9. Current'
  BY <1>1, <1>2, <1>3, <1>6 DEF Current, Engaged, Opening, Inside
<1>10. Captures'
  BY <1>1, <1>2, <1>3, <1>4, <1>5, <1>6 DEF Captures, Engaged, Live, Inside
<1>11. Finishing' /\ NoLostWakeup'
  BY <1>1, <1>2, <1>3, <1>4, <1>5 DEF Finishing, NoLostWakeup, Alive
<1>12. Workers'
  BY <1>1, <1>2, <1>3, <1>6 DEF Workers, Alive, Engaged, Opening, Inside
<1>13. Timers'
  BY <1>1, <1>2, <1>3 DEF Timers, TimerCurrent
<1>14. Held'
  BY <1>1, <1>2, <1>3, <1>4, <1>5, <1>6 DEF Held, Engaged, Callers, Inside
<1>15. Shut'
  BY <1>1, <1>2, <1>3, <1>6 DEF Shut, Alive, Engaged, Inside
<1>16. Heard'
  <2>1. ~Sealing /\ ~Sealing' /\ Segment(started)' = Segment(started)
    BY <1>1, <1>3, <1>6 DEF Sealing, Callers, Segment, Inside
  <2> QED
    BY <1>1, <1>2, <1>3, <1>6, <2>1 DEF Heard, Engaged, Inside
<1> QED
  BY <1>7, <1>8, <1>9, <1>10, <1>11, <1>12, <1>13, <1>14, <1>15, <1>16

LEMMA CancelLives ==
    ASSUME LInv, CancelBegins \/ CancelsRecognition \/ CancelEnds, UNCHANGED run
    PROVE  Lifecycle'
<1> USE TaskFacts, Typed
<1>1. CASE CancelBegins
  <2>1. /\ holder = Client /\ pc[Client] = "cancel" /\ Engaged /\ cmd.id = self.id
        /\ self' = [self EXCEPT !.timer = 0]
        /\ cap' = [cap EXCEPT ![self.capture] = CancelBegun(@)]
        /\ pc' = [Cleared(Client) EXCEPT ![Client] = "cancelling"]
        /\ UNCHANGED <<closed, started, sid, told, run, cmd, writer>>
    BY <1>1 DEF CancelBegins, Cancels, Holds, Engaged, lineVars, wireVars
  <2>2. self.capture = started
    BY <2>1, InUse
  <2>3. Clears(Client, "cancelling")
    BY <2>1, ClearsTo DEF LInv, Lifecycle, Timers
  <2> QED
    BY <2>1, <2>2, <2>3, GivesUp
<1>2. CASE CancelsRecognition
  <2>1. Engaged /\ self.capture = 0
    BY <1>2 DEF CancelsRecognition, Cancels, Engaged
  <2> QED
    BY <2>1, InUse DEF Starts
<1>3. CASE CancelEnds
  <2>1. pc[Client] = "cancelling" /\ holder = Client /\ self' = Idle /\ Finished(cap[self.capture])
        /\ UNCHANGED <<closed, started, sid, run, writer>>
        /\ cap' = [cap EXCEPT ![self.capture] = Emptied(@)]
        /\ Reply(Client, cmd.id, "cancelled", pc)
    BY <1>3, InsideHolds DEF CancelEnds, Inside, wireVars, LInv, Inv, Sane
  <2>2. Engaged /\ cmd.id = self.id /\ self.timer = 0 /\ "cancelled" \in cap[started].flags
    BY <2>1 DEF LInv, Lifecycle, Held, Commanded, Timers
  <2>3. /\ started \in Starts /\ self.capture = started /\ self.id \in Ids
        /\ "eof" \in cap[started].flags
    BY <2>1, <2>2, InUse DEF LInv, Lifecycle, Captures, Finished
  <2>4. PICK l \in {"reply", "close"} :
          /\ pc' = [pc EXCEPT ![Client] = l] /\ CommandStays
          /\ IF CanWrite THEN told' = [told EXCEPT ![self.id] = Hear(@, "cancelled")]
             ELSE UNCHANGED told
    BY <2>1, <2>2, <2>3 DEF Reply, Tell, Raise, Forget, CommandStays
  <2>5. Moves(Client, l)
    BY <2>4, MovesTo
  <2>6. /\ writer = "open" => told'[self.id].phase = "cancelled"
        /\ \A i \in Ids : i # self.id => told'[i] = told[i]
    BY <2>3, <2>4 DEF CanWrite, Hear, ToldType
  <2>7. pc[Client] \in Inside
    BY <2>1 DEF Inside
  <2> DEFINE c == Emptied(cap[started])
  <2>8. cap' = [cap EXCEPT ![started] = c]
    BY <2>1, <2>3
  <2> HIDE DEF c
  <2>9. c = Emptied(cap[started])
    BY DEF c
  <2> QED
    BY <2>1, <2>2, <2>3, <2>4, <2>5, <2>6, <2>7, <2>8, <2>9, SessionEnds
    DEF WriterKept, Promise!Active
<1> QED
  BY <1>1, <1>2, <1>3

LEMMA CloseLives ==
    ASSUME LInv, CloseBegins \/ CloseEnds, UNCHANGED run
    PROVE  Lifecycle'
<1> USE TaskFacts, Typed
<1>1. CASE CloseBegins /\ self.capture # 0
  <2>1. /\ holder = Client /\ pc[Client] = "close" /\ closed'
        /\ self' = [self EXCEPT !.timer = 0]
        /\ cap' = [cap EXCEPT ![self.capture] = CancelBegun(@)]
        /\ pc' = [Cleared(Client) EXCEPT ![Client] = "closing"]
        /\ UNCHANGED <<started, sid, told, run, cmd, writer>>
    BY <1>1 DEF CloseBegins, Holds, lineVars, wireVars
  <2>2. Engaged
    BY <1>1, <2>1 DEF LInv, Lifecycle, Current, Opening
  <2>3. self.capture = started
    BY <2>2, InUse
  <2>4. Clears(Client, "closing")
    BY <2>1, ClearsTo DEF LInv, Lifecycle, Timers
  <2> QED
    BY <2>1, <2>2, <2>3, <2>4, GivesUp
<1>2. CASE CloseBegins /\ self.capture = 0
  <2> USE DEF LInv, Lifecycle
  <2>1. /\ holder = Client /\ pc[Client] = "close" /\ closed'
        /\ self' = [Idle EXCEPT !.timer = 0] /\ UNCHANGED cap
        /\ pc' = [Cleared(Client) EXCEPT ![Client] = "join"]
        /\ UNCHANGED <<started, sid, told, run, cmd, writer>>
    BY <1>2 DEF CloseBegins, Holds, lineVars, wireVars
  <2>2. ~Engaged /\ ~Opening
    BY <1>2, <2>1, InUse DEF Opening, Starts
  <2>3. \A n \in Starts : pc[Timer(n)] \notin {"sleep", "stop"}
    BY <2>2 DEF Timers, TimerCurrent, Engaged
  <2>4. Clears(Client, "join")
    BY <2>1, ClearsTo DEF Timers
  <2>5. Moves(Client, "join")
    BY <2>3, <2>4 DEF Clears, Moves
  <2>6. \A u \in Task \ {Client} : pc[u] \notin Inside
    BY <2>1, Alone
  <2>7. /\ self'.phase = "idle" /\ self'.id = NoId /\ self'.capture = 0
        /\ self'.worker = self.worker /\ self'.timer = 0
    BY <2>1 DEF Idle, SelfType
  <2>8. Places' /\ Commanded' /\ Ahead'
    BY <2>1, <2>2, <2>5 DEF Places, ClientPlaces, Commanded, Ahead, Opening, Kinds, Moves
  <2>9. Current' /\ Captures' /\ Finishing' /\ NoLostWakeup'
    BY <2>1, <2>2, <2>5, <2>7
    DEF Current, Captures, Finishing, NoLostWakeup, Alive, Engaged, Opening, Moves
  <2>10. Workers' /\ Timers' /\ Held'
    BY <2>1, <2>2, <2>3, <2>5, <2>6, <2>7
    DEF Workers, Timers, TimerCurrent, Held, Alive, Engaged, Opening, Callers, Moves, Inside
  <2>11. Shut'
    BY <2>3, <2>5, <2>6, <2>7 DEF Shut, Alive, Engaged, Moves, Inside, Places, TimerPlaces
  <2>12. Heard'
    BY <2>1, <2>5, <2>6 DEF Heard, Moves, Inside
  <2> QED
    BY <2>8, <2>9, <2>10, <2>11, <2>12
<1>3. CASE CloseEnds
  <2>1. pc[Client] = "closing" /\ holder = Client /\ self' = Idle /\ Finished(cap[self.capture])
        /\ UNCHANGED <<closed, started, sid, run, writer, cmd, told>>
        /\ cap' = [cap EXCEPT ![self.capture] = Emptied(@)]
        /\ Moves(Client, "join")
    BY <1>3, InsideHolds, MovesTo
    DEF CloseEnds, Inside, wireVars, lineVars, LInv, Inv, Sane, Goto
  <2>2. Engaged /\ closed /\ self.timer = 0 /\ "cancelled" \in cap[started].flags
    BY <2>1 DEF LInv, Lifecycle, Held, Timers
  <2>3. /\ started \in Starts /\ self.capture = started /\ self.id \in Ids
        /\ "eof" \in cap[started].flags
    BY <2>1, <2>2, InUse DEF LInv, Lifecycle, Captures, Finished
  <2>4. pc[Client] \in Inside
    BY <2>1 DEF Inside
  <2> DEFINE c == Emptied(cap[started])
  <2>5. cap' = [cap EXCEPT ![started] = c]
    BY <2>1, <2>3
  <2> HIDE DEF c
  <2>6. c = Emptied(cap[started])
    BY DEF c
  <2> QED
    BY <2>1, <2>2, <2>3, <2>4, <2>5, <2>6, SessionEnds DEF WriterKept, CommandStays
<1> QED
  BY <1>1, <1>2, <1>3

(***************************************************************************)
(* stop(), called by the connection task or by a timer                     *)
(***************************************************************************)

LEMMA StopBeginsLives ==
    ASSUME LInv, NEW t \in Callers, StopBegins(t)
    PROVE  Lifecycle'
<1> USE TaskFacts, Typed DEF LInv, Lifecycle
<1>1. /\ holder = t /\ pc[t] = "stop" /\ ~closed /\ Engaged /\ self.phase = "recording"
      /\ UNCHANGED <<closed, started, sid, told, run, cmd, writer>>
  BY DEF StopBegins, Holds, Engaged, lineVars, wireVars
<1>2. /\ started \in Starts /\ self.capture = started /\ self.id = sid[started]
      /\ self.id \in Ids /\ cap[started] \in Capture
  BY <1>1, InUse
<1>3. /\ self' = [self EXCEPT !.phase = "transcribing", !.timer = 0]
      /\ cap' = [cap EXCEPT ![started] = Sealed(cap[started])]
      /\ pc' = [Cleared(t) EXCEPT ![t] = "stopping"]
  BY <1>2 DEF StopBegins
<1>4. t \in Task /\ Clears(t, "stopping") /\ \A n \in Starts : t # Worker(n)
  <2>1. t \in Task /\ \A n \in Starts : t # Worker(n)
    BY DEF Callers
  <2> QED
    BY <1>3, <2>1, ClearsTo DEF Timers
<1>5. /\ self'.phase = "transcribing" /\ self'.id = self.id /\ self'.capture = self.capture
      /\ self'.worker = self.worker /\ self'.timer = 0
  BY <1>3 DEF SelfType
<1>6. /\ pc'[t] = "stopping"
      /\ \A n \in Starts : pc'[Worker(n)] = pc[Worker(n)]
      /\ Client # t => pc'[Client] = pc[Client]
      /\ \A n \in Starts : Timer(n) # t =>
            \/ pc'[Timer(n)] = pc[Timer(n)] /\ pc[Timer(n)] \notin {"sleep", "stop"}
            \/ pc[Timer(n)] \in {"sleep", "stop"} /\ pc'[Timer(n)] \in {"done", "cancelled"}
  BY <1>4 DEF Clears
<1>7. /\ cap'[started] = Sealed(cap[started])
      /\ \A n \in Starts \ {started} : cap'[n] = cap[n]
  BY <1>2, <1>3 DEF CapType
<1>8. /\ Sealed(cap[started]).queue = cap[started].queue
      /\ Sealed(cap[started]).taken = cap[started].taken
      /\ Sealed(cap[started]).read = cap[started].read
      /\ Sealed(cap[started]).flags = cap[started].flags \cup {"stopping"}
      /\ Sealed(cap[started]).proc \in {cap[started].proc, "terminating"}
      /\ cap[started].proc \in {"absent", "exited"} =>
             Sealed(cap[started]).proc = cap[started].proc
  BY <1>2 DEF Capture, Sealed, Terminated
<1>9. \A u \in Task \ {t} : pc[u] \notin Inside
  BY <1>1, <1>4, Alone
<1>10. Places'
  BY <1>2, <1>4, <1>6 DEF Places, ClientPlaces, TimerPlaces, Callers
<1>11. Commanded'
  BY <1>1, <1>4, <1>5, <1>6 DEF Commanded, Opening, Kinds, Callers
<1>12. Ahead'
  BY <1>1, <1>2, <1>4, <1>6, <1>7, <1>9 DEF Ahead, Opening, Inside, RecordType, Starts
<1>13. Current'
  BY <1>1, <1>2, <1>4, <1>5, <1>6, <1>9 DEF Current, Engaged, Opening, Inside
<1>14. Captures'
  BY <1>1, <1>2, <1>4, <1>5, <1>6, <1>7, <1>8, <1>9 DEF Captures, Engaged, Live, Inside
<1>15. Finishing' /\ NoLostWakeup'
  <2>1. Finishing'
    BY <1>1, <1>2, <1>5, <1>6, <1>7, <1>8 DEF Finishing, Alive
  <2>2. NoLostWakeup'
    BY <1>2, <1>6, <1>7, <1>8 DEF NoLostWakeup
  <2> QED
    BY <2>1, <2>2
<1>16. Workers'
  BY <1>1, <1>2, <1>4, <1>5, <1>6, <1>9 DEF Workers, Alive, Engaged, Opening, Inside
<1>17. Timers'
  BY <1>1, <1>2, <1>4, <1>5, <1>6, <1>9 DEF Timers, TimerCurrent, Inside
<1>18. Held'
  BY <1>1, <1>2, <1>4, <1>5, <1>6, <1>7, <1>8, <1>9 DEF Held, Engaged, Callers, Inside
<1>19. Shut'
  BY <1>1, <1>2, <1>4, <1>5, <1>6, <1>9 DEF Shut, Alive, Engaged, Inside
<1>20. Heard'
  <2>1. Sealing' /\ Segment(started)' = Segment(started)
    BY <1>1, <1>2, <1>6 DEF Sealing, Segment
  <2> QED
    BY <1>1, <1>2, <1>4, <1>5, <1>6, <1>9, <2>1 DEF Heard, Engaged, Inside
<1> QED
  BY <1>10, <1>11, <1>12, <1>13, <1>14, <1>15, <1>16, <1>17, <1>18, <1>19, <1>20

\* The capture is sealed and the client hears that the recording is over.
LEMMA AnnouncesLives ==
    ASSUME LInv, NEW t \in Callers, StopSealed(t), CanWrite
    PROVE  Lifecycle'
<1> USE TaskFacts, Typed DEF LInv, Lifecycle
<1>1. /\ pc[t] = "stopping" /\ t \in Task /\ \A n \in Starts : t # Worker(n)
      /\ Tell(self.id, "transcribing") /\ Moves(t, "announce")
      /\ UNCHANGED <<self, closed, cap, cmd, started, sid, writer, run>>
      /\ Finished(cap[self.capture]) /\ writer = "open"
  BY MovesTo DEF StopSealed, Callers, Goto, wireVars, CanWrite
<1>2. holder = t /\ self.phase = "transcribing" /\ Engaged
  BY <1>1, InsideHolds DEF Inside, Inv, Sane, Held, Engaged
<1>3. /\ started \in Starts /\ self.capture = started /\ self.id = sid[started]
      /\ self.id \in Ids /\ "eof" \in cap[started].flags
  BY <1>1, <1>2, InUse DEF Captures, Finished
<1>4. \A u \in Task \ {t} : pc[u] \notin Inside
  BY <1>1, <1>2, Alone
<1>5. told' = [told EXCEPT ![self.id] = Hear(@, "transcribing")]
  BY <1>1, <1>3 DEF Tell
<1>6. /\ told'[self.id].phase = "transcribing"
      /\ told'[self.id].seq = told[self.id].seq /\ told'[self.id].segment = told[self.id].segment
      /\ \A i \in Ids \ {self.id} : told'[i] = told[i]
  BY <1>3, <1>5 DEF Hear, ToldType
<1>7. Places' /\ Commanded' /\ Ahead' /\ Current'
  BY <1>1, <1>4
  DEF Places, ClientPlaces, TimerPlaces, Commanded, Ahead, Current, Opening, Engaged, Kinds,
      Callers, Moves, Inside
<1>8. Captures' /\ Finishing' /\ NoLostWakeup'
  BY <1>1, <1>4 DEF Captures, Finishing, NoLostWakeup, Alive, Engaged, Moves, Inside
<1>9. Workers' /\ Timers' /\ Held' /\ Shut'
  BY <1>1, <1>2, <1>3, <1>4
  DEF Workers, Timers, TimerCurrent, Held, Shut, Alive, Engaged, Opening, Callers, Moves, Inside
<1>10. Heard'
  <2>1. ~Sealing' /\ Segment(started)' = Segment(started) /\ Sealing
    BY <1>1, <1>3, <1>4 DEF Sealing, Segment, Callers, Moves, Inside
  <2>2. writer = "open" /\ ~closed =>
           \A i \in Ids \ {self.id} : told'[i].phase \notin Promise!Active
    BY <1>6 DEF Heard
  <2> QED
    BY <1>1, <1>2, <1>3, <1>4, <1>6, <2>1, <2>2 DEF Heard, Engaged, Moves, Inside
<1> QED
  BY <1>7, <1>8, <1>9, <1>10

\* stop() returns as if it had succeeded, without a session.
LEMMA LosesLives ==
    ASSUME LInv, NEW t \in Callers, holder = t, pc[t] \in {"stopping", "announce"},
           StopLoses(t), "eof" \in cap[self.capture].flags,
           UNCHANGED <<started, sid, told, run>>, WriterKept
    PROVE  Lifecycle'
<1> USE TaskFacts, Typed
<1>1. self.phase = "transcribing" /\ Engaged
  BY DEF LInv, Lifecycle, Held, Engaged
<1>2. self.capture = started
  BY <1>1, InUse
<1>3. t \in Task /\ (t = Client \/ \E n \in Starts : t = Timer(n))
  BY DEF Callers
<1> DEFINE l == IF t = Client THEN "read" ELSE "done"
           c == Emptied(CancelBegun(cap[started]))
<1>4. Moves(t, l)
  BY <1>3, MovesTo DEF StopLoses, Goto
<1>5. /\ self' = Idle /\ closed' /\ cap' = [cap EXCEPT ![started] = c]
      /\ IF t = Client THEN CommandStays ELSE UNCHANGED cmd
  BY <1>2 DEF StopLoses, CaptureDropped, Forget, CommandStays
<1>6. c = Emptied(CancelBegun(cap[started])) /\ pc[t] \in Inside
      /\ (c = Emptied(cap[started]) => "cancelled" \in cap[started].flags)
  <2>1. cap[started] \in Capture
    BY <1>1, InUse
  <2>2. "cancelled" \in Emptied(CancelBegun(cap[started])).flags
        /\ Emptied(cap[started]).flags = cap[started].flags
    BY <2>1 DEF Capture, Emptied, CancelBegun, Terminated
  <2> QED
    BY <2>2 DEF Inside
<1> HIDE DEF c
<1> QED
  BY <1>1, <1>2, <1>3, <1>4, <1>5, <1>6, SessionEnds

LEMMA StopLives ==
    ASSUME LInv, NEW t \in Callers, StopSealed(t) \/ StopAnnounced(t) \/ StopBreaks(t)
    PROVE  Lifecycle'
<1> USE TaskFacts, Typed
<1>0. /\ t \in Task /\ (t = Client \/ \E n \in Starts : t = Timer(n))
      /\ holder = t /\ pc[t] \in {"stopping", "announce"} /\ WriterKept
      /\ UNCHANGED <<started, sid, run>>
  BY InsideHolds DEF StopSealed, StopAnnounced, StopBreaks, Inside, LInv, Inv, Sane, Callers,
                     WriterKept, Drained, DrainFails, wireVars
<1>1. self.phase = "transcribing" /\ Engaged
  BY <1>0 DEF LInv, Lifecycle, Held, Engaged
<1>2. /\ started \in Starts /\ self.capture = started /\ self.id \in Ids
      /\ cap[started] \in Capture
  BY <1>1, InUse
<1>3. Finished(cap[started]) => "eof" \in cap[started].flags
  BY <1>1, <1>2 DEF LInv, Lifecycle, Captures, Finished
<1>4. CASE StopSealed(t)
  <2>1. CASE CanWrite
    BY <1>4, <2>1, AnnouncesLives
  <2>2. CASE ~CanWrite
    BY <1>0, <1>2, <1>3, <1>4, <2>2, LosesLives DEF StopSealed
  <2> QED
    BY <2>1, <2>2
<1>5. CASE StopAnnounced(t)
  <2>1. pc[t] = "announce" /\ UNCHANGED told
    BY <1>5 DEF StopAnnounced
  <2>2. CASE Return(t) /\ UNCHANGED <<closed, cap>>
    BY <1>0, <2>1, <2>2, ReturnLives
  <2>3. CASE StopLoses(t)
    BY <1>0, <1>2, <2>1, <2>3, LosesLives DEF LInv, Lifecycle, Held
  <2> QED
    BY <1>5, <2>2, <2>3 DEF StopAnnounced
<1>6. CASE StopBreaks(t)
  <2>1. /\ self' = Idle /\ "eof" \in cap[started].flags /\ UNCHANGED <<closed, writer>>
        /\ Reply(t, self.id, "error", pc) /\ cap' = CaptureDropped
    BY <1>2, <1>3, <1>6 DEF StopBreaks, wireVars
  <2>2. PICK l \in {"reply", "close", "done"} :
          /\ pc' = [pc EXCEPT ![t] = l]
          /\ t = Client => l # "done"
          /\ t # Client => l # "close"
          /\ IF t = Client THEN CommandStays ELSE UNCHANGED cmd
          /\ IF CanWrite THEN told' = [told EXCEPT ![self.id] = Hear(@, "error")]
             ELSE UNCHANGED told
    BY <1>2, <2>1 DEF Reply, Tell, Raise, Forget, CommandStays
  <2>3. Moves(t, l)
    BY <1>0, <2>2, MovesTo
  <2>4. /\ writer = "open" => told'[self.id].phase = "error"
        /\ \A i \in Ids : i # self.id => told'[i] = told[i]
    BY <1>2, <2>2 DEF CanWrite, Hear, ToldType
  <2> DEFINE c == Emptied(CancelBegun(cap[started]))
  <2>5. cap' = [cap EXCEPT ![started] = c]
    BY <1>2, <2>1 DEF CaptureDropped
  <2>6. c = Emptied(CancelBegun(cap[started])) /\ pc[t] \in Inside
        /\ (c = Emptied(cap[started]) => "cancelled" \in cap[started].flags)
    <3>1. "cancelled" \in Emptied(CancelBegun(cap[started])).flags
          /\ Emptied(cap[started]).flags = cap[started].flags
      BY <1>2 DEF Capture, Emptied, CancelBegun, Terminated
    <3> QED
      BY <1>0, <3>1 DEF Inside
  <2> HIDE DEF c
  <2> QED
    BY <1>0, <1>1, <1>2, <2>1, <2>2, <2>3, <2>4, <2>5, <2>6, SessionEnds
    DEF WriterKept, Promise!Active
<1> QED
  BY <1>4, <1>5, <1>6

(***************************************************************************)
(* The capture child, the client's end, and the timers                     *)
(***************************************************************************)

\* What a step of the capture child or of its reader leaves of a capture.
LEMMA CaptureSteps ==
    ASSUME NEW c \in Capture, NEW d,
           \/ CanRead(c) /\ d = Read(c)
           \/ CanExit(c) /\ d = Exited(c)
           \/ CanEnd(c) /\ \E odd \in BOOLEAN : d = Ended(c, odd)
    PROVE  /\ c.proc # "absent" /\ d.proc # "absent" /\ c.flags \subseteq d.flags
           /\ Live(d) => Live(c)
           /\ c.proc = "exited" => d.proc = "exited"
           /\ "cancelled" \in d.flags => "cancelled" \in c.flags
           /\ "eof" \in d.flags => d.proc = "exited" \/ "eof" \in c.flags
           /\ "eof" \in d.flags /\ "eof" \notin c.flags => "available" \in d.flags
           /\ c.taken + c.queue = c.read => d.taken + d.queue = d.read
           /\ "eof" \in c.flags => d.queue = c.queue
           /\ "available" \in d.flags \/ d.queue = c.queue
<1> USE StreamingAssumption
<1>1. CASE CanRead(c) /\ d = Read(c)
  <2>1. CASE c.queue < MaxQueue
    <3> DEFINE q == c.queue + 1
               k == c.read + 1
               f == c.flags \cup {"available"}
    <3>1. q \in Nat /\ k \in Nat /\ c.taken \in Nat
      BY DEF Capture
    <3>2. d = [c EXCEPT !.queue = q, !.read = k, !.flags = f]
      BY <1>1, <2>1 DEF Read
    <3>3. /\ d.queue = q /\ d.read = k /\ d.flags = f /\ d.proc = c.proc /\ d.taken = c.taken
      <4> HIDE DEF q, k, f
      <4> QED
        BY <3>2 DEF Capture
    <3>4. c.taken + c.queue = c.read => d.taken + d.queue = d.read
      BY <3>3 DEF Capture
    <3> QED
      BY <1>1, <3>3, <3>4 DEF CanRead, Live
  <2>2. CASE ~(c.queue < MaxQueue)
    <3>1. d = Terminated(c, {"failed"})
      BY <1>1, <2>2 DEF Read
    <3>2. /\ d.queue = c.queue /\ d.read = c.read /\ d.taken = c.taken
          /\ d.flags = c.flags \cup {"failed"}
          /\ d.proc = IF c.proc = "running" THEN "terminating" ELSE c.proc
      BY <3>1 DEF Terminated, Capture
    <3> QED
      BY <1>1, <3>2 DEF CanRead, Live
  <2> QED
    BY <2>1, <2>2
<1>2. CASE CanExit(c) /\ d = Exited(c)
  BY <1>2 DEF CanExit, Exited, Capture, Live
<1>3. ASSUME NEW odd \in BOOLEAN, CanEnd(c), d = Ended(c, odd)
      PROVE  /\ d.proc = "exited" /\ c.proc = "exited" /\ c.flags \subseteq d.flags
             /\ "cancelled" \in d.flags => "cancelled" \in c.flags
             /\ "available" \in d.flags
             /\ d.queue = c.queue /\ d.taken = c.taken /\ d.read = c.read
  <2> DEFINE x == IF Streaming /\ ("stopping" \notin c.flags \/ odd) THEN {"failed"} ELSE {}
             f == c.flags \cup {"available", "eof"} \cup x
  <2>1. x \subseteq {"failed"}
    OBVIOUS
  <2>2. d = [c EXCEPT !.flags = f]
    BY <1>3 DEF Ended
  <2>3. d.flags = f /\ d.proc = c.proc /\ d.queue = c.queue /\ d.taken = c.taken /\ d.read = c.read
    <3> HIDE DEF f
    <3> QED
      BY <2>2 DEF Capture
  <2> HIDE DEF x
  <2> QED
    BY <1>3, <2>1, <2>3 DEF CanEnd
<1>4. CASE CanEnd(c) /\ \E odd \in BOOLEAN : d = Ended(c, odd)
  BY <1>3, <1>4 DEF Live
<1> QED
  BY <1>1, <1>2, <1>4

LEMMA CaptureLives ==
    ASSUME LInv, NEW n \in Starts, CaptureStep(n), UNCHANGED run
    PROVE  Lifecycle'
<1> USE TaskFacts, Typed DEF LInv, Lifecycle
<1>1. UNCHANGED <<self, closed, started, sid, pc, cmd, writer, told, run>>
  BY DEF CaptureStep, lineVars, wireVars
<1>2. cap[n] \in Capture
  BY DEF CapType
<1>3. PICK d : /\ cap' = [cap EXCEPT ![n] = d]
               /\ \/ CanRead(cap[n]) /\ d = Read(cap[n])
                  \/ CanExit(cap[n]) /\ d = Exited(cap[n])
                  \/ CanEnd(cap[n]) /\ \E odd \in BOOLEAN : d = Ended(cap[n], odd)
  BY DEF CaptureStep, CaptureReads, CaptureExits, CaptureEnds
<1> DEFINE c == cap[n]
<1>4. /\ c.proc # "absent" /\ d.proc # "absent" /\ c.flags \subseteq d.flags
      /\ Live(d) => Live(c)
      /\ c.proc = "exited" => d.proc = "exited"
      /\ "cancelled" \in d.flags => "cancelled" \in c.flags
      /\ "eof" \in d.flags => d.proc = "exited" \/ "eof" \in c.flags
      /\ "eof" \in d.flags /\ "eof" \notin c.flags => "available" \in d.flags
      /\ c.taken + c.queue = c.read => d.taken + d.queue = d.read
      /\ "eof" \in c.flags => d.queue = c.queue
      /\ "available" \in d.flags \/ d.queue = c.queue
  BY <1>2, <1>3, CaptureSteps
<1>5. cap'[n] = d /\ \A m \in Starts \ {n} : cap'[m] = cap[m]
  BY <1>3 DEF CapType
<1>6. cap[n] # Fresh
  BY <1>4 DEF Fresh
<1>7. Places' /\ Commanded' /\ Ahead' /\ Current'
  BY <1>1, <1>5, <1>6 DEF Places, Commanded, Ahead, Current, Opening, Engaged
<1>8. Captures'
  BY <1>1, <1>4, <1>5 DEF Captures, Engaged
<1>9. Finishing' /\ NoLostWakeup'
  BY <1>1, <1>4, <1>5 DEF Finishing, NoLostWakeup, Alive
<1>10. Workers' /\ Timers' /\ Shut'
  BY <1>1 DEF Workers, Timers, TimerCurrent, Shut, Alive, Engaged, Opening
<1>11. Held'
  <2>1. \A f \in Flags : Engaged /\ f \in cap[started].flags => f \in cap'[started].flags
    BY <1>1, <1>4, <1>5, InUse
  <2>2. \A m \in Starts, f \in Flags : f \in cap[m].flags => f \in cap'[m].flags
    BY <1>4, <1>5
  <2>3. "eof" \in Flags /\ "cancelled" \in Flags
    BY DEF Flags
  <2> QED
    BY <1>1, <2>1, <2>2, <2>3 DEF Held, Engaged, Callers
<1>12. Heard'
  BY <1>1 DEF Heard, Engaged, Segment, Sealing
<1> QED
  BY <1>7, <1>8, <1>9, <1>10, <1>11, <1>12

LEMMA UnmovedLives ==
    ASSUME LInv, UNCHANGED <<self, closed, started, sid, cap, pc, cmd, writer, told, run>>
    PROVE  Lifecycle'
BY DEF LInv, Lifecycle, Places, Commanded, Ahead, Current, Captures, Finishing, NoLostWakeup,
       Workers, Timers, TimerCurrent, Held, Shut, Heard, Alive, Engaged, Opening, Sealing, Segment

LEMMA TimerLives ==
    ASSUME LInv, NEW n \in Starts, TimerFires(n) \/ TimerDropped(n), UNCHANGED run
    PROVE  Lifecycle'
<1> USE TaskFacts, Typed
<1>1. SessionStays /\ UNCHANGED <<cap, run, cmd>>
  BY DEF TimerFires, TimerDropped, SessionStays, WriterKept, lineVars, wireVars
<1>2. CASE TimerFires(n)
  <2>1. Moves(Timer(n), "stop") /\ pc[Timer(n)] = "sleep"
    BY <1>2, MovesTo DEF TimerFires, Goto
  <2> QED
    BY <1>1, <2>1, TimerMoves
<1>3. CASE TimerDropped(n)
  <2>1. Moves(Timer(n), "done") /\ pc[Timer(n)] = "cancelled"
    BY <1>3, MovesTo DEF TimerDropped, Holds, Goto
  <2> QED
    BY <1>1, <2>1, TimerMoves
<1> QED
  BY <1>2, <1>3

\* Every step of the connection task, a timer, a capture or the client.
LEMMA BaseLives ==
    ASSUME LInv, BaseStep, UNCHANGED run
    PROVE  Lifecycle'
<1>1. CASE ClientReads
  BY <1>1, ReadsLives
<1>2. CASE ClientRuns
  <2>1. Client \in Callers
    BY DEF Callers
  <2>2. CASE ReadEof \/ BadLineAnswered \/ CloseJoins
    BY <2>2, ReadsLives
  <2>3. CASE ReplySent(Client)
    BY <2>1, <2>3, ReplySentLives
  <2>4. CASE StartClosed \/ CancelClosed
    <3>1. holder = Client /\ Return(Client) /\ pc[Client] \in {"start", "cancel"}
          /\ UNCHANGED <<closed, started, sid, cap, told, run>> /\ WriterKept
      BY <2>4 DEF StartClosed, CancelClosed, Holds, WriterKept, wireVars
    <3> QED
      BY <2>1, <3>1, ReturnLives
  <2>5. CASE StartRefused \/ CancelRefused
    <3>1. Reply(Client, cmd.id, "refused", pc) /\ pc[Client] \in {"start", "cancel"}
          /\ UNCHANGED <<self, closed, started, sid, cap, run, wireVars>>
      BY <2>5 DEF StartRefused, CancelRefused, Holds
    <3> QED
      BY <2>1, <3>1, RefusedLives
  <2>6. CASE StartOpens
    BY <2>6, OpensLives
  <2>7. CASE StartFails
    BY <2>7, OpenFailsLives
  <2>8. CASE \E limited \in BOOLEAN : StartRecords(limited)
    BY <2>8, RecordsLives
  <2>9. CASE CancelBegins \/ CancelsRecognition \/ CancelEnds
    BY <2>9, CancelLives
  <2>10. CASE CloseBegins \/ CloseEnds
    BY <2>10, CloseLives
  <2> QED
    BY <1>2, <2>2, <2>3, <2>4, <2>5, <2>6, <2>7, <2>8, <2>9, <2>10 DEF ClientRuns
<1>3. CASE PeerLeaves
  BY <1>3, UnmovedLives DEF PeerLeaves, lineVars
<1>4. ASSUME NEW n \in Starts, TimerRuns(n) \/ CaptureStep(n)
      PROVE  Lifecycle'
  <2>1. Timer(n) \in Callers
    BY DEF Callers
  <2> QED
    BY <1>4, <2>1, TimerLives, ReplySentLives, CaptureLives DEF TimerRuns
<1> QED
  BY <1>1, <1>2, <1>3, <1>4 DEF BaseStep

LEMMA DeclinedLives ==
    ASSUME LInv, NEW t \in Callers, StopIgnored(t) \/ StopRefused(t), UNCHANGED run
    PROVE  Lifecycle'
<1>1. /\ holder = t /\ pc[t] = "stop"
      /\ UNCHANGED <<closed, started, sid, cap, wireVars, run>>
  BY DEF StopIgnored, StopRefused, Holds
<1>2. CASE StopIgnored(t)
  BY <1>1, <1>2, ReturnLives DEF StopIgnored, WriterKept, wireVars
<1>3. CASE StopRefused(t)
  BY <1>1, <1>3, RefusedLives DEF StopRefused
<1> QED
  BY <1>2, <1>3

(***************************************************************************)
(* The worker                                                              *)
(***************************************************************************)

\* A worker that has not ended is that of the last recording; the session is
\* its own unless it is idle or closing.
LEMMA AtWork ==
    ASSUME LInv, NEW n \in Starts, Alive(n), pc[Worker(n)] # "losing"
    PROVE  /\ n = started /\ self.worker = n /\ ~Opening /\ sid[n] \in Ids
           /\ ActiveSession(n) <=> Engaged /\ ~closed
           /\ Engaged => self.id = sid[n] /\ self.capture = n
           /\ ~ActiveSession(n) => ~Engaged \/ pc[Client] = "closing"
<1> USE TaskFacts, Typed DEF LInv, Lifecycle
<1>1. n = started /\ self.worker = n /\ ~Opening /\ sid[n] \in Ids
  BY DEF Workers, Current, Starts
<1>2. Engaged => self.id = sid[n] /\ self.capture = n
  BY <1>1, InUse
<1>3. ActiveSession(n) <=> Engaged /\ ~closed
  BY <1>2 DEF ActiveSession, Engaged, SelfType, SelfSet, Phases
<1>4. \A m \in Starts : pc[Worker(m)] = "losing" => m = n
  BY <1>1 DEF Workers, Alive
<1> QED
  BY <1>1, <1>2, <1>3, <1>4 DEF Current

\* WorkerMoves, when the capture and the worker's locals stay as they are.
LEMMA WorkerPasses ==
    ASSUME LInv, SessionStays, UNCHANGED <<cap, run, cmd>>, NEW n \in Starts, NEW l,
           Moves(Worker(n), l), Alive(n),
           pc[Worker(n)] \notin {"losing", "failing", "reporting"},
           l \in WorkerPlaces \ {"none", "create", "wait", "emitting", "ending", "losing",
                                 "failing", "reporting"},
           l = "done" => ~ActiveSession(n),
           l = "end" => run[n].stage = "finish",
           pc[Worker(n)] \in {"emitting", "ending"} => writer' = "closing"
    PROVE  Lifecycle'
<1>1. run[n] \in RunSet /\ cap[n] \in Capture
  BY Typed DEF RunType, CapType
<1>2. run' = [run EXCEPT ![n] = run[n]] /\ cap' = [cap EXCEPT ![n] = cap[n]]
  BY Typed DEF RunType, CapType
<1>3. pc[Worker(n)] = "emitting" \/ Segment(n) = run[n].segment
  BY DEF Segment
<1> QED
  BY <1>1, <1>2, <1>3, AtWork, WorkerMoves, ZenonT(60)

\* WorkerMoves, when the capture stays as it is.
LEMMA WorkerWrites ==
    ASSUME LInv, SessionStays, UNCHANGED <<cap, cmd>>, NEW n \in Starts, NEW r \in RunSet,
           run' = [run EXCEPT ![n] = r],
           NEW l \in {"publish", "lost"}, Moves(Worker(n), l),
           pc[Worker(n)] \in {"decode", "emit", "emitting"},
           r.seq = run[n].seq \/ writer' = "closing",
           r.segment = Segment(n) \/ writer' = "closing", r.stage = run[n].stage
    PROVE  Lifecycle'
<1>1. cap[n] \in Capture /\ cap' = [cap EXCEPT ![n] = cap[n]]
  BY Typed DEF CapType
<1>2. Alive(n) /\ l \in WorkerPlaces
  BY DEF Alive, WorkerPlaces
<1> QED
  BY <1>1, <1>2, WorkerMoves

LEMMA LooksLives ==
    ASSUME LInv, Inv', NEW n \in Starts, WorkerLooks(n)
    PROVE  Lifecycle'
<1> USE TaskFacts, Typed
<1> DEFINE b == Looked(cap[n])
           c == IF Look(b) = "chunk" THEN Taken(b) ELSE b
           r == run'[n]
<1>1. /\ pc[Worker(n)] = "next" /\ Alive(n) /\ SessionStays /\ UNCHANGED cmd
      /\ cap' = [cap EXCEPT ![n] = c]
  BY DEF WorkerLooks, Alive, SessionStays, WriterKept, lineVars, wireVars
<1>2. c = cap'[n] /\ c \in Capture /\ r \in RunSet
  BY <1>1, TypeParts DEF CapType, Inv, Sane, RunType, BaseTypeOK
<1>3. /\ b.proc = cap[n].proc /\ b.read = cap[n].read /\ b.queue = cap[n].queue
      /\ b.taken = cap[n].taken /\ b.flags = cap[n].flags \ {"available"}
      /\ b.queue \in Nat /\ b.taken \in Nat /\ b \in Capture
  <2>1. cap[n] \in Capture
    BY DEF CapType
  <2> QED
    BY <2>1 DEF Capture, Looked
<1>4. /\ c.proc = cap[n].proc /\ c.read = cap[n].read /\ c.flags = b.flags
      /\ c.taken + c.queue = cap[n].taken + cap[n].queue
      /\ c.queue = cap[n].queue \/ (cap[n].queue > 0 /\ "cancelled" \notin cap[n].flags)
  <2>1. CASE Look(b) = "chunk"
    <3> DEFINE q == b.queue - 1
               k == b.taken + 1
    <3>1. b.queue > 0 /\ "cancelled" \notin b.flags
      BY <2>1 DEF Look
    <3>2. q \in Nat /\ k \in Nat /\ q + k = b.queue + b.taken
      BY <1>3, <3>1
    <3>3. c = [b EXCEPT !.queue = q, !.taken = k]
      BY <2>1 DEF Taken
    <3> HIDE DEF c, b
    <3>4. c.queue = q /\ c.taken = k /\ c.proc = b.proc /\ c.read = b.read /\ c.flags = b.flags
      <4> HIDE DEF q, k
      <4> QED
        BY <1>3, <3>3 DEF Capture
    <3> QED
      BY <1>3, <3>1, <3>2, <3>4
  <2>2. CASE Look(b) # "chunk"
    <3>1. c = b
      BY <2>2
    <3> QED
      BY <1>3, <3>1
  <2> QED
    BY <2>1, <2>2
<1>5. PICK l \in {"done", "fail", "decode", "wait"} :
        /\ pc' = [pc EXCEPT ![Worker(n)] = l]
        /\ l = "done" => ~ActiveSession(n)
        /\ l = "wait" => Look(b) = "wait"
        /\ \/ UNCHANGED run
           \/ /\ Look(b) = "end" /\ run' = [run EXCEPT ![n].stage = "finish"]
              /\ self.phase # "recording"
  BY DEF WorkerLooks, StreamEnds, Await, Goto
<1>6. Moves(Worker(n), l)
  BY <1>5, MovesTo
<1>7. l = "wait" => c.queue = 0 /\ c.flags \cap {"eof", "cancelled"} = {}
  <2>1. ASSUME Look(b) = "wait" PROVE b.queue = 0 /\ "eof" \notin b.flags /\ "cancelled" \notin b.flags
    BY <1>3, <2>1 DEF Look
  <2> QED
    BY <1>5, <2>1
<1>8. /\ run' = [run EXCEPT ![n] = r] /\ r.seq = run[n].seq /\ r.segment = run[n].segment
      /\ r.stage = "finish" =>
            \/ run[n].stage = "finish"
            \/ self.phase # "recording" /\ Look(b) = "end"
  <2>1. run[n] \in RunSet
    BY DEF RunType
  <2> QED
    BY <1>5, <2>1 DEF RunType, RunSet
<1>9. Look(b) = "end" => "cancelled" \in cap[n].flags \/ ("eof" \in cap[n].flags /\ cap[n].queue = 0)
  BY <1>3 DEF Look
<1>10. Segment(n) = run[n].segment /\ l \in WorkerPlaces
  BY <1>1 DEF Segment, WorkerPlaces
<1> HIDE DEF b, c, r
<1> QED
  BY <1>1, <1>2, <1>3, <1>4, <1>5, <1>6, <1>7, <1>8, <1>9, <1>10, AtWork, WorkerMoves

LEMMA DecodesLives ==
    ASSUME LInv, Inv', NEW n \in Starts,
           WorkerCreates(n) \/ WorkerWakes(n) \/ WorkerDecoded(n) \/ WorkerPublishes(n)
              \/ WorkerFinalized(n)
    PROVE  Lifecycle'
<1> USE TaskFacts, Typed
<1>1. SessionStays /\ UNCHANGED <<cap, cmd>>
  BY DEF WorkerCreates, WorkerWakes, WorkerDecoded, WorkerPublishes, WorkerFinalized,
         SessionStays, WriterKept, lineVars, wireVars
<1>2. CASE UNCHANGED run
  <2>1. PICK l \in {"next", "fail", "end", "emit", "finalize", "decode", "publish"} :
           /\ pc' = [pc EXCEPT ![Worker(n)] = l]
           /\ l = "end" => run[n].stage = "finish"
    BY DEF WorkerCreates, WorkerWakes, WorkerDecoded, WorkerPublishes, WorkerFinalized, Await, Goto
  <2>2. pc[Worker(n)] \in {"create", "wait", "decode", "publish", "finalize"}
    BY DEF WorkerCreates, WorkerWakes, WorkerDecoded, WorkerPublishes, WorkerFinalized
  <2>3. Moves(Worker(n), l)
    BY <2>1, MovesTo
  <2> QED
    BY <1>1, <1>2, <2>1, <2>2, <2>3, WorkerPasses DEF Alive, WorkerPlaces
<1>3. CASE WorkerDecoded(n) /\ ~UNCHANGED run
  <2>1. PICK x \in Results : run' = [run EXCEPT ![n].results = x]
    BY <1>3 DEF WorkerDecoded
  <2>2. pc[Worker(n)] = "decode" /\ Moves(Worker(n), "publish")
    BY <1>3, MovesTo DEF WorkerDecoded, Goto
  <2>3. run'[n] \in RunSet /\ run[n] \in RunSet
    BY TypeParts DEF Inv, RunType
  <2>4. /\ run' = [run EXCEPT ![n] = run'[n]] /\ run'[n].stage = run[n].stage
        /\ run'[n].seq = run[n].seq /\ run'[n].segment = Segment(n)
    BY <2>1, <2>2, <2>3 DEF RunType, RunSet, Segment
  <2> QED
    BY <1>1, <2>2, <2>3, <2>4, WorkerWrites
<1> QED
  BY <1>2, <1>3 DEF WorkerCreates, WorkerWakes, WorkerPublishes, WorkerFinalized

\* publish() leaves the lock without having written an event, or after drain.
LEMMA PublishesLives ==
    ASSUME LInv, Inv', NEW n \in Starts,
           PublishStops(n) \/ PublishSkips(n) \/ PublishSent(n)
    PROVE  Lifecycle'
<1> USE TaskFacts, Typed
<1>1. /\ SessionStays /\ UNCHANGED <<cap, cmd>>
      /\ pc[Worker(n)] \in {"emit", "emitting"} /\ Alive(n)
  BY DEF PublishStops, PublishSkips, PublishSent, Holds, SessionStays, WriterKept, lineVars,
         wireVars, Drained, DrainFails, Alive
<1>2. run'[n] \in RunSet /\ run[n] \in RunSet
  BY TypeParts DEF Inv, RunType
<1>3. CASE PublishStops(n) \/ PublishSkips(n)
  <2>1. Moves(Worker(n), "publish") /\ pc[Worker(n)] = "emit"
    BY <1>3, MovesTo DEF PublishStops, PublishSkips, Leave, Goto, Holds
  <2>2. /\ run' = [run EXCEPT ![n] = run'[n]] /\ run'[n].stage = run[n].stage
        /\ run'[n].seq = run[n].seq /\ run'[n].segment = Segment(n)
    BY <1>2, <1>3, <2>1 DEF PublishStops, PublishSkips, RunType, RunSet, Segment
  <2> QED
    BY <1>1, <1>2, <2>1, <2>2, WorkerWrites
<1>4. CASE PublishSent(n) /\ Leave(n, "publish") /\ run' = [run EXCEPT ![n] = Published(@)]
  <2>1. Moves(Worker(n), "publish") /\ pc[Worker(n)] = "emitting"
    BY <1>4, MovesTo DEF PublishSent, Leave, Goto
  <2>2. run'[n] = Published(run[n]) /\ run' = [run EXCEPT ![n] = run'[n]]
    BY <1>4 DEF RunType
  <2>3. /\ run'[n].stage = run[n].stage /\ run'[n].seq = run[n].seq
        /\ run'[n].segment = Segment(n)
    BY <1>2, <2>1, <2>2 DEF Published, RunSet, Segment
  <2> QED
    BY <1>1, <1>2, <2>1, <2>2, <2>3, WorkerWrites
<1>5. CASE PublishSent(n) /\ DrainFails /\ Breaks(n) /\ UNCHANGED run
  <2>1. Moves(Worker(n), "lost") /\ writer' = "closing"
    BY <1>5, MovesTo DEF Breaks, DrainFails, Goto
  <2> QED
    BY <1>1, <1>5, <2>1, WorkerPasses DEF WorkerPlaces
<1> QED
  BY <1>3, <1>4, <1>5 DEF PublishSent

\* An event with text is written: the client hears the next number.
LEMMA EmitsLives ==
    ASSUME LInv, Inv', NEW n \in Starts, PublishEmits(n)
    PROVE  Lifecycle'
<1> USE TaskFacts, Typed DEF LInv, Lifecycle
<1>1. /\ pc[Worker(n)] = "emit" /\ holder = Worker(n) /\ ActiveSession(n) /\ Alive(n)
      /\ run' = [run EXCEPT ![n].seq = @ + 1]
      /\ UNCHANGED <<self, closed, started, sid, cap, cmd, writer>>
  BY DEF PublishEmits, Holds, Alive, lineVars, wireVars
<1>2. n = started /\ Engaged /\ ~closed /\ self.id = sid[n] /\ self.id \in Ids /\ ~Opening
  BY <1>1, AtWork
<1>3. run'[n] \in RunSet /\ run[n] \in RunSet /\ run[n].seq \in Nat
  BY TypeParts DEF Inv, RunType, RunSet
<1> DEFINE k == run[n].seq + 1
           g == IF Head(run[n].results) = "final" THEN run[n].segment + 1 ELSE run[n].segment
<1>4. /\ run'[n].seq = k /\ run'[n].results = run[n].results
      /\ run'[n].segment = run[n].segment /\ run'[n].stage = run[n].stage
      /\ \A m \in Starts \ {n} : run'[m] = run[m]
  <2>1. k \in Nat /\ run' = [run EXCEPT ![n].seq = k]
    BY <1>1, <1>3
  <2> HIDE DEF k
  <2> QED
    BY <1>3, <2>1 DEF RunType, RunSet
<1>5. CASE ~CanWrite
  <2>1. Moves(Worker(n), "lost") /\ UNCHANGED told
    BY <1>5, MovesTo DEF PublishEmits, Breaks, Goto
  <2>2. run' = [run EXCEPT ![n] = run'[n]]
    BY <1>1 DEF RunType
  <2>3. writer' = "closing"
    BY <1>1, <1>5 DEF CanWrite, WireType
  <2> QED
    BY <1>1, <1>3, <1>4, <2>1, <2>2, <2>3, WorkerWrites DEF SessionStays, WriterKept
<1>6. CASE CanWrite
  <2>1. Moves(Worker(n), "emitting")
    BY <1>6, MovesTo DEF PublishEmits, Goto
  <2>2. told' = [told EXCEPT ![sid[n]].seq = k, ![sid[n]].segment = g]
    BY <1>6 DEF PublishEmits
  <2> HIDE DEF k, g
  <2>3. /\ told'[self.id].seq = k /\ told'[self.id].segment = g
        /\ told'[self.id].phase = told[self.id].phase
        /\ \A i \in Ids \ {self.id} : told'[i] = told[i]
    BY <1>2, <2>2 DEF ToldType
  <2>4. \A u \in Task \ {Worker(n)} : pc[u] \notin Inside
    BY <1>1, Alone
  <2>5. Segment(n)' = g
    BY <1>4, <2>1 DEF Segment, Moves, g
  <2>6. Places' /\ Commanded' /\ Current'
    BY <1>1, <1>2, <2>1 DEF Places, WorkerPlaces, Commanded, Current, Opening, Engaged, Moves
  <2>7. Ahead'
    BY <1>1, <1>2, <1>4, <2>1 DEF Ahead, Opening, Moves, RecordType
  <2>8. Captures' /\ Finishing' /\ NoLostWakeup'
    BY <1>1, <1>4, <2>1 DEF Captures, Finishing, NoLostWakeup, Alive, Engaged, Moves
  <2>9. Workers' /\ Timers' /\ Held' /\ Shut'
    BY <1>1, <1>2, <1>4, <2>1
    DEF Workers, Timers, TimerCurrent, Held, Shut, Alive, Engaged, Opening, Callers, Moves
  <2>10. Heard'
    <3>1. Sealing' = Sealing
      BY <2>1 DEF Sealing, Callers, Moves
    <3> QED
      BY <1>1, <1>2, <1>4, <2>1, <2>3, <2>4, <2>5, <3>1 DEF Heard, Engaged, Moves, Inside
  <2> QED
    BY <2>6, <2>7, <2>8, <2>9, <2>10
<1> QED
  BY <1>5, <1>6

\* A worker past its stream finds no timer armed.
LEMMA EndsLives ==
    ASSUME LInv, NEW n \in Starts, WorkerEnds(n)
    PROVE  Lifecycle'
<1> USE TaskFacts, Typed DEF LInv, Lifecycle
<1>1. /\ pc[Worker(n)] = "end" /\ holder = Worker(n) /\ Alive(n)
      /\ UNCHANGED <<closed, started, sid, cap, run, cmd, writer>>
  BY DEF WorkerEnds, Holds, Alive, lineVars, wireVars
<1>2. CASE ~ActiveSession(n)
  <2>1. Moves(Worker(n), "done") /\ UNCHANGED <<self, told>>
    BY <1>2, MovesTo DEF WorkerEnds, Leave, Goto
  <2> QED
    BY <1>1, <1>2, <2>1, WorkerPasses DEF SessionStays, WriterKept, WorkerPlaces
<1>3. CASE ActiveSession(n)
  <2>1. n = started /\ Engaged /\ ~closed /\ self.id = sid[n] /\ self.id \in Ids /\ ~Opening
    BY <1>1, <1>3, AtWork
  <2>2. self.phase = "transcribing" /\ self.timer = 0
    BY <1>1, <2>1 DEF Finishing, Timers, Engaged, SelfType, SelfSet, Phases
  <2>3. UNCHANGED self /\ Cleared(Worker(n)) = pc
    BY <1>3, <2>2 DEF WorkerEnds, SelfType, SelfSet, Cleared
  <2>4. CASE ~CanWrite
    <3>1. Moves(Worker(n), "lost") /\ UNCHANGED told
      BY <1>3, <2>3, <2>4, MovesTo DEF WorkerEnds
    <3> QED
      BY <1>1, <2>3, <3>1, WorkerPasses DEF SessionStays, WriterKept, WorkerPlaces
  <2>5. CASE CanWrite
    <3>1. Moves(Worker(n), "ending") /\ told' = [told EXCEPT ![self.id] = Hear(@, "finished")]
      BY <1>3, <2>1, <2>3, <2>5, MovesTo DEF WorkerEnds, Tell
    <3>2. /\ told'[self.id].phase = "finished" /\ told'[self.id].seq = told[self.id].seq
          /\ told'[self.id].segment = told[self.id].segment
          /\ \A i \in Ids \ {self.id} : told'[i] = told[i]
      BY <2>1, <3>1 DEF Hear, ToldType
    <3>3. \A u \in Task \ {Worker(n)} : pc[u] \notin Inside
      BY <1>1, Alone
    <3>4. Places' /\ Commanded' /\ Current'
      BY <1>1, <2>1, <2>3, <3>1 DEF Places, WorkerPlaces, Commanded, Current, Opening, Engaged, Moves
    <3>5. Ahead'
      BY <1>1, <2>1, <3>1 DEF Ahead, Opening, Moves, RecordType
    <3>6. Captures' /\ Finishing' /\ NoLostWakeup'
      BY <1>1, <2>1, <2>3, <3>1 DEF Captures, Finishing, NoLostWakeup, Alive, Engaged, Moves
    <3>7. Workers' /\ Timers' /\ Held' /\ Shut'
      BY <1>1, <2>1, <2>2, <2>3, <3>1
      DEF Workers, Timers, TimerCurrent, Held, Shut, Alive, Engaged, Opening, Callers, Moves
    <3>8. Heard'
      <4>1. ~Sealing' /\ Segment(started)' = Segment(started)
        BY <1>1, <2>1, <3>1, <3>3 DEF Sealing, Segment, Callers, Moves, Inside
      <4>2. \A m \in Starts \ {n} : pc'[Worker(m)] # "ending"
        BY <3>1, <3>3 DEF Moves, Inside
      <4> QED
        BY <1>1, <2>1, <2>2, <2>3, <3>1, <3>2, <3>3, <4>1, <4>2
        DEF Heard, Engaged, Moves, Inside, Promise!Active
    <3> QED
      BY <3>4, <3>5, <3>6, <3>7, <3>8
  <2> QED
    BY <2>4, <2>5
<1> QED
  BY <1>2, <1>3

\* The handlers of a lost client and of any other exception.
LEMMA BreaksLives ==
    ASSUME LInv, NEW n \in Starts, WorkerLost(n) \/ WorkerFails(n)
    PROVE  Lifecycle'
<1> USE TaskFacts, Typed
<1>1. /\ pc[Worker(n)] \in {"lost", "fail"} /\ holder = Worker(n) /\ Alive(n)
      /\ UNCHANGED <<started, sid, run, cmd, writer, told>>
  BY DEF WorkerLost, WorkerFails, Holds, Alive, lineVars, wireVars
<1>2. /\ n = started /\ sid[n] \in Ids
      /\ self.id = sid[n] => Engaged
      /\ ActiveSession(n) => Engaged
      /\ ~ActiveSession(n) => ~Engaged \/ pc[Client] = "closing"
  <2>1. ~Engaged => self.id = NoId
    BY <1>1, AtWork DEF LInv, Lifecycle, Current
  <2> QED
    BY <1>1, <2>1, AtWork, SessionAssumption
<1>3. CASE ~ActiveSession(n) /\ Leave(n, "done") /\ UNCHANGED <<self, closed, cap>>
  <2>1. Moves(Worker(n), "done")
    BY <1>3, MovesTo DEF Leave, Goto
  <2> QED
    BY <1>1, <1>3, <2>1, WorkerPasses DEF SessionStays, WriterKept, WorkerPlaces
<1>4. ASSUME NEW closes \in BOOLEAN, NEW l, Abandons(n, closes, l), Engaged,
             \/ l = "losing" /\ pc[Worker(n)] = "lost" /\ closes
             \/ l = "failing" /\ pc[Worker(n)] = "fail" /\ ~closes
      PROVE  Lifecycle'
  <2>1. Clears(Worker(n), l)
    BY <1>4, ClearsTo DEF Abandons, LInv, Lifecycle, Timers
  <2>2. closed' <=> closed \/ closes
    BY <1>4 DEF Abandons
  <2>3. ~closes => UNCHANGED closed
    BY <1>4 DEF Abandons
  <2> QED
    BY <1>1, <1>2, <1>4, <2>1, <2>2, <2>3, GivesUp DEF Abandons
<1> QED
  BY <1>1, <1>2, <1>3, <1>4 DEF WorkerLost, WorkerFails, Holds, ActiveSession

\* The worker's last steps, with the session's end.
LEMMA EndedLives ==
    ASSUME LInv, NEW n \in Starts, WorkerEnded(n) \/ LostEnds(n) \/ FailEnds(n)
    PROVE  Lifecycle'
<1> USE TaskFacts, Typed
<1>1. /\ pc[Worker(n)] \in {"ending", "losing", "failing"} /\ pc[Worker(n)] \in Inside
      /\ holder = Worker(n) /\ Alive(n) /\ WriterKept
      /\ UNCHANGED <<started, sid, run, cmd>>
  BY InsideHolds DEF WorkerEnded, LostEnds, FailEnds, Inside, LInv, Inv, Sane, Alive, WriterKept,
                     Drained, DrainFails, lineVars, wireVars
<1>2. n = started /\ Engaged
  BY <1>1 DEF LInv, Lifecycle, Held, Workers, Engaged
<1>3. cap[n] \in Capture /\ self.id \in Ids /\ self.id = sid[n] /\ self.capture = n
  BY <1>2, InUse
<1>4. \A u \in Task \ {Worker(n)} : pc[u] \notin Inside
  BY <1>1, Alone
<1>5. /\ self.phase = "transcribing" \/ self.timer = 0
      /\ pc[Worker(n)] = "ending" => "cancelled" \notin cap[n].flags
      /\ pc[Worker(n)] # "ending" => "cancelled" \in cap[n].flags
      /\ pc[Worker(n)] = "ending" => "eof" \in cap[n].flags
      /\ Finished(cap[n]) => "eof" \in cap[n].flags
      /\ pc[Worker(n)] = "losing" => closed
  <2>1. pc[Worker(n)] = "ending" => run[n].stage = "finish" /\ self.phase = "transcribing"
    BY DEF LInv, Lifecycle, Finishing, Held
  <2>2. pc[Worker(n)] # "ending" => self.timer = 0 /\ "cancelled" \in cap[n].flags
    BY <1>1 DEF LInv, Lifecycle, Timers, Held
  <2>3. /\ cap[n].proc # "absent"
        /\ pc[Worker(n)] = "ending" => "cancelled" \notin cap[n].flags
    BY <1>2, <1>3, <1>4 DEF LInv, Lifecycle, Captures, Inside
  <2>4. pc[Worker(n)] = "ending" => "eof" \in cap[n].flags
    BY <1>1, <2>1, <2>3 DEF LInv, Lifecycle, Finishing
  <2> QED
    BY <1>1, <2>1, <2>2, <2>3, <2>4 DEF LInv, Lifecycle, Held, Finished
<1>6. CASE WorkerEnded(n)
  <2>1. pc[Worker(n)] = "ending" /\ UNCHANGED <<cap, told, closed>>
    BY <1>6 DEF WorkerEnded
  <2>2. CASE Drained /\ self' = Idle /\ Leave(n, "done")
    <3>1. Moves(Worker(n), "done")
      BY <2>2, MovesTo DEF Leave, Goto
    <3> DEFINE c == cap[started]
    <3>2. cap' = [cap EXCEPT ![started] = c]
      BY <1>2, <2>1 DEF CapType
    <3>3. told'[self.id].phase \notin Promise!Active
      BY <1>2, <1>3, <2>1 DEF LInv, Lifecycle, Heard, Promise!Active
    <3> HIDE DEF c
    <3>4. c = cap[started]
      BY DEF c
    <3> QED
      BY <1>1, <1>2, <1>5, <2>1, <2>2, <3>1, <3>2, <3>3, <3>4, SessionEnds
  <2>3. CASE DrainFails /\ Breaks(n) /\ UNCHANGED self
    <3>1. Moves(Worker(n), "lost") /\ writer' = "closing"
      BY <2>3, MovesTo DEF Breaks, DrainFails, Goto
    <3> QED
      BY <1>1, <2>1, <2>3, <3>1, WorkerPasses DEF SessionStays, WorkerPlaces
  <2> QED
    BY <1>6, <2>2, <2>3 DEF WorkerEnded
<1>7. CASE LostEnds(n)
  <2>1. Moves(Worker(n), "done") /\ UNCHANGED <<told, closed>> /\ self' = Idle /\ Finished(cap[n])
        /\ pc[Worker(n)] = "losing"
    BY <1>7, MovesTo DEF LostEnds, Leave, Goto
  <2> DEFINE c == Emptied(cap[started])
  <2>2. cap' = [cap EXCEPT ![started] = c]
    BY <1>2, <1>7 DEF LostEnds
  <2> HIDE DEF c
  <2>3. c = Emptied(cap[started])
    BY DEF c
  <2> QED
    BY <1>1, <1>2, <1>5, <2>1, <2>2, <2>3, SessionEnds
<1>8. CASE FailEnds(n)
  <2>1. self' = Idle /\ Finished(cap[n]) /\ pc[Worker(n)] = "failing" /\ UNCHANGED writer
    BY <1>8 DEF FailEnds, wireVars
  <2>2. PICK l \in {"reporting", "done"} :
          /\ Moves(Worker(n), l)
          /\ closed => closed'
          /\ IF CanWrite THEN told' = [told EXCEPT ![self.id] = Hear(@, "error")]
             ELSE UNCHANGED told
    <3>1. CASE CanWrite
      BY <1>3, <1>8, <3>1, MovesTo DEF FailEnds, Tell, Goto
    <3>2. CASE ~CanWrite
      BY <1>8, <3>2, MovesTo DEF FailEnds, Leave, Goto
    <3> QED
      BY <3>1, <3>2
  <2>3. /\ writer' = "open" /\ ~closed' => told'[self.id].phase \notin Promise!Active
        /\ \A i \in Ids : i # self.id => told'[i] = told[i]
    BY <1>3, <2>1, <2>2 DEF CanWrite, Hear, ToldType, Promise!Active
  <2> DEFINE c == Emptied(cap[started])
  <2>4. cap' = [cap EXCEPT ![started] = c]
    BY <1>2, <1>8 DEF FailEnds
  <2> HIDE DEF c
  <2>5. c = Emptied(cap[started])
    BY DEF c
  <2> QED
    BY <1>1, <1>2, <1>5, <2>1, <2>2, <2>3, <2>4, <2>5, SessionEnds
<1> QED
  BY <1>6, <1>7, <1>8

LEMMA ReportedLives ==
    ASSUME LInv, NEW n \in Starts, FailReported(n)
    PROVE  Lifecycle'
<1> USE TaskFacts, Typed DEF LInv, Lifecycle
<1>1. /\ pc[Worker(n)] = "reporting" /\ holder = Worker(n) /\ Alive(n) /\ ~Engaged
      /\ UNCHANGED <<self, started, sid, cap, told, run, cmd>>
      /\ closed => closed'
      /\ writer' = "open" => writer = "open"
  BY InsideHolds DEF FailReported, Inside, Inv, Sane, Alive, Held, Drained, DrainFails,
                     lineVars, wireVars
<1>2. Moves(Worker(n), "done")
  BY MovesTo DEF FailReported, Leave, Goto
<1>3. n = started /\ self.worker = n /\ ~Opening
  BY <1>1, AtWork
<1>4. \A u \in Task \ {Worker(n)} : pc[u] \notin Inside
  BY <1>1, Alone
<1>5. Places' /\ Commanded' /\ Current'
  BY <1>1, <1>2, <1>3 DEF Places, WorkerPlaces, Commanded, Current, Opening, Engaged, Moves
<1>6. Ahead'
  BY <1>1, <1>2, <1>3 DEF Ahead, Opening, Moves, RecordType
<1>7. Captures' /\ Finishing' /\ NoLostWakeup'
  BY <1>1, <1>2 DEF Captures, Finishing, NoLostWakeup, Alive, Engaged, Moves
<1>8. Workers' /\ Timers' /\ Held' /\ Shut'
  BY <1>1, <1>2, <1>3, <1>4
  DEF Workers, Timers, TimerCurrent, Held, Shut, Alive, Engaged, Opening, Callers, Moves, Inside
<1>9. Heard'
  BY <1>1, <1>2 DEF Heard, Engaged, Moves
<1> QED
  BY <1>5, <1>6, <1>7, <1>8, <1>9

(***************************************************************************)
(* The inductive invariant                                                 *)
(***************************************************************************)

LEMMA InitLives ==
    ASSUME StreamInit
    PROVE  LInv
<1> USE TaskFacts, SessionAssumption DEF StreamInit, Init
<1>0. Inv
  BY InitInv
<1>1. /\ pc[Client] = "read" /\ \A n \in Starts : pc[Timer(n)] = "none" /\ pc[Worker(n)] = "none"
      /\ \A n \in Starts : cap[n] = Fresh /\ run[n] = FreshRun
      /\ \A i \in Ids : told[i].phase = "none"
      /\ self.phase = "idle" /\ self.capture = 0 /\ self.id = NoId /\ self.worker = 0
      /\ self.timer = 0 /\ started = 0 /\ ~closed /\ cmd = NoCommand
  BY DEF FreshRun
<1>2. Fresh.proc = "absent" /\ Fresh.flags = {} /\ Fresh.taken + Fresh.queue = Fresh.read
  BY DEF Fresh
<1> USE <1>1, <1>2
<1> HIDE DEF StreamInit, Init
<1>3. Places /\ Commanded /\ Ahead /\ Current
  BY DEF Places, ClientPlaces, TimerPlaces, WorkerPlaces, Commanded, Ahead, Current, Opening,
         Engaged, NoCommand, Kinds, Starts
<1>4. Captures /\ Finishing /\ NoLostWakeup /\ Workers
  BY DEF Captures, Finishing, NoLostWakeup, Workers, Alive, Engaged, Live, Starts
<1>5. Timers /\ Held /\ Shut
  BY DEF Timers, TimerCurrent, Held, Shut, Alive, Engaged, Callers
<1>6. Heard
  BY DEF Heard, Engaged, Promise!Active
<1> QED
  BY <1>0, <1>3, <1>4, <1>5, <1>6 DEF LInv, Lifecycle

LEMMA NextLives ==
    ASSUME LInv, [Next]_vars
    PROVE  LInv'
<1>0. Inv'
  BY NextInv DEF LInv
<1>1. CASE BaseStep /\ UNCHANGED run
  BY <1>0, <1>1, BaseLives DEF LInv
<1>2. ASSUME NEW t \in Callers, Stop(t)
      PROVE  LInv'
  BY <1>0, <1>2, DeclinedLives, StopBeginsLives, StopLives DEF Stop, LInv
<1>3. ASSUME NEW n \in Starts, WorkerRuns(n)
      PROVE  LInv'
  BY <1>0, <1>3, DecodesLives, LooksLives, PublishesLives, EmitsLives, EndsLives, EndedLives,
     BreaksLives, ReportedLives
  DEF WorkerRuns, LInv
<1>4. CASE UNCHANGED vars
  BY <1>0, <1>4, UnmovedLives DEF vars, baseVars, LInv
<1> QED
  BY <1>1, <1>2, <1>3, <1>4 DEF Next, Callers

\* Lifecycle holds of every state of a connection, with Inv.
THEOREM Lives == Spec => []LInv
<1>1. StreamInit => LInv
  BY InitLives
<1>2. LInv /\ [Next]_vars => LInv'
  BY NextLives
<1> QED
  BY <1>1, <1>2, PTL DEF Spec

\* Nothing of a recording that was cancelled or failed is left to act on the
\* one that follows it, or on a closed connection: the microphone that runs,
\* the timer that is armed and the worker that is alive are the session's.
THEOREM StreamingApart == Spec => []RecordingsApart
<1>1. ASSUME LInv
      PROVE  RecordingsApart
  <2> USE <1>1, TaskFacts, Typed DEF LInv, Lifecycle
  <2>1. MicrophoneOwned /\ TimerCurrent
    BY DEF Captures, MicrophoneOwned, Engaged, Timers
  <2>2. OneWorker
    BY DEF Workers, OneWorker, Alive
  <2>3. ASSUME self.phase # "idle", pc[Client] \notin {"close", "closing"},
               ~(pc[Client] = "reply" /\ cmd.kind = "start")
        PROVE  WorkerLive /\ self.worker = self.capture /\ sid[self.worker] = self.id
    <3>1. self.worker = started /\ Alive(started)
      BY <2>3 DEF Workers, Engaged
    <3> QED
      BY <2>3, <3>1, InUse DEF WorkerLive, Alive, Engaged, Starts
  <2>4. ReleasedWhenClosed
    BY DEF ReleasedWhenClosed, Shut, Captures, Alive
  <2> QED
    BY <2>1, <2>2, <2>3, <2>4 DEF RecordingsApart, RecordingConsumed
<1> QED
  BY <1>1, Lives, PTL

\* `finished' is written only when every chunk the microphone delivered was
\* taken by the decoder, and the consumer never sleeps on a chunk, an end or
\* a cancel that is there.
THEOREM StreamingHeard == Spec => []EveryChunkHeard
<1>1. ASSUME LInv
      PROVE  EveryChunkHeard
  <2> USE <1>1, TaskFacts, Typed DEF LInv, Lifecycle
  <2>1. ASSUME NEW n \in Starts, pc[Worker(n)] = "ending"
        PROVE  "eof" \in cap[n].flags /\ cap[n].taken = cap[n].read
    <3>1. n = started /\ Engaged /\ self.capture = n /\ holder = Worker(n)
      BY <2>1, InUse, InsideHolds DEF Workers, Alive, Held, Engaged, Inside, Inv, Sane
    <3>2. "cancelled" \notin cap[n].flags
      BY <2>1, <3>1, Alone DEF Captures, Inside
    <3>3. "eof" \in cap[n].flags /\ cap[n].queue = 0
      BY <2>1, <3>2 DEF Finishing, Alive
    <3>4. cap[n].taken + cap[n].queue = cap[n].read /\ cap[n].taken \in Nat
      BY <3>2 DEF Captures, CapType, Capture
    <3> QED
      BY <3>3, <3>4
  <2>2. FinishedDrained
    BY <2>1 DEF FinishedDrained, Heard
  <2> QED
    BY <2>2 DEF EveryChunkHeard
<1> QED
  BY <1>1, Lives, PTL

(***************************************************************************)
(* Whoever ends a recording                                                *)
(***************************************************************************)

LEMMA StopLeaves ==
    ASSUME Inv, Leaving, NEW t \in Callers, Stop(t)
    PROVE  Leaving'
<1> USE TaskFacts
<1>1. PcType /\ SelfType /\ WireType /\ pc \in [Task -> Labels] /\ t \in Task
  BY TypeParts DEF Inv, Sane, PcType, Callers
<1>2. CASE StopIgnored(t)
  <2>1. Return(t) /\ WireFalls
    BY <1>2 DEF StopIgnored, WireFalls, wireVars
  <2> QED
    BY <1>1, <2>1, ReturnLeaves
<1>3. CASE StopRefused(t) \/ StopBreaks(t)
  <2>1. PICK i, kind : Reply(t, i, kind, pc) /\ UNCHANGED wireVars
    BY <1>3 DEF StopRefused, StopBreaks
  <2> QED
    BY <1>1, <2>1, ReplyLeaves
<1>4. CASE StopBegins(t)
  <2>1. UNCHANGED cmd /\ WireFalls
    BY <1>4 DEF StopBegins, WireFalls, lineVars, wireVars
  <2>2. pc'[Client] = IF t = Client THEN "stopping" ELSE pc[Client]
    BY <1>1, <1>4, ClearedFacts DEF StopBegins
  <2> QED
    BY <2>1, <2>2, Remains, GoesOn
<1>5. ASSUME StopLoses(t), WireFalls
      PROVE  Leaving'
  <2>1. CASE t = Client
    <3>1. pc'[Client] = "read"
      BY <1>1, <1>5, <2>1 DEF StopLoses, Goto
    <3> QED
      BY <3>1, GoesOn
  <2>2. CASE t # Client
    <3>1. pc'[Client] = pc[Client] /\ UNCHANGED cmd
      BY <1>1, <1>5, <2>2 DEF StopLoses, Goto, Forget
    <3> QED
      BY <1>5, <3>1, Remains
  <2> QED
    BY <2>1, <2>2
<1>6. CASE StopSealed(t)
  <2>1. WireFalls
    BY <1>6 DEF StopSealed, WireFalls, wireVars
  <2>2. CASE CanWrite
    <3>1. UNCHANGED cmd /\ pc'[Client] = IF t = Client THEN "announce" ELSE pc[Client]
      BY <1>1, <1>6, <2>2 DEF StopSealed, Goto
    <3> QED
      BY <2>1, <3>1, Remains, GoesOn
  <2> QED
    BY <1>5, <1>6, <2>1, <2>2 DEF StopSealed
<1>7. CASE StopAnnounced(t)
  <2>1. WireFalls
    BY <1>7 DEF StopAnnounced, Drained, DrainFails, WireFalls, wireVars
  <2> QED
    BY <1>1, <1>5, <1>7, <2>1, ReturnLeaves DEF StopAnnounced
<1> QED
  BY <1>2, <1>3, <1>4, <1>5, <1>6, <1>7 DEF Stop

LEMMA WorkerLeaves ==
    ASSUME Inv, Leaving, NEW n \in Starts, WorkerRuns(n)
    PROVE  Leaving'
<1> USE TaskFacts
<1>1. PcType /\ SelfType /\ pc \in [Task -> Labels]
  BY TypeParts DEF Inv, Sane, PcType
<1>2. UNCHANGED cmd /\ WireFalls
  BY DEF WorkerRuns, WorkerCreates, WorkerLooks, WorkerWakes, WorkerDecoded, WorkerPublishes,
         WorkerFinalized, PublishStops, PublishSkips, PublishEmits, PublishSent, WorkerEnds,
         WorkerEnded, WorkerLost, LostEnds, WorkerFails, FailEnds, FailReported, Drained,
         DrainFails, WireFalls, lineVars, wireVars
<1>3. \A l : Goto(Worker(n), l) => pc'[Client] = pc[Client]
  BY <1>1 DEF Goto
<1>4. \A l : pc' = [Cleared(Worker(n)) EXCEPT ![Worker(n)] = l] => pc'[Client] = pc[Client]
  BY <1>1, ClearedFacts
<1>5. pc'[Client] = pc[Client]
  BY <1>3, <1>4
  DEF WorkerRuns, WorkerCreates, WorkerLooks, StreamEnds, WorkerWakes, WorkerDecoded,
      WorkerPublishes, WorkerFinalized, PublishStops, PublishSkips, PublishEmits, PublishSent,
      WorkerEnds, WorkerEnded, WorkerLost, LostEnds, WorkerFails, FailEnds, FailReported,
      Await, Leave, Breaks, Abandons
<1> QED
  BY <1>2, <1>5, Remains

\* The connection task leaves a client that can be reached only for a line
\* that is too long.
THEOREM Leaves == Spec => []Leaving
<1>1. StreamInit => Leaving
  BY InitLeaves DEF StreamInit
<1>2. Inv /\ Leaving /\ [Next]_vars => Leaving'
  <2> SUFFICES ASSUME Inv, Leaving, [Next]_vars
               PROVE  Leaving'
    OBVIOUS
  <2>1. CASE UNCHANGED vars
    BY <2>1 DEF vars, baseVars, Leaving
  <2> QED
    BY <2>1, BaseLeaves, StopLeaves, WorkerLeaves DEF Next, Callers, Inv
<1> QED
  BY <1>1, <1>2, Invariance, PTL DEF Spec

LEMMA OwnEnds ==
    ASSUME LInv, Leaving, [Next]_vars, RecordingEnds
    PROVE  OnItsBehalf \/ ConnectionLost \/ (holder = Client /\ cmd = TooLong)
<1> USE TaskFacts, Typed
<1>0. /\ Engaged /\ started \in Starts /\ self.capture = started /\ self.id \in Ids
      /\ LockExclusive /\ ~Opening
      /\ self.phase = "recording" /\ self'.phase # "recording"
  BY InUse DEF Engaged, LInv, Inv, Sane, Lifecycle, Current, RecordingEnds
<1>1. CASE BaseStep /\ UNCHANGED run
  <2>1. \A t \in Callers : Return(t) => self'.phase = self.phase
    BY DEF Return, SelfType
  <2>2. CASE ClientReads \/ ReadEof \/ BadLineAnswered \/ CloseJoins \/ PeerLeaves
    BY <1>0, <2>2
    DEF ClientReads, ReadCommand, ReadBadLine, ReadEof, BadLineAnswered, CloseJoins, PeerLeaves
  <2>3. CASE ReplySent(Client) \/ \E n \in Starts : TimerRuns(n) \/ CaptureStep(n)
    BY <1>0, <2>1, <2>3 DEF ReplySent, TimerRuns, TimerFires, TimerDropped, CaptureStep, Callers
  <2>4. CASE StartClosed \/ CancelClosed \/ StartRefused \/ CancelRefused
    BY <1>0, <2>1, <2>4 DEF StartClosed, CancelClosed, StartRefused, CancelRefused, Callers
  <2>5. CASE StartOpens \/ StartFails \/ \E limited \in BOOLEAN : StartRecords(limited)
    BY <1>0, <2>5 DEF StartOpens, StartFails, StartRecords, MustWait, Engaged, Opening
  <2>6. CASE CancelsRecognition
    BY <1>0, <2>6 DEF CancelsRecognition, Starts
  <2>7. CASE CancelBegins \/ CancelEnds
    <3>1. holder = Client
      BY <1>0, <2>7 DEF CancelBegins, CancelEnds, Cancels, Holds, LockExclusive, Inside
    <3>2. cmd.kind \in Kinds /\ cmd.id = self.id
      BY <2>7 DEF CancelBegins, CancelEnds, Cancels, Holds, LInv, Lifecycle, Commanded, Kinds
    <3> QED
      BY <3>1, <3>2 DEF OnItsBehalf
  <2>8. CASE CloseBegins \/ CloseEnds
    <3>1. holder = Client /\ pc[Client] \in {"close", "closing"}
      BY <1>0, <2>8 DEF CloseBegins, CloseEnds, Holds, LockExclusive, Inside
    <3> QED
      BY <3>1 DEF Leaving, ConnectionLost
  <2> QED
    BY <1>1, <2>2, <2>3, <2>4, <2>5, <2>6, <2>7, <2>8 DEF BaseStep, ClientRuns
<1>2. ASSUME NEW t \in Callers, Stop(t)
      PROVE  OnItsBehalf
  <2>1. ~StopSealed(t) /\ ~StopAnnounced(t) /\ ~StopBreaks(t)
    BY <1>0 DEF StopSealed, StopAnnounced, StopBreaks, LInv, Lifecycle, Held
  <2>2. ~StopIgnored(t) /\ ~StopRefused(t)
    BY <1>0 DEF StopIgnored, StopRefused, Return, SelfType
  <2>3. StopBegins(t)
    BY <1>2, <2>1, <2>2 DEF Stop
  <2>4. holder = t /\ pc[t] = "stop" /\ StopId(t) = self.id
    BY <2>3 DEF StopBegins, Holds
  <2>5. ASSUME NEW n \in Starts, t = Timer(n)
        PROVE  holder = Timer(self.capture)
    BY <2>4, <2>5 DEF LInv, Lifecycle, Timers, TimerCurrent
  <2>6. t = Client => cmd.kind \in Kinds
    BY <2>4 DEF LInv, Lifecycle, Commanded, Kinds
  <2> QED
    BY <2>4, <2>5, <2>6 DEF Callers, StopId, OnItsBehalf
<1>3. ASSUME NEW n \in Starts, WorkerRuns(n)
      PROVE  OnItsBehalf
  <2>1. ~UNCHANGED self
    BY <1>0
  <2>2. holder = Worker(n) /\ Alive(n)
    BY <1>0, <1>3, <2>1
    DEF WorkerRuns, WorkerCreates, WorkerLooks, WorkerWakes, WorkerDecoded, WorkerPublishes,
        WorkerFinalized, PublishStops, PublishSkips, PublishEmits, PublishSent, WorkerEnds,
        WorkerEnded, WorkerLost, LostEnds, WorkerFails, FailEnds, FailReported, Holds,
        LockExclusive, Inside, Alive
  <2>3. n = self.capture
    BY <1>0, <2>2 DEF LInv, Lifecycle, Workers
  <2> QED
    BY <2>2, <2>3 DEF OnItsBehalf
<1>4. CASE UNCHANGED vars
  BY <1>0, <1>4 DEF vars, baseVars
<1> QED
  BY <1>1, <1>2, <1>3, <1>4 DEF Next, Callers

\* A recording is ended by a command with its id, by its own timer or worker, by the
\* loss of the client, or by a line that is too long, however late a timer or
\* a worker of an earlier recording gets the lock.
THEOREM StreamingOwnEnds == Spec => EndedByItsOwn
<1>1. LInv /\ Leaving /\ [Next]_vars =>
        [RecordingEnds => OnItsBehalf \/ ConnectionLost \/ (holder = Client /\ cmd = TooLong)]_baseVars
  BY OwnEnds
<1> QED
  BY <1>1, Lives, Leaves, PTL DEF Spec, EndedByItsOwn

(***************************************************************************)
(* The events of each id, in the promised order                            *)
(***************************************************************************)

\* While the client can be told, an idle session has told it so, and one
\* in use has an id that hears events.
LEMMA Audible ==
    ASSUME LInv, Named, writer = "open", ~closed
    PROVE  /\ ~Engaged => \A i \in Ids : told[i].phase \in Promise!Over
           /\ Engaged /\ (\A n \in Starts : pc[Worker(n)] # "ending") =>
                 told[self.id].phase \in Promise!Active
<1> USE Typed DEF LInv, Lifecycle, Heard, Promise!Active, Promise!Over
<1>1. ASSUME ~Engaged, NEW i \in Ids
      PROVE  told[i].phase \in Promise!Over
  <2>1. told[i].phase \in Phases \cup {"none", "finished", "cancelled", "error"}
    BY DEF ToldType
  <2> QED
    BY <1>1, <2>1 DEF Named, Phases
<1>2. ASSUME Engaged, \A n \in Starts : pc[Worker(n)] # "ending"
      PROVE  told[self.id].phase \in Promise!Active
  <2>1. self.phase \in {"recording", "transcribing"} /\ pc[Worker(started)] # "ending"
    BY <1>2, InUse DEF Engaged, SelfType, SelfSet, Phases
  <2> QED
    BY <2>1
<1> QED
  BY <1>1, <1>2

LEMMA BasePromised ==
    ASSUME LInv, Named, BaseStep
    PROVE  Promised
<1> USE TaskFacts, Typed
<1>1. \A t \in Callers : \A i : Reply(t, i, "refused", pc) => UNCHANGED told
  BY Refused
<1>2. CASE ClientReads \/ ReadEof \/ BadLineAnswered \/ CloseJoins \/ PeerLeaves
  BY <1>2
  DEF ClientReads, ReadCommand, ReadBadLine, ReadEof, BadLineAnswered, CloseJoins, PeerLeaves,
      Promised, Quiet
<1>3. CASE ReplySent(Client) \/ \E n \in Starts : TimerRuns(n) \/ CaptureStep(n)
  BY <1>3 DEF ReplySent, TimerRuns, TimerFires, TimerDropped, CaptureStep, Promised, Quiet
<1>4. CASE StartClosed \/ CancelClosed \/ StartRefused \/ CancelRefused
  BY <1>1, <1>4 DEF StartClosed, CancelClosed, StartRefused, CancelRefused, Callers, Promised, Quiet
<1>5. CASE StartOpens \/ CancelBegins \/ CloseBegins \/ CloseEnds
  BY <1>5 DEF StartOpens, CancelBegins, CloseBegins, CloseEnds, Promised, Quiet
<1>6. ASSUME Engaged \/ Opening, holder = Client, NEW kind, NEW p, Reply(Client, cmd.id, kind, p),
             cmd.id = self.id, UNCHANGED closed, pc[Client] \notin {"closing", "closed", "join"},
             \/ kind \in {"error", "recording"} /\ Opening
             \/ kind = "cancelled" /\ Engaged
      PROVE  Promised
  <2>1. CASE ~CanWrite
    BY <1>6, <2>1 DEF Reply, Promised, Quiet
  <2>2. CASE CanWrite
    <3>1. self.id \in Ids /\ told' = [told EXCEPT ![self.id] = Hear(@, kind)] /\ writer = "open"
      BY <1>6, <2>2, InUse DEF Reply, Tell, CanWrite
    <3>2. \A n \in Starts : pc[Worker(n)] \notin {"ending", "losing"}
      BY <1>6, Alone DEF Inside
    <3>3. ~closed /\ (Opening => ~Engaged)
      BY <1>6, <3>2 DEF LInv, Lifecycle, Current
    <3>4. Promise!Begin(self.id) \/ Promise!Fail(self.id) \/ Promise!Cancel(self.id)
      BY <1>6, <3>1, <3>2, <3>3, Audible
      DEF Promise!Begin, Promise!Fail, Promise!Cancel, Hear
    <3> QED
      BY <1>6, <3>1, <3>3, <3>4 DEF Promised, Promise!Speak
  <2> QED
    BY <2>1, <2>2
<1>7. CASE StartFails
  <2>1. Opening /\ holder = Client /\ cmd.id = self.id
    BY <1>7, InsideHolds DEF StartFails, Opening, Inside, LInv, Inv, Sane, Lifecycle, Commanded
  <2> QED
    BY <1>6, <1>7, <2>1 DEF StartFails, Opening
<1>8. ASSUME NEW limited \in BOOLEAN, StartRecords(limited)
      PROVE  Promised
  <2>1. Opening /\ holder = Client /\ cmd.id = self.id
    BY <1>8, InsideHolds DEF StartRecords, Opening, Inside, LInv, Inv, Sane, Lifecycle, Commanded
  <2> DEFINE p == IF limited THEN [pc EXCEPT ![Timer(started)] = "sleep"] ELSE pc
  <2>2. Reply(Client, cmd.id, "recording", p) /\ UNCHANGED closed
    BY <1>8 DEF StartRecords
  <2> HIDE DEF p
  <2> QED
    BY <1>6, <2>1, <2>2 DEF Opening
<1>9. CASE CancelEnds
  <2>1. pc[Client] = "cancelling" /\ Engaged /\ holder = Client /\ cmd.id = self.id
    BY <1>9, InsideHolds DEF CancelEnds, Inside, LInv, Inv, Sane, Lifecycle, Commanded, Held
  <2> QED
    BY <1>6, <1>9, <2>1 DEF CancelEnds
<1>10. CASE CancelsRecognition
  <2>1. Engaged /\ self.capture = 0
    BY <1>10 DEF CancelsRecognition, Cancels, Engaged
  <2> QED
    BY <2>1, InUse DEF Starts
<1> QED
  BY <1>2, <1>3, <1>4, <1>5, <1>7, <1>8, <1>9, <1>10 DEF BaseStep, ClientRuns

LEMMA StopPromised ==
    ASSUME LInv, Named, NEW t \in Callers, Stop(t)
    PROVE  Promised
<1> USE TaskFacts, Typed
<1>1. CASE StopIgnored(t) \/ StopRefused(t)
  BY <1>1, Refused DEF StopIgnored, StopRefused, Promised, Quiet
<1>2. CASE StopBegins(t)
  BY <1>2 DEF StopBegins, Promised, Quiet
<1>3. CASE StopAnnounced(t)
  BY <1>3 DEF StopAnnounced, StopLoses, Promised, Quiet
<1>4. CASE StopSealed(t) \/ StopBreaks(t)
  <2>1. pc[t] = "stopping" /\ t \in Task /\ holder = t /\ \A n \in Starts : t # Worker(n)
    BY <1>4, InsideHolds DEF StopSealed, StopBreaks, Callers, LInv, Inv, Sane, Inside
  <2>2. Engaged /\ self.phase = "transcribing"
    BY <2>1 DEF LInv, Lifecycle, Held, Engaged
  <2>3. started \in Starts /\ self.id \in Ids
    BY <2>2, InUse
  <2>4. \A n \in Starts : pc[Worker(n)] \notin {"ending", "losing"}
    BY <2>1, Alone DEF Inside
  <2>5. ~closed
    <3>1. pc[Client] # "closing"
      BY <2>1, Alone DEF Inside, Callers
    <3> QED
      BY <2>2, <2>4, <3>1 DEF LInv, Lifecycle, Current
  <2>6. CASE ~CanWrite
    BY <1>4, <2>6 DEF StopSealed, StopBreaks, StopLoses, Reply, Promised, Quiet
  <2>7. CASE CanWrite /\ StopSealed(t)
    <3>1. told' = [told EXCEPT ![self.id] = Hear(@, "transcribing")] /\ UNCHANGED closed
      BY <2>3, <2>7 DEF StopSealed, Tell
    <3>2. told[self.id].phase = "recording"
      BY <2>1, <2>2, <2>5, <2>7 DEF LInv, Lifecycle, Heard, Sealing, CanWrite
    <3>3. Promise!Transcribe(self.id)
      BY <2>3, <3>1, <3>2 DEF Promise!Transcribe, Hear
    <3> QED
      BY <2>3, <2>5, <3>1, <3>3 DEF Promised, Promise!Speak
  <2>8. CASE CanWrite /\ StopBreaks(t)
    <3>1. told' = [told EXCEPT ![self.id] = Hear(@, "error")] /\ UNCHANGED closed
      BY <2>3, <2>8 DEF StopBreaks, Reply, Tell
    <3>2. told[self.id].phase \in Promise!Active
      BY <2>2, <2>4, <2>5, <2>8, Audible DEF CanWrite
    <3>3. Promise!Fail(self.id)
      BY <2>3, <3>1, <3>2 DEF Promise!Fail, Hear
    <3> QED
      BY <2>3, <2>5, <3>1, <3>3 DEF Promised, Promise!Speak
  <2> QED
    BY <1>4, <2>6, <2>7, <2>8
<1> QED
  BY <1>1, <1>2, <1>3, <1>4 DEF Stop

LEMMA WorkerPromised ==
    ASSUME LInv, Named, NEW n \in Starts, WorkerRuns(n)
    PROVE  Promised
<1> USE TaskFacts, Typed
<1>1. CASE UNCHANGED told
  BY <1>1
  DEF WorkerRuns, WorkerCreates, WorkerLooks, WorkerWakes, WorkerDecoded, WorkerPublishes,
      WorkerFinalized, PublishStops, PublishSkips, PublishEmits, PublishSent, WorkerEnds,
      WorkerEnded, WorkerLost, LostEnds, WorkerFails, FailEnds, FailReported, Abandons,
      Promised, Quiet
<1>2. CASE ~UNCHANGED told
  <2>1. \/ PublishEmits(n) \/ (WorkerEnds(n) /\ ActiveSession(n)) \/ FailEnds(n)
    BY <1>2
    DEF WorkerRuns, WorkerCreates, WorkerLooks, WorkerWakes, WorkerDecoded, WorkerPublishes,
        WorkerFinalized, PublishStops, PublishSkips, PublishSent, WorkerEnds, WorkerEnded,
        WorkerLost, LostEnds, WorkerFails, FailReported
  <2>2. CanWrite /\ writer = "open" /\ UNCHANGED closed
    BY <1>2, <2>1 DEF PublishEmits, WorkerEnds, FailEnds, CanWrite
  <2>3. holder = Worker(n) /\ pc[Worker(n)] \in {"emit", "end", "failing"} /\ Alive(n)
    BY <2>1, InsideHolds
    DEF PublishEmits, WorkerEnds, FailEnds, Holds, Inside, LInv, Inv, Sane, Alive
  <2>4. Engaged /\ n = started /\ ~Opening /\ self.id = sid[n] /\ self.id \in Ids
    BY <2>1, <2>3, AtWork DEF PublishEmits, FailEnds, LInv, Lifecycle, Held
  <2>5. \A u \in Task \ {Worker(n)} : pc[u] \notin Inside
    BY <2>3, Alone
  <2>6. ~closed /\ \A m \in Starts : pc[Worker(m)] # "ending"
    BY <2>3, <2>4, <2>5 DEF LInv, Lifecycle, Current, Inside
  <2>7. told[self.id].phase \in Promise!Active
    BY <2>2, <2>4, <2>6, Audible
  <2>8. CASE PublishEmits(n)
    <3>1. /\ told[self.id].seq = run[n].seq /\ told[self.id].segment = run[n].segment
          /\ pc[Worker(n)] = "emit"
      BY <2>2, <2>4, <2>6, <2>8 DEF LInv, Lifecycle, Heard, Segment, PublishEmits, Holds
    <3>2. CASE Head(run[n].results) = "final"
      <4>1. told' = [told EXCEPT ![self.id].seq = told[self.id].seq + 1,
                                 ![self.id].segment = told[self.id].segment + 1]
        BY <2>2, <2>4, <2>8, <3>1, <3>2 DEF PublishEmits
      <4>2. Promise!Final(self.id)
        BY <2>4, <2>7, <4>1 DEF Promise!Final, ToldType
      <4> QED
        BY <2>2, <2>4, <2>6, <4>2 DEF Promised, Promise!Speak
    <3>3. CASE Head(run[n].results) # "final"
      <4>1. told' = [told EXCEPT ![self.id].seq = told[self.id].seq + 1,
                                 ![self.id].segment = told[self.id].segment]
        BY <2>2, <2>4, <2>8, <3>1, <3>3 DEF PublishEmits
      <4>2. Promise!Partial(self.id)
        BY <2>4, <2>7, <4>1 DEF Promise!Partial, ToldType
      <4> QED
        BY <2>2, <2>4, <2>6, <4>2 DEF Promised, Promise!Speak
    <3> QED
      BY <3>2, <3>3
  <2>9. CASE WorkerEnds(n) /\ ActiveSession(n)
    <3>1. told' = [told EXCEPT ![self.id] = Hear(@, "finished")] /\ pc[Worker(n)] = "end"
      BY <2>2, <2>4, <2>9 DEF WorkerEnds, Tell, Holds
    <3>2. self.phase = "transcribing"
      BY <2>3, <2>4, <3>1 DEF LInv, Lifecycle, Finishing, Engaged, SelfType, SelfSet, Phases
    <3>3. told[self.id].phase = "transcribing"
      <4>1. ~Sealing
        BY <2>5 DEF Sealing, Callers, Inside
      <4> QED
        BY <2>2, <2>4, <2>6, <3>2, <4>1 DEF LInv, Lifecycle, Heard
    <3>4. Promise!Finish(self.id)
      BY <2>4, <3>1, <3>3 DEF Promise!Finish, Hear
    <3> QED
      BY <2>2, <2>4, <2>6, <3>4 DEF Promised, Promise!Speak
  <2>10. CASE FailEnds(n)
    <3>1. told' = [told EXCEPT ![self.id] = Hear(@, "error")]
      BY <2>2, <2>4, <2>10 DEF FailEnds, Tell
    <3>2. Promise!Fail(self.id)
      BY <2>4, <2>7, <3>1 DEF Promise!Fail, Hear
    <3> QED
      BY <2>2, <2>4, <2>6, <3>2 DEF Promised, Promise!Speak
  <2> QED
    BY <2>1, <2>8, <2>9, <2>10
<1> QED
  BY <1>1, <1>2

LEMMA NextPromised ==
    ASSUME LInv, Named, [Next]_vars
    PROVE  [Promise!Next]_(Promise!vars) /\ Named'
<1> USE Typed
<1>1. Promised
  <2>1. CASE UNCHANGED vars
    BY <2>1 DEF vars, baseVars, Promised, Quiet
  <2> QED
    BY <2>1, BasePromised, StopPromised, WorkerPromised DEF Next, Callers
<1>2. closed' \in BOOLEAN
  BY NextInv DEF LInv, Inv, Sane, BaseTypeOK
<1>3. [Promise!Next]_(Promise!vars)
  BY <1>1, <1>2 DEF Promised, Quiet, Promise!Next, Promise!HangUp, Promise!vars
<1>4. ASSUME NEW i \in Ids, Promise!Speak(i)
      PROVE  Named'
  BY <1>4 DEF Promise!Speak, Promise!Begin, Promise!Partial, Promise!Final, Promise!Transcribe,
              Promise!Finish, Promise!Cancel, Promise!Fail, Named, ToldType
<1>5. Named'
  BY <1>1, <1>4 DEF Promised, Quiet, Named
<1> QED
  BY <1>3, <1>5

\* Each id hears its events in the order Dictation promises: one recording at
\* a time, text numbered without a gap, `finished' only after `transcribing',
\* and nothing once the service hung up.
THEOREM StreamingPromise == Spec => KeepsPromise
<1>1. StreamInit => LInv /\ Named /\ Promise!Init
  <2>1. StreamInit => Named /\ Promise!Init
    BY DEF StreamInit, Init, Named, Promise!Init, Promise!Silence
  <2> QED
    BY <2>1, InitLives
<1>2. LInv /\ Named /\ [Next]_vars => LInv' /\ Named' /\ [Promise!Next]_(Promise!vars)
  BY NextLives, NextPromised
<1> QED
  BY <1>1, <1>2, PTL DEF Spec, KeepsPromise, Promise!Safe

\* Both, for every connection.
THEOREM StreamingEvents == Spec => EndsAsPromised
BY StreamingPromise, StreamingOwnEnds DEF EndsAsPromised
=============================================================================
