------------------------ MODULE OfflineSessionProofs ------------------------
(***************************************************************************)
(* A session on its own, for any number of recordings, commands and        *)
(* chunks: the recordings are kept apart, and each id hears its events in  *)
(* the promised order.                                                     *)
(***************************************************************************)
EXTENDS OfflineSession, SessionProofs

(***************************************************************************)
(* Types and exclusion                                                     *)
(***************************************************************************)

LEMMA TakesKeeps ==
    ASSUME Sane, NEW t \in Task, StopTakes(t)
    PROVE  Sane'
<1> USE TypeParts, TypePartsNext, TaskFacts DEF Sane
<1>1. /\ holder = t /\ UNCHANGED lockVars
      /\ pc' = [Cleared(t) EXCEPT ![t] = "stopping"]
      /\ UNCHANGED <<closed, started, sid, lineVars, wireVars, told>>
  BY DEF StopTakes, Holds
<1>2. "stopping" \in Labels /\ 0 \in 0 .. MaxStarts
  BY SessionAssumption DEF Labels, Inside
<1>3. SelfType'
  BY <1>2 DEF StopTakes, SelfType, Phases
<1>4. CapType'
  BY CapStep, CaptureTypes DEF StopTakes, CapType
<1>5. PcType' /\ LockType' /\ LockExclusive' /\ (pc'[Client] = "start" => pc[Client] = "start")
  BY <1>1, <1>2, StayKeeps, HarmlessPc
<1> QED
  BY <1>1, <1>3, <1>4, <1>5
  DEF RecordType, CmdType, WireType, ToldType, lineVars, wireVars, StartsLeft

LEMMA SealedKeeps ==
    ASSUME Sane, NEW t \in Task, StopSealed(t)
    PROVE  Sane'
<1> USE TypeParts, TypePartsNext, TaskFacts DEF Sane
<1>1. holder = t /\ UNCHANGED <<self, closed, started, sid, cap, commands, wireVars>>
  BY InsideHolds DEF StopSealed, Inside
<1>2. "announce" \in Labels
  BY DEF Labels, Inside
<1>3. /\ PcType' /\ LockType' /\ CmdType' /\ LockExclusive' /\ ToldType'
      /\ pc'[Client] = "start" => pc[Client] = "start"
  <2>1. CASE CanWrite
    <3>1. ToldType' /\ CmdType'
      BY <2>1, TellType DEF StopSealed, CmdType
    <3>2. /\ PcType' /\ LockType' /\ LockExclusive'
          /\ pc'[Client] = "start" => pc[Client] = "start"
      BY <1>1, <1>2, <2>1, StayKeeps, HarmlessPc DEF StopSealed, Goto
    <3> QED
      BY <3>1, <3>2
  <2>2. CASE ~CanWrite
    <3>1. Raise(t, pc) /\ UNCHANGED told
      BY <2>2 DEF StopSealed
    <3>2. ToldType'
      BY <3>1 DEF ToldType
    <3> QED
      BY <1>1, <3>1, <3>2, RaiseKeeps, HarmlessPc
  <2> QED
    BY <2>1, <2>2
<1> QED
  BY <1>1, <1>3 DEF SelfType, RecordType, CapType, WireType, wireVars, StartsLeft

LEMMA AnnouncedKeeps ==
    ASSUME Sane, NEW t \in Callers, StopAnnounced(t)
    PROVE  Sane'
<1> USE TypeParts, TypePartsNext, TaskFacts DEF Sane
<1>1. /\ t \in Task /\ t # Worker(started)
      /\ UNCHANGED <<closed, started, sid, cap, commands, told>>
  <2>1. \A m : Timer(m) # Worker(started)
    BY DEF Timer, Worker
  <2> QED
    BY <2>1 DEF StopAnnounced, Callers
<1>2. holder = t /\ WireType'
  BY <1>1, InsideHolds DEF StopAnnounced, Inside, WireType, wireVars, Drained, DrainFails
<1>3. CASE Drained /\ Release /\ Forget(t) /\ self' = [self EXCEPT !.worker = started]
           /\ pc' = [pc EXCEPT ![t] = IF t = Client THEN "read" ELSE "done",
                               ![Worker(started)] = "recognize"]
  <2> DEFINE l == IF t = Client THEN "read" ELSE "done"
             p == [pc EXCEPT ![Worker(started)] = "recognize"]
  <2>1. l \in Labels \ Inside /\ l # "start" /\ "recognize" \in Labels \ Inside
    BY DEF Labels, Inside
  <2>2. Harmless(p, t)
    BY <2>1 DEF Harmless, PcType
  <2>3. pc' = [p EXCEPT ![t] = l]
    BY <1>1, <1>3 DEF PcType
  <2>4. /\ PcType' /\ LockType' /\ LockExclusive'
        /\ pc'[Client] = "start" => pc[Client] = "start"
    <3> HIDE DEF l, p
    <3> QED
      BY <1>1, <1>2, <1>3, <2>1, <2>2, <2>3, LeaveKeeps
  <2>5. SelfType' /\ CmdType'
    BY <1>3 DEF SelfType, RecordType, CmdType, Forget, NoCommand
  <2> QED
    BY <1>1, <1>2, <2>4, <2>5 DEF RecordType, CapType, ToldType, StartsLeft
<1>4. CASE Raise(t, pc) /\ UNCHANGED self
  <2>1. /\ PcType' /\ LockType' /\ CmdType' /\ LockExclusive'
        /\ pc'[Client] = "start" => pc[Client] = "start"
    BY <1>1, <1>2, <1>4, RaiseKeeps, HarmlessPc
  <2> QED
    BY <1>1, <1>2, <1>4, <2>1 DEF SelfType, RecordType, CapType, ToldType, StartsLeft
<1> QED
  BY <1>3, <1>4 DEF StopAnnounced

LEMMA BreaksKeeps ==
    ASSUME Sane, NEW t \in Task, StopBreaks(t)
    PROVE  Sane'
<1> USE TypeParts, TypePartsNext, TaskFacts DEF Sane
<1>1. holder = t /\ UNCHANGED <<closed, started, sid, commands, wireVars>>
      /\ Reply(t, self.id, "error", pc)
  BY InsideHolds DEF StopBreaks, Inside
<1>2. /\ PcType' /\ LockType' /\ CmdType' /\ LockExclusive' /\ ToldType'
      /\ pc'[Client] = "start" => pc[Client] = "start"
  BY <1>1, ReplyKeeps, HarmlessPc
<1>3. SelfType' /\ CapType'
  <2>1. SelfType'
    BY DEF StopBreaks, SelfType, Phases
  <2>2. cap[started] \in Capture => Emptied(CancelBegun(cap[started])) \in Capture
    BY CaptureTypes
  <2>3. started \in Starts => cap[started] \in Capture
    BY DEF CapType
  <2> QED
    BY <2>1, <2>2, <2>3, CapStep DEF StopBreaks
<1> QED
  BY <1>1, <1>2, <1>3 DEF RecordType, WireType, wireVars, StartsLeft

LEMMA WorkerKeeps ==
    ASSUME Sane, NEW n \in Starts, WorkerRuns(n)
    PROVE  Sane'
<1> USE TypeParts, TypePartsNext, TaskFacts DEF Sane
<1> DEFINE w == Worker(n)
<1>0. w \in Task /\ w # Client
  OBVIOUS
<1>1. UNCHANGED <<started, sid, cap, lineVars>>
  BY DEF WorkerRuns, WorkerRecognizes, WorkerDelivers, WorkerDelivered
<1>2. {"deliver", "done"} \subseteq Labels \ Inside /\ "delivering" \in Labels
  BY DEF Labels, Inside
<1>3. WireType' /\ closed' \in BOOLEAN
  BY DEF WorkerRuns, WorkerRecognizes, WorkerDelivers, WorkerDelivered, WireType, wireVars,
         Drained, DrainFails
<1>4. SelfType' /\ ToldType'
  <2>1. SelfType'
    BY DEF WorkerRuns, WorkerRecognizes, WorkerDelivers, WorkerDelivered, SelfType, Phases
  <2>2. UNCHANGED told \/ \E kind \in {"finished", "error"} : Tell(sid[n], kind)
    BY DEF WorkerRuns, WorkerRecognizes, WorkerDelivers, WorkerDelivered
  <2> QED
    BY <2>1, <2>2, TellType DEF ToldType
<1>5. /\ PcType' /\ LockType' /\ LockExclusive'
      /\ pc'[Client] = "start" => pc[Client] = "start"
  <2>1. CASE WorkerRecognizes(n)
    BY <1>0, <1>2, <2>1, OutsideKeeps DEF WorkerRecognizes, Await, Goto
  <2>2. CASE WorkerDelivers(n)
    <3>1. holder = w
      BY <2>2 DEF WorkerDelivers, Holds
    <3>2. \/ UNCHANGED lockVars /\ pc' = [pc EXCEPT ![w] = "delivering"]
          \/ Release /\ pc' = [pc EXCEPT ![w] = "done"]
      BY <2>2 DEF WorkerDelivers, Goto
    <3> HIDE DEF w
    <3> QED
      BY <1>0, <1>2, <3>1, <3>2, StayKeeps, LeaveKeeps, HarmlessPc
  <2>3. CASE WorkerDelivered(n)
    <3>1. holder = w /\ Release /\ pc' = [pc EXCEPT ![w] = "done"]
      BY <1>0, <2>3, InsideHolds DEF WorkerDelivered, Goto, Inside
    <3> HIDE DEF w
    <3> QED
      BY <1>0, <1>2, <3>1, LeaveKeeps, HarmlessPc
  <2> QED
    BY <2>1, <2>2, <2>3 DEF WorkerRuns
<1> QED
  BY <1>1, <1>3, <1>4, <1>5 DEF RecordType, CapType, CmdType, lineVars, StartsLeft

LEMMA NextSane ==
    ASSUME Sane, [Next]_baseVars
    PROVE  Sane'
<1>1. ASSUME NEW t \in Callers, Stop(t)
      PROVE  Sane'
  <2>1. t \in Task
    BY DEF Callers, Task
  <2> QED
    BY <1>1, <2>1, TakesKeeps, SealedKeeps, AnnouncedKeeps, BreaksKeeps, StopDeclinedKeeps
    DEF Stop
<1>2. CASE UNCHANGED baseVars
  BY <1>2, SameSane
<1> QED
  BY <1>1, <1>2, BaseStepKeeps, WorkerKeeps DEF Next, Callers

(***************************************************************************)
(* The recordings kept apart                                               *)
(***************************************************************************)

WorkerPlaces == {"none", "recognize", "deliver", "delivering", "done"}

\* A call of stop() has taken the capture and not yet created the worker.
Stopping == \E t \in Callers : pc[t] \in {"stopping", "announce"}

\* Each kind of task waits at places of its own.
Places ==
    /\ pc[Client] \in ClientPlaces
    /\ \A n \in Starts : pc[Timer(n)] \in TimerPlaces /\ pc[Worker(n)] \in WorkerPlaces

\* The command being executed.
Commanded ==
    /\ cmd.kind \in Kinds => cmd.id \in Ids
    /\ pc[Client] \in Kinds => cmd.kind = pc[Client]
    /\ pc[Client] \in {"opening", "cancelling"} => cmd.kind \in Kinds /\ cmd.id = self.id

\* Recordings to come, and the one being opened, are as at the beginning.
Ahead ==
    \A n \in Starts : n > started \/ (n = started /\ Opening) =>
        cap[n] = Fresh /\ pc[Timer(n)] = "none" /\ pc[Worker(n)] = "none"

\* The session's id is that of the last recording opened, or none; it has the
\* capture until stop() takes it.
Current ==
    /\ Engaged \/ Opening => started # 0 /\ self.id = sid[started]
    /\ Opening \/ self.phase = "recording" => self.capture = started
    /\ ~Opening /\ self.phase # "recording" => self.capture = 0
    /\ Opening => ~Engaged /\ ~closed
    /\ ~Engaged /\ ~Opening => self.id = NoId
    /\ \A n \in Starts : n <= started => sid[n] \in Ids
    /\ closed /\ Engaged => pc[Client] = "closing"

\* Only the last capture is live, while it records or stop() waits for its end.
Captures ==
    \A n \in Starts :
        /\ "eof" \in cap[n].flags => cap[n].proc = "exited"
        /\ Live(cap[n]) => n = started /\ (self.phase = "recording" \/ Sealing)
        /\ n = started /\ (self.phase = "recording" \/ Sealing) => cap[n].proc # "absent"

\* A worker that has not ended is the session's and has the last recording;
\* a recording that was stopped has one, unless it is about to be created or
\* the client can no longer be reached.
Workers ==
    /\ \A n \in Starts : Alive(n) => self.worker = n /\ n = started /\ ~Opening
    /\ \A n \in Starts : self.worker = n => pc[Worker(n)] # "none"
    /\ self.phase = "recording" \/ Stopping => pc[Worker(started)] = "none"
    /\ self.phase = "transcribing" => Stopping \/ Alive(started) \/ writer = "closing"

\* No timer is armed but that of the recording in progress.
Timers ==
    /\ TimerCurrent
    /\ self.timer # 0 => self.phase = "recording"
    /\ pc[Client] \in {"cancelling", "closing"} => self.timer = 0

\* What a task that is suspended with the lock knows of the session.
Held ==
    /\ Stopping => self.phase = "transcribing"
    /\ pc[Client] \in {"cancelling", "closing"} => self.phase = "recording"
    /\ pc[Client] \in {"closing", "join", "closed"} => closed
    /\ \A n \in Starts : pc[Worker(n)] = "delivering" => ~Engaged

\* After close() nothing is left but, at first, a worker.
Shut ==
    /\ pc[Client] \in {"join", "closed"} =>
         ~Engaged /\ \A n \in Starts : pc[Timer(n)] \in {"none", "done", "cancelled"}
    /\ pc[Client] = "closed" => \A n \in Starts : ~Alive(n)

\* What the client heard, for as long as it can be told.
Heard ==
    writer = "open" /\ ~closed =>
        /\ \A i \in Ids : told[i].phase \in Promise!Active => Engaged /\ i = self.id
        /\ self.phase = "recording" => told[self.id].phase = "recording"
        /\ self.phase = "transcribing" =>
             told[self.id].phase = IF Sealing THEN "recording" ELSE "transcribing"

Lifecycle ==
    /\ Places /\ Commanded /\ Ahead /\ Current
    /\ Captures /\ Workers /\ Timers /\ Held /\ Shut /\ Heard

LInv == Sane /\ Lifecycle

LEMMA Typed ==
    ASSUME LInv
    PROVE  /\ SelfType /\ RecordType /\ CapType /\ PcType /\ CmdType /\ WireType /\ ToldType
           /\ closed \in BOOLEAN
BY TypeParts DEF LInv, Sane

\* Nobody but the holder of the lock is suspended with it.
LEMMA Alone ==
    ASSUME LInv, NEW t \in Task, holder = t
    PROVE  \A u \in Task \ {t} : pc[u] \notin Inside
BY DEF LInv, Sane, LockExclusive

\* A session in use is that of the last recording opened.
LEMMA InUse ==
    ASSUME LInv, Engaged \/ Opening
    PROVE  /\ started \in Starts /\ self.id = sid[started]
           /\ self.id \in Ids /\ cap[started] \in Capture
<1>1. started \in Starts
  BY Typed, SessionAssumption DEF LInv, Lifecycle, Current, RecordType, Starts
<1> QED
  BY <1>1, Typed DEF LInv, Lifecycle, Current, CapType, RecordType

(***************************************************************************)
(* Steps that leave the session's attributes, the captures and what the    *)
(* client heard as they are                                                *)
(***************************************************************************)

SessionStays == UNCHANGED <<self, closed, started, sid, cap, told>> /\ WriterKept

\* stop() ends where it waits only with the capture, and not with a client
\* that can still be told.
LeavesStop(t) ==
    pc[t] \in {"stopping", "announce"} => writer' = "closing" /\ ~Live(cap[started])

LEMMA ClientMoves ==
    ASSUME LInv, SessionStays,
           NEW l \in {"read", "badline", "overlong", "start", "stop", "cancel", "close",
                      "reply", "closed"},
           Moves(Client, l), LeavesStop(Client),
           pc[Client] \notin {"opening", "cancelling", "closing", "closed"},
           pc[Client] = "join" <=> l = "closed",
           l = "closed" => \A n \in Starts : ~Alive(n),
           IF l \in Kinds THEN cmd'.kind = l /\ cmd'.id \in Ids ELSE CommandStays
    PROVE  Lifecycle'
<1> USE TaskFacts, Typed DEF LInv, Lifecycle, SessionStays, WriterKept, CommandStays, Moves
<1>1. Places' /\ Ahead'
  BY DEF Places, ClientPlaces, Ahead, Opening
<1>2. Current'
  BY DEF Current, Opening, Engaged
<1>3. Commanded'
  BY NotKinds DEF Commanded, Opening, Kinds
<1>4. /\ pc[Client] # "stopping" => (Sealing' <=> Sealing)
      /\ pc[Client] \notin {"stopping", "announce"} => (Stopping' <=> Stopping)
      /\ Sealing' => Sealing
      /\ Stopping' => Stopping
  BY DEF Sealing, Stopping, Callers
<1>5. Captures'
  BY <1>4 DEF Captures, LeavesStop
<1>6. Workers'
  <2>1. self.phase # "idle" => started \in Starts
    BY InUse DEF Engaged
  <2> QED
    BY <1>4, <2>1 DEF Workers, Alive, Opening, Held, LeavesStop
<1>7. Timers' /\ Held' /\ Shut'
  BY <1>4 DEF Timers, TimerCurrent, Held, Shut, Alive, Engaged
<1>8. Heard'
  BY <1>4 DEF Heard, Engaged, LeavesStop
<1> QED
  BY <1>1, <1>2, <1>3, <1>5, <1>6, <1>7, <1>8

LEMMA TimerMoves ==
    ASSUME LInv, SessionStays, UNCHANGED cmd,
           NEW n \in Starts, NEW l \in {"stop", "done", "reply"},
           Moves(Timer(n), l), LeavesStop(Timer(n)),
           pc[Timer(n)] \in {"sleep", "stop", "cancelled", "stopping", "announce", "reply"},
           l \in {"stop", "reply"} => pc[Timer(n)] \in {"sleep", "stop"}
    PROVE  Lifecycle'
<1> USE TaskFacts, Typed DEF LInv, Lifecycle, SessionStays, WriterKept, Moves
<1>1. Places' /\ Ahead' /\ Commanded' /\ Current'
  BY DEF Places, TimerPlaces, Ahead, Current, Commanded, Opening, Engaged
<1>2. /\ pc[Timer(n)] # "stopping" => (Sealing' <=> Sealing)
      /\ pc[Timer(n)] \notin {"stopping", "announce"} => (Stopping' <=> Stopping)
      /\ Sealing' => Sealing
      /\ Stopping' => Stopping
  BY DEF Sealing, Stopping, Callers
<1>3. Captures'
  BY <1>2 DEF Captures, LeavesStop
<1>4. Workers'
  <2>1. self.phase # "idle" => started \in Starts
    BY InUse DEF Engaged
  <2> QED
    BY <1>2, <2>1 DEF Workers, Alive, Opening, Held, LeavesStop
<1>5. Timers' /\ Held' /\ Shut'
  BY <1>2 DEF Timers, TimerCurrent, Held, Shut, Alive, Engaged
<1>6. Heard'
  BY <1>2 DEF Heard, Engaged, LeavesStop
<1> QED
  BY <1>1, <1>3, <1>4, <1>5, <1>6

\* A worker goes on; it ends only when nothing waits for it.
LEMMA WorkerMoves ==
    ASSUME LInv, UNCHANGED <<self, started, sid, cap, told, cmd>>, WriterKept,
           NEW n \in Starts, NEW l \in {"deliver", "done"}, Moves(Worker(n), l), Alive(n),
           l = "done" => self.phase # "transcribing",
           closed' = closed \/ (closed' /\ ~Engaged)
    PROVE  Lifecycle'
<1> USE TaskFacts, Typed DEF LInv, Lifecycle, WriterKept, Moves
<1>1. n = started /\ self.worker = n /\ ~Opening
  BY DEF Workers
<1>2. Places' /\ Ahead' /\ Commanded' /\ Current'
  <2>1. Places' /\ Commanded' /\ Current'
    BY <1>1 DEF Places, WorkerPlaces, Current, Commanded, Opening, Engaged
  <2>2. Ahead'
    BY <1>1 DEF Ahead, Opening, RecordType, Starts
  <2> QED
    BY <2>1, <2>2
<1>3. Sealing' = Sealing /\ Stopping' = Stopping
  BY DEF Sealing, Stopping, Callers
<1>4. Captures' /\ Workers'
  BY <1>1, <1>3 DEF Captures, Workers, Alive, Opening
<1>5. Timers' /\ Held' /\ Shut'
  BY <1>1, <1>3 DEF Timers, TimerCurrent, Held, Shut, Alive, Engaged
<1>6. Heard'
  BY <1>3 DEF Heard, Engaged
<1> QED
  BY <1>2, <1>4, <1>5, <1>6

(***************************************************************************)
(* The step that ends a session                                            *)
(***************************************************************************)

LEMMA SessionEnds ==
    ASSUME LInv, NEW t \in Task, holder = t, pc[t] # "opening", NEW l, Moves(t, l),
           self'.phase = "idle", self'.id = NoId, self'.capture = 0,
           self'.worker = self.worker, self'.timer = 0,
           self.phase # "recording" \/ self.timer = 0,
           UNCHANGED <<started, sid>>, WriterKept, closed => closed',
           \A n \in Starts : /\ n > started => cap'[n] = cap[n]
                             /\ ~Live(cap'[n])
                             /\ "eof" \in cap'[n].flags => cap'[n].proc = "exited",
           \/ t = Client /\ l \in {"reply", "close"} /\ CommandStays
           \/ t = Client /\ l = "join" /\ closed' /\ CommandStays
           \/ l \in {"reply", "done"} /\ UNCHANGED cmd /\ pc[t] = "stopping"
              /\ \E n \in Starts : t = Timer(n)
           \/ l \in {"delivering", "done"} /\ UNCHANGED cmd
              /\ \E n \in Starts : t = Worker(n) /\ Alive(n),
           pc[Client] \notin {"join", "closed"} \/ t # Client,
           writer' = "open" /\ ~closed' => \A i \in Ids : told'[i].phase \notin Promise!Active
    PROVE  Lifecycle'
<1> USE TaskFacts, Typed DEF LInv, Lifecycle, WriterKept, CommandStays, Moves
<1>1. \A u \in Task \ {t} : pc[u] \notin Inside
  BY Alone
<1>2. ~Opening /\ ~Opening'
  BY <1>1 DEF Opening, Inside
<1>3. \A n \in Starts : pc[Timer(n)] \notin {"sleep", "stop"}
  BY DEF Timers, TimerCurrent, Starts
<1>4. ~Sealing' /\ ~Stopping'
  BY <1>1 DEF Sealing, Stopping, Callers, Task, Inside
<1>5. Places'
  BY DEF Places, ClientPlaces, TimerPlaces, WorkerPlaces
<1>6. Commanded'
  BY <1>1, NotKinds DEF Commanded, Opening, Kinds, Inside
<1>7. Ahead'
  BY <1>2 DEF Ahead, Workers, RecordType, Starts
<1>8. Current' /\ Captures'
  BY <1>2, <1>4 DEF Current, Captures, Engaged, Live
<1>9. Workers'
  BY <1>2, <1>4 DEF Workers, Alive
<1>10. Timers' /\ Held'
  BY <1>1, <1>3, <1>4 DEF Timers, TimerCurrent, Held, Engaged, Inside
<1>11. Shut'
  BY <1>1, <1>3 DEF Shut, Alive, Engaged, Places, TimerPlaces, Inside
<1>12. Heard'
  BY DEF Heard
<1> QED
  BY <1>5, <1>6, <1>7, <1>8, <1>9, <1>10, <1>11, <1>12

(***************************************************************************)
(* The end of a method                                                     *)
(***************************************************************************)

LEMMA ReturnLives ==
    ASSUME LInv, NEW t \in Callers, Return(t), pc[t] \in {"start", "stop", "cancel", "reply"},
           UNCHANGED <<closed, started, sid, cap, told>>, WriterKept
    PROVE  Lifecycle'
<1> USE TaskFacts, Typed
<1>1. ~Spawns /\ LeavesStop(t)
  BY OfflineAssumption DEF Spawns, LeavesStop
<1>2. CASE t = Client
  <2>1. Moves(Client, "read") /\ UNCHANGED self /\ CommandStays
    BY <1>1, <1>2, MovesTo DEF Return, Goto, Forget, CommandStays
  <2> QED
    BY <1>1, <1>2, <2>1, ClientMoves DEF SessionStays, Kinds
<1>3. ASSUME NEW n \in Starts, t = Timer(n)
      PROVE  Lifecycle'
  <2>1. Moves(t, "done") /\ UNCHANGED <<self, cmd>>
    BY <1>3, MovesTo DEF Return, Goto, Forget
  <2>2. pc[t] \in {"stop", "reply"}
    BY <1>3 DEF LInv, Lifecycle, Places, TimerPlaces
  <2> QED
    BY <1>1, <1>3, <2>1, <2>2, TimerMoves DEF SessionStays
<1> QED
  BY <1>2, <1>3 DEF Callers

\* A method raises with the session as it is.
LEMMA RaiseLives ==
    ASSUME LInv, NEW t \in Callers, Raise(t, pc), LeavesStop(t),
           pc[t] \in {"start", "stop", "cancel", "reply", "stopping", "announce"},
           UNCHANGED <<self, closed, started, sid, cap, told>>, WriterKept
    PROVE  Lifecycle'
<1> USE TaskFacts, Typed
<1>1. CASE t = Client
  <2>1. Moves(Client, "close") /\ CommandStays
    BY <1>1, MovesTo DEF Raise, Forget, CommandStays
  <2> QED
    BY <1>1, <2>1, ClientMoves DEF SessionStays, Kinds
<1>2. ASSUME NEW n \in Starts, t = Timer(n)
      PROVE  Lifecycle'
  <2>1. Moves(t, "done") /\ UNCHANGED cmd
    BY <1>2, MovesTo DEF Raise, Forget
  <2>2. pc[t] \in {"stop", "reply", "stopping", "announce"}
    BY <1>2 DEF LInv, Lifecycle, Places, TimerPlaces
  <2> QED
    BY <1>2, <2>1, <2>2, TimerMoves DEF SessionStays
<1> QED
  BY <1>1, <1>2 DEF Callers

\* A refused command changes nothing but where its caller waits.
LEMMA RefusedLives ==
    ASSUME LInv, NEW t \in Callers, NEW i, Reply(t, i, "refused", pc),
           pc[t] \in {"start", "stop", "cancel"},
           UNCHANGED <<self, closed, started, sid, cap, wireVars>>
    PROVE  Lifecycle' /\ UNCHANGED told
<1> USE TaskFacts, Typed
<1>1. UNCHANGED told /\ WriterKept /\ LeavesStop(t)
  BY DEF Reply, Tell, Hear, ToldType, WriterKept, wireVars, LeavesStop
<1>2. CASE ~CanWrite
  BY <1>1, <1>2, RaiseLives DEF Reply
<1>3. CASE CanWrite
  <2>1. t \in Task /\ pc' = [pc EXCEPT ![t] = "reply"] /\ UNCHANGED cmd
    BY <1>3 DEF Reply, Callers
  <2>2. Moves(t, "reply")
    BY <2>1, MovesTo
  <2>3. CASE t = Client
    BY <1>1, <2>1, <2>2, <2>3, ClientMoves DEF SessionStays, CommandStays, Kinds
  <2>4. ASSUME NEW n \in Starts, t = Timer(n)
        PROVE  Lifecycle'
    <3>1. pc[t] = "stop"
      BY <2>4 DEF LInv, Lifecycle, Places, TimerPlaces
    <3> QED
      BY <1>1, <2>1, <2>2, <2>4, <3>1, TimerMoves DEF SessionStays
  <2> QED
    BY <1>1, <2>3, <2>4 DEF Callers
<1> QED
  BY <1>2, <1>3, <1>1

LEMMA ReplySentLives ==
    ASSUME LInv, NEW t \in Callers, ReplySent(t)
    PROVE  Lifecycle'
<1>1. /\ pc[t] = "reply" /\ WriterKept /\ LeavesStop(t)
      /\ UNCHANGED <<closed, started, sid, cap, told>>
  BY DEF ReplySent, Drained, DrainFails, wireVars, WriterKept, LeavesStop
<1>2. CASE Return(t)
  BY <1>1, <1>2, ReturnLives
<1>3. CASE Raise(t, pc) /\ UNCHANGED self
  BY <1>1, <1>3, RaiseLives
<1> QED
  BY <1>2, <1>3 DEF ReplySent

(***************************************************************************)
(* The connection task                                                     *)
(***************************************************************************)

LEMMA ReadsLives ==
    ASSUME LInv, ClientReads \/ ReadEof \/ BadLineAnswered \/ CloseJoins
    PROVE  Lifecycle'
<1> USE TaskFacts, Typed
<1>1. SessionStays
  BY DEF ClientReads, ReadCommand, ReadBadLine, ReadEof, BadLineAnswered, CloseJoins,
         SessionStays, WriterKept, Drained, DrainFails, wireVars
<1>2. ASSUME NEW kind \in Kinds, NEW i \in Ids, ReadCommand(kind, i)
      PROVE  Lifecycle'
  <2>1. Moves(Client, kind) /\ pc[Client] = "read" /\ cmd'.kind = kind /\ cmd'.id = i
    BY <1>2, MovesTo DEF ReadCommand, Goto
  <2> QED
    BY <1>1, <2>1, ClientMoves DEF Kinds, LeavesStop
<1>3. CASE ReadBadLine \/ ReadEof \/ BadLineAnswered
  <2>1. PICK l \in {"badline", "overlong", "close", "read"} : pc' = [pc EXCEPT ![Client] = l]
    BY <1>3 DEF ReadBadLine, ReadEof, BadLineAnswered, Goto
  <2>2. Moves(Client, l) /\ pc[Client] \in {"read", "badline", "overlong"} /\ CommandStays
    BY <1>3, <2>1, MovesTo DEF ReadBadLine, ReadEof, BadLineAnswered, CommandStays, lineVars
  <2> QED
    BY <1>1, <2>2, ClientMoves DEF Kinds, LeavesStop
<1>4. CASE CloseJoins
  <2>1. Moves(Client, "closed") /\ pc[Client] = "join" /\ CommandStays
    BY <1>4, MovesTo DEF CloseJoins, Goto, CommandStays, lineVars
  <2>2. \A n \in Starts : ~Alive(n)
    BY <1>4 DEF CloseJoins, WorkerLive, Alive, LInv, Lifecycle, Workers, Starts
  <2> QED
    BY <1>1, <2>1, <2>2, ClientMoves DEF Kinds, LeavesStop
<1> QED
  BY <1>2, <1>3, <1>4 DEF ClientReads

\* start() begins to open the capture of a new recording.
LEMMA OpensLives ==
    ASSUME LInv, StartOpens
    PROVE  Lifecycle'
<1> USE TaskFacts, Typed DEF LInv, Lifecycle
<1> DEFINE k == started + 1
<1>1. /\ pc[Client] = "start" /\ holder = Client /\ ~closed /\ ~Engaged /\ ~Opening
      /\ \A n \in Starts : ~Alive(n)
  BY DEF StartOpens, Holds, MustWait, WorkerLive, Engaged, Opening, Alive, Workers, Starts
<1>2. k \in Starts /\ started \in Nat
  BY <1>1, SessionAssumption DEF Sane, StartsLeft, RecordType, Starts
<1>3. /\ started' = k /\ sid' = [sid EXCEPT ![k] = cmd.id]
      /\ self' = [self EXCEPT !.capture = k, !.id = cmd.id]
      /\ UNCHANGED <<closed, cap, cmd, writer, told>>
  BY DEF StartOpens, lineVars, wireVars
<1>4. Moves(Client, "opening")
  BY MovesTo DEF StartOpens, Goto
<1>5. cmd.kind = "start" /\ cmd.id \in Ids
  BY <1>1 DEF Commanded, Kinds
<1>6. /\ cap[k] = Fresh /\ pc[Timer(k)] = "none" /\ pc[Worker(k)] = "none"
      /\ \A n \in Starts : n > k => n > started
      /\ \A n \in Starts : n <= k => n = k \/ n <= started
  BY <1>2 DEF Ahead, Starts
<1>7. /\ self'.phase = "idle" /\ self'.capture = k /\ self'.id = cmd.id
      /\ self'.worker = self.worker /\ self'.timer = self.timer
      /\ sid'[k] = cmd.id /\ \A n \in Starts \ {k} : sid'[n] = sid[n]
      /\ k # 0 /\ k # started
  BY <1>1, <1>2, <1>3 DEF SelfType, RecordType, Engaged
<1>8. \A u \in Task \ {Client} : pc[u] \notin Inside
  BY <1>1, Alone
<1>9. ~Sealing /\ ~Sealing' /\ ~Stopping'
  BY <1>1, <1>4, <1>8 DEF Sealing, Stopping, Callers, Moves, Inside
<1>10. \A n \in Starts : ~Live(cap[n]) /\ pc[Timer(n)] \notin {"sleep", "stop"}
  BY <1>1, <1>9 DEF Captures, Timers, TimerCurrent, Engaged
<1> HIDE DEF k
<1>11. Places' /\ Commanded'
  BY <1>3, <1>4, <1>5, <1>7 DEF Places, ClientPlaces, Commanded, Opening, Moves, Kinds
<1>12. Ahead'
  BY <1>2, <1>3, <1>4, <1>6 DEF Ahead, Moves
<1>13. Current'
  BY <1>1, <1>2, <1>3, <1>4, <1>5, <1>6, <1>7 DEF Current, Engaged, Opening, Moves
<1>14. Captures'
  BY <1>3, <1>7, <1>9, <1>10 DEF Captures
<1>15. Workers' /\ Timers' /\ Shut'
  BY <1>1, <1>3, <1>4, <1>7, <1>9, <1>10
  DEF Workers, Timers, TimerCurrent, Shut, Engaged, Alive, Opening, Moves
<1>16. Held'
  BY <1>1, <1>3, <1>4, <1>7, <1>8, <1>9 DEF Held, Engaged, Moves, Inside
<1>17. Heard'
  BY <1>1, <1>3, <1>7 DEF Heard, Engaged
<1> QED
  BY <1>11, <1>12, <1>13, <1>14, <1>15, <1>16, <1>17

\* The capture could not be started.
LEMMA OpenFailsLives ==
    ASSUME LInv, StartFails
    PROVE  Lifecycle'
<1> USE TaskFacts, Typed DEF LInv, Lifecycle
<1>1. /\ pc[Client] = "opening" /\ holder = Client /\ Opening /\ ~Engaged
  BY InsideHolds DEF StartFails, Inside, Sane, Opening, Current
<1>2. /\ started \in Starts /\ self.id \in Ids /\ cmd.id = self.id /\ cap[started] = Fresh
      /\ pc[Timer(started)] = "none" /\ pc[Worker(started)] = "none"
  BY <1>1, InUse DEF Commanded, Ahead
<1>3. /\ UNCHANGED <<closed, started, sid, writer>> /\ self' = Idle
      /\ cap' = [cap EXCEPT ![started] = CancelBegun(cap[started])]
  BY DEF StartFails, wireVars
<1>4. PICK l \in {"reply", "close"} :
        /\ pc' = [pc EXCEPT ![Client] = l] /\ CommandStays
        /\ IF CanWrite THEN told' = [told EXCEPT ![cmd.id] = Hear(@, "error")] ELSE UNCHANGED told
  BY <1>2, Replied DEF StartFails, CommandStays
<1>5. Moves(Client, l)
  BY <1>4, MovesTo
<1>6. /\ self'.phase = "idle" /\ self'.id = NoId /\ self'.capture = 0
      /\ self'.worker = self.worker /\ self'.timer = self.timer
  BY <1>3 DEF Idle, SelfType
<1>7. \A i \in Ids : writer = "open" /\ ~closed => told'[i].phase \notin Promise!Active
  BY <1>1, <1>2, <1>4 DEF Heard, CanWrite, Hear, ToldType, Promise!Active
<1>8. \A u \in Task \ {Client} : pc[u] \notin Inside
  BY <1>1, Alone
<1>9. /\ cap'[started] = CancelBegun(Fresh)
      /\ \A n \in Starts \ {started} : cap'[n] = cap[n]
      /\ CancelBegun(Fresh).proc = "absent" /\ "eof" \notin CancelBegun(Fresh).flags
  BY <1>2, <1>3 DEF CapType, CancelBegun, Fresh, Terminated
<1>10. ~Sealing /\ ~Sealing' /\ ~Stopping'
  BY <1>1, <1>5, <1>8 DEF Sealing, Stopping, Callers, Moves, Inside
<1>11. Places' /\ Commanded'
  BY <1>1, <1>4, <1>5, NotKinds DEF Places, ClientPlaces, Commanded, CommandStays, Opening, Moves, Kinds
<1>12. Ahead' /\ Current'
  BY <1>1, <1>2, <1>3, <1>5, <1>6, <1>9
  DEF Ahead, Current, Engaged, Opening, Moves, RecordType, Starts
<1>13. Captures'
  BY <1>1, <1>2, <1>3, <1>6, <1>9, <1>10 DEF Captures, Engaged, Live
<1>14. Workers' /\ Timers' /\ Shut'
  BY <1>1, <1>2, <1>3, <1>5, <1>6, <1>10
  DEF Workers, Timers, TimerCurrent, Shut, Engaged, Alive, Opening, Moves
<1>15. Held'
  BY <1>1, <1>3, <1>5, <1>6, <1>8, <1>10 DEF Held, Engaged, Moves, Inside
<1>16. Heard'
  BY <1>3, <1>6, <1>7 DEF Heard, Engaged
<1> QED
  BY <1>11, <1>12, <1>13, <1>14, <1>15, <1>16

\* The microphone is on, and the client is told so if it can be.
LEMMA RecordsLives ==
    ASSUME LInv, NEW limited \in BOOLEAN, StartRecords(limited)
    PROVE  Lifecycle'
<1> USE TaskFacts, Typed DEF LInv, Lifecycle
<1> DEFINE p == IF limited THEN [pc EXCEPT ![Timer(started)] = "sleep"] ELSE pc
           k == IF limited THEN started ELSE 0
           s == IF limited THEN "sleep" ELSE "none"
<1>1. /\ pc[Client] = "opening" /\ holder = Client /\ Opening /\ ~Engaged /\ ~closed
  BY InsideHolds DEF StartRecords, Inside, Sane, Opening, Current
<1>2. /\ started \in Starts /\ self.id \in Ids /\ cmd.id = self.id /\ cap[started] = Fresh
      /\ self.capture = started /\ self.id = sid[started]
      /\ pc[Timer(started)] = "none" /\ pc[Worker(started)] = "none"
  BY <1>1, InUse DEF Commanded, Ahead, Current
<1>3. /\ UNCHANGED <<closed, started, sid, writer>>
      /\ self' = [self EXCEPT !.phase = "recording", !.timer = k]
      /\ cap' = [cap EXCEPT ![started] = Spawned(cap[started])]
  BY DEF StartRecords, wireVars
<1>4. Reply(Client, cmd.id, "recording", p)
  BY DEF StartRecords
<1>5. PICK l \in {"reply", "close"} :
        /\ pc' = [p EXCEPT ![Client] = l] /\ CommandStays
        /\ IF CanWrite THEN told' = [told EXCEPT ![cmd.id] = Hear(@, "recording")]
           ELSE UNCHANGED told
  <2> HIDE DEF p
  <2> QED
    BY <1>2, <1>4 DEF Reply, Tell, Raise, Forget, CommandStays
<1>6. /\ pc'[Client] = l /\ pc'[Timer(started)] = s
      /\ \A u \in Task \ {Client, Timer(started)} : pc'[u] = pc[u]
  BY <1>2, <1>5 DEF PcType
<1>7. /\ self'.phase = "recording" /\ self'.id = self.id /\ self'.capture = self.capture
      /\ self'.worker = self.worker /\ self'.timer = k
  BY <1>3 DEF SelfType
<1>8. /\ cap'[started] = Spawned(Fresh)
      /\ \A n \in Starts \ {started} : cap'[n] = cap[n]
      /\ Spawned(Fresh).proc = "running" /\ Spawned(Fresh).flags = {}
  BY <1>2, <1>3 DEF CapType, Spawned, Fresh
<1>9. \A u \in Task \ {Client} : pc[u] \notin Inside
  BY <1>1, Alone
<1>10. writer = "open" =>
         /\ told'[self.id].phase = "recording"
         /\ \A i \in Ids \ {self.id} : told'[i].phase \notin Promise!Active
  BY <1>1, <1>2, <1>5 DEF Heard, CanWrite, Hear, ToldType
<1>11. s \in {"sleep", "none"} /\ (s = "sleep" => k = started)
  OBVIOUS
<1> HIDE DEF p, s, k
<1>12. ~Sealing /\ ~Sealing' /\ ~Stopping'
  BY <1>1, <1>2, <1>6, <1>9, <1>11 DEF Sealing, Stopping, Callers, Inside
<1>13. /\ \A n \in Starts : ~Alive(n) /\ ~Live(cap[n])
       /\ \A n \in Starts : pc[Timer(n)] \notin {"sleep", "stop"}
  BY <1>1, <1>12 DEF Workers, Captures, Timers, TimerCurrent, Engaged
<1>14. Places'
  BY <1>2, <1>6, <1>11 DEF Places, ClientPlaces, TimerPlaces
<1>15. Commanded'
  BY <1>1, <1>2, <1>5, <1>6, NotKinds DEF Commanded, CommandStays, Opening, Kinds
<1>16. Ahead' /\ Current'
  BY <1>1, <1>2, <1>3, <1>6, <1>7, <1>8 DEF Ahead, Current, Engaged, Opening, RecordType, Starts
<1>17. Captures'
  BY <1>2, <1>3, <1>7, <1>8, <1>12, <1>13 DEF Captures, Live
<1>18. Workers'
  BY <1>1, <1>2, <1>3, <1>6, <1>7, <1>12, <1>13 DEF Workers, Alive, Opening
<1>19. Timers' /\ Shut'
  BY <1>1, <1>2, <1>3, <1>6, <1>7, <1>9, <1>11, <1>13
  DEF Timers, TimerCurrent, Shut, Engaged, Alive, Inside
<1>20. Held'
  BY <1>2, <1>3, <1>6, <1>7, <1>9, <1>12 DEF Held, Engaged, Inside
<1>21. Heard'
  BY <1>2, <1>3, <1>7, <1>10 DEF Heard, Engaged
<1> QED
  BY <1>14, <1>15, <1>16, <1>17, <1>18, <1>19, <1>20, <1>21

\* cancel() and close() give up the capture of a recording and stop the
\* timer; the session stays in use until the capture has ended.
LEMMA GivesUp ==
    ASSUME LInv, self.phase = "recording", holder = Client,
           NEW l, Clears(Client, l),
           self' = [self EXCEPT !.timer = 0],
           cap' = [cap EXCEPT ![started] = CancelBegun(@)],
           UNCHANGED <<started, sid, told, cmd, writer>>,
           \/ /\ l = "cancelling" /\ pc[Client] = "cancel"
              /\ cmd.id = self.id /\ UNCHANGED closed
           \/ l = "closing" /\ pc[Client] = "close" /\ closed'
    PROVE  Lifecycle'
<1> USE TaskFacts, Typed DEF LInv, Lifecycle
<1>1. /\ started \in Starts /\ self.id = sid[started] /\ self.id \in Ids
      /\ cap[started] \in Capture /\ Engaged
  BY InUse DEF Engaged
<1>2. /\ self'.phase = self.phase /\ self'.id = self.id /\ self'.capture = self.capture
      /\ self'.worker = self.worker /\ self'.timer = 0
  BY DEF SelfType
<1>3. /\ pc'[Client] = l
      /\ \A n \in Starts : pc'[Worker(n)] = pc[Worker(n)]
      /\ \A n \in Starts :
            \/ pc'[Timer(n)] = pc[Timer(n)] /\ pc[Timer(n)] \notin {"sleep", "stop"}
            \/ pc[Timer(n)] \in {"sleep", "stop"} /\ pc'[Timer(n)] \in {"done", "cancelled"}
  BY DEF Clears
<1>4. /\ cap'[started] = CancelBegun(cap[started])
      /\ \A n \in Starts \ {started} : cap'[n] = cap[n]
  BY <1>1 DEF CapType
<1>5. /\ CancelBegun(cap[started]).flags = cap[started].flags \cup {"stopping", "cancelled", "available"}
      /\ CancelBegun(cap[started]).proc \in {cap[started].proc, "terminating"}
      /\ cap[started].proc \in {"absent", "exited"} =>
             CancelBegun(cap[started]).proc = cap[started].proc
  BY <1>1 DEF Capture, CancelBegun, Terminated
<1>6. \A u \in Task \ {Client} : pc[u] \notin Inside
  BY Alone
<1>7. ~Sealing /\ ~Sealing' /\ ~Stopping /\ ~Stopping'
  BY <1>3, <1>6 DEF Sealing, Stopping, Callers, Inside
<1>8. Places' /\ Commanded'
  BY <1>2, <1>3 DEF Places, ClientPlaces, TimerPlaces, Commanded, Kinds
<1>9. Ahead'
  BY <1>1, <1>3, <1>4 DEF Ahead, Opening, RecordType, Starts
<1>10. Current'
  BY <1>1, <1>2, <1>3 DEF Current, Engaged, Opening
<1>11. Captures'
  BY <1>1, <1>2, <1>4, <1>5, <1>7 DEF Captures, Live
<1>12. Workers'
  BY <1>1, <1>2, <1>3, <1>7 DEF Workers, Alive, Opening
<1>13. Timers' /\ Held'
  BY <1>1, <1>2, <1>3, <1>7 DEF Timers, TimerCurrent, Held, Engaged
<1>14. Shut'
  BY <1>3 DEF Shut
<1>15. Heard'
  BY <1>2, <1>7 DEF Heard, Engaged
<1> QED
  BY <1>8, <1>9, <1>10, <1>11, <1>12, <1>13, <1>14, <1>15

\* No capture lives unless a recording is in progress or being sealed.
LEMMA Silenced ==
    ASSUME LInv, self.phase # "recording" \/ "eof" \in cap[started].flags, ~Sealing,
           started \in 0 .. MaxStarts
    PROVE  \A n \in Starts : ~Live(cap[n])
BY DEF LInv, Lifecycle, Captures, Live

\* The session ends as the last step of cancel(), close() or stop() with the
\* capture that was awaited.
LEMMA EmptiedDies ==
    ASSUME LInv, started \in Starts, "eof" \in cap[started].flags,
           NEW c \in {Emptied(cap[started]), Emptied(CancelBegun(cap[started]))},
           cap' = [cap EXCEPT ![started] = c]
    PROVE  \A n \in Starts : /\ n > started => cap'[n] = cap[n]
                             /\ ~Live(cap'[n])
                             /\ "eof" \in cap'[n].flags => cap'[n].proc = "exited"
<1> USE Typed DEF LInv, Lifecycle
<1>1. cap[started] \in Capture /\ cap[started].proc = "exited" /\ started \in Nat
  BY SessionAssumption DEF CapType, Captures, Starts
<1>2. Emptied(cap[started]).proc = "exited"
  BY <1>1 DEF Capture, Emptied
<1>3. CancelBegun(cap[started]).proc = "exited" /\ CancelBegun(cap[started]) \in Capture
  BY <1>1, CaptureTypes, ZenonT(60) DEF Capture, CancelBegun, Terminated
<1>4. Emptied(CancelBegun(cap[started])).proc = "exited"
  BY <1>3 DEF Capture, Emptied
<1>5. c.proc = "exited"
  BY <1>2, <1>4
<1>6. cap'[started] = c /\ \A n \in Starts \ {started} : cap'[n] = cap[n]
  BY DEF CapType
<1>7. \A n \in Starts \ {started} : ~Live(cap[n])
  BY DEF Captures
<1> QED
  BY <1>1, <1>5, <1>6, <1>7 DEF Captures, Live, Starts

LEMMA CancelLives ==
    ASSUME LInv, CancelBegins \/ CancelsRecognition \/ CancelEnds
    PROVE  Lifecycle'
<1> USE TaskFacts, Typed
<1>1. CASE CancelBegins
  <2>1. /\ holder = Client /\ pc[Client] = "cancel" /\ cmd.id = self.id /\ self.capture # 0
        /\ self' = [self EXCEPT !.timer = 0]
        /\ cap' = [cap EXCEPT ![self.capture] = CancelBegun(@)]
        /\ pc' = [Cleared(Client) EXCEPT ![Client] = "cancelling"]
        /\ UNCHANGED <<closed, started, sid, told, cmd, writer>>
    BY <1>1 DEF CancelBegins, Cancels, Holds, lineVars, wireVars
  <2>2. self.capture = started /\ self.phase = "recording"
    BY <2>1 DEF LInv, Lifecycle, Current, Opening
  <2>3. Clears(Client, "cancelling")
    BY <2>1, ClearsTo DEF LInv, Lifecycle, Timers
  <2> QED
    BY <2>1, <2>2, <2>3, GivesUp
<1>2. CASE CancelsRecognition
  <2>1. /\ holder = Client /\ pc[Client] = "cancel" /\ Engaged /\ cmd.id = self.id
        /\ self.capture = 0 /\ self' = [Idle EXCEPT !.timer = 0]
        /\ Reply(Client, self.id, "cancelled", Cleared(Client))
        /\ UNCHANGED <<closed, started, sid, cap, writer>>
    BY <1>2 DEF CancelsRecognition, Cancels, Holds, Engaged, wireVars
  <2>2. self.phase # "recording" /\ started \in Starts /\ self.id \in Ids
    BY <2>1, InUse DEF LInv, Lifecycle, Current, Starts
  <2>3. PICK l \in {"reply", "close"} :
          /\ pc' = [Cleared(Client) EXCEPT ![Client] = l] /\ CommandStays
          /\ IF CanWrite THEN told' = [told EXCEPT ![self.id] = Hear(@, "cancelled")]
             ELSE UNCHANGED told
    BY <2>1, <2>2 DEF Reply, Tell, Raise, Forget, CommandStays
  <2>4. Clears(Client, l)
    BY <2>3, ClearsTo DEF LInv, Lifecycle, Timers
  <2>5. Moves(Client, l)
    BY <2>2, <2>4 DEF Clears, Moves, LInv, Lifecycle, Timers, TimerCurrent
  <2>6. ~Sealing
    BY <2>1, Alone DEF Sealing, Callers, Inside
  <2>7. \A n \in Starts : ~Live(cap[n])
    BY <2>2, <2>6, Silenced DEF RecordType
  <2>8. writer = "open" /\ ~closed => \A i \in Ids : told'[i].phase \notin Promise!Active
    BY <2>2, <2>3 DEF CanWrite, Hear, ToldType, LInv, Lifecycle, Heard, Promise!Active
  <2>9. /\ self'.phase = "idle" /\ self'.id = NoId /\ self'.capture = 0
        /\ self'.worker = self.worker /\ self'.timer = 0
    BY <2>1 DEF Idle, SelfType
  <2> QED
    BY <2>1, <2>2, <2>3, <2>5, <2>7, <2>8, <2>9, SessionEnds
    DEF WriterKept, LInv, Lifecycle, Captures
<1>3. CASE CancelEnds
  <2>1. /\ pc[Client] = "cancelling" /\ holder = Client /\ self' = Idle
        /\ Finished(cap[self.capture]) /\ UNCHANGED <<closed, started, sid, writer>>
        /\ cap' = [cap EXCEPT ![self.capture] = Emptied(@)]
        /\ Reply(Client, cmd.id, "cancelled", pc)
    BY <1>3, InsideHolds DEF CancelEnds, Inside, wireVars, LInv, Sane
  <2>2. Engaged /\ self.phase = "recording" /\ cmd.id = self.id /\ self.timer = 0
    BY <2>1 DEF LInv, Lifecycle, Held, Commanded, Timers, Engaged
  <2>3. /\ started \in Starts /\ self.capture = started /\ self.id \in Ids
        /\ "eof" \in cap[started].flags
    BY <2>1, <2>2, InUse DEF LInv, Lifecycle, Current, Captures, Finished
  <2>4. PICK l \in {"reply", "close"} :
          /\ pc' = [pc EXCEPT ![Client] = l] /\ CommandStays
          /\ IF CanWrite THEN told' = [told EXCEPT ![self.id] = Hear(@, "cancelled")]
             ELSE UNCHANGED told
    BY <2>1, <2>2, <2>3 DEF Reply, Tell, Raise, Forget, CommandStays
  <2>5. Moves(Client, l)
    BY <2>4, MovesTo
  <2>6. writer = "open" /\ ~closed => \A i \in Ids : told'[i].phase \notin Promise!Active
    BY <2>3, <2>4 DEF CanWrite, Hear, ToldType, LInv, Lifecycle, Heard, Promise!Active
  <2>7. /\ self'.phase = "idle" /\ self'.id = NoId /\ self'.capture = 0
        /\ self'.worker = self.worker /\ self'.timer = 0
    BY <2>1, <2>2 DEF Idle, SelfType
  <2>8. \A n \in Starts : /\ n > started => cap'[n] = cap[n]
                          /\ ~Live(cap'[n])
                          /\ "eof" \in cap'[n].flags => cap'[n].proc = "exited"
    BY <2>1, <2>3, EmptiedDies
  <2> QED
    BY <2>1, <2>2, <2>4, <2>5, <2>6, <2>7, <2>8, SessionEnds DEF WriterKept
<1> QED
  BY <1>1, <1>2, <1>3

LEMMA CloseLives ==
    ASSUME LInv, CloseBegins \/ CloseEnds
    PROVE  Lifecycle'
<1> USE TaskFacts, Typed
<1>1. CASE CloseBegins /\ self.capture # 0
  <2>1. /\ holder = Client /\ pc[Client] = "close" /\ closed'
        /\ self' = [self EXCEPT !.timer = 0]
        /\ cap' = [cap EXCEPT ![self.capture] = CancelBegun(@)]
        /\ pc' = [Cleared(Client) EXCEPT ![Client] = "closing"]
        /\ UNCHANGED <<started, sid, told, cmd, writer>>
    BY <1>1 DEF CloseBegins, Holds, lineVars, wireVars
  <2>2. self.capture = started /\ self.phase = "recording"
    BY <1>1, <2>1 DEF LInv, Lifecycle, Current, Opening
  <2>3. Clears(Client, "closing")
    BY <2>1, ClearsTo DEF LInv, Lifecycle, Timers
  <2> QED
    BY <2>1, <2>2, <2>3, GivesUp
<1>2. CASE CloseBegins /\ self.capture = 0
  <2>1. /\ holder = Client /\ pc[Client] = "close" /\ closed'
        /\ self' = [Idle EXCEPT !.timer = 0] /\ UNCHANGED cap
        /\ pc' = [Cleared(Client) EXCEPT ![Client] = "join"]
        /\ UNCHANGED <<started, sid, told, cmd, writer>>
    BY <1>2 DEF CloseBegins, Holds, lineVars, wireVars
  <2>2. self.phase # "recording"
    BY <1>2, InUse DEF LInv, Lifecycle, Current, Engaged, Starts
  <2>3. Clears(Client, "join")
    BY <2>1, ClearsTo DEF LInv, Lifecycle, Timers
  <2>4. Moves(Client, "join")
    BY <2>2, <2>3 DEF Clears, Moves, LInv, Lifecycle, Timers, TimerCurrent
  <2>5. ~Sealing
    BY <2>1, Alone DEF Sealing, Callers, Inside
  <2>6. \A n \in Starts : ~Live(cap[n])
    BY <2>2, <2>5, Silenced DEF RecordType
  <2>7. /\ self'.phase = "idle" /\ self'.id = NoId /\ self'.capture = 0
        /\ self'.worker = self.worker /\ self'.timer = 0
    BY <2>1 DEF Idle, SelfType
  <2> QED
    BY <2>1, <2>2, <2>4, <2>6, <2>7, SessionEnds
    DEF WriterKept, CommandStays, LInv, Lifecycle, Captures
<1>3. CASE CloseEnds
  <2>1. /\ pc[Client] = "closing" /\ holder = Client /\ self' = Idle
        /\ Finished(cap[self.capture])
        /\ UNCHANGED <<closed, started, sid, writer, cmd, told>>
        /\ cap' = [cap EXCEPT ![self.capture] = Emptied(@)]
        /\ Moves(Client, "join")
    BY <1>3, InsideHolds, MovesTo DEF CloseEnds, Inside, wireVars, lineVars, LInv, Sane, Goto
  <2>2. Engaged /\ self.phase = "recording" /\ closed /\ self.timer = 0
    BY <2>1 DEF LInv, Lifecycle, Held, Timers, Engaged
  <2>3. /\ started \in Starts /\ self.capture = started
        /\ "eof" \in cap[started].flags
    BY <2>1, <2>2, InUse DEF LInv, Lifecycle, Current, Captures, Finished
  <2>4. /\ self'.phase = "idle" /\ self'.id = NoId /\ self'.capture = 0
        /\ self'.worker = self.worker /\ self'.timer = 0
    BY <2>1, <2>2 DEF Idle, SelfType
  <2>5. \A n \in Starts : /\ n > started => cap'[n] = cap[n]
                          /\ ~Live(cap'[n])
                          /\ "eof" \in cap'[n].flags => cap'[n].proc = "exited"
    BY <2>1, <2>3, EmptiedDies
  <2> QED
    BY <2>1, <2>2, <2>4, <2>5, SessionEnds DEF WriterKept, CommandStays
<1> QED
  BY <1>1, <1>2, <1>3

(***************************************************************************)
(* stop(), called by the connection task or by a timer                     *)
(***************************************************************************)

LEMMA TakesLives ==
    ASSUME LInv, NEW t \in Callers, StopTakes(t)
    PROVE  Lifecycle'
<1> USE TaskFacts, Typed DEF LInv, Lifecycle
<1>1. /\ holder = t /\ pc[t] = "stop" /\ ~closed /\ Engaged /\ self.phase = "recording"
      /\ UNCHANGED <<closed, started, sid, told, cmd, writer>>
  BY DEF StopTakes, Holds, Engaged, lineVars, wireVars
<1>2. /\ started \in Starts /\ self.capture = started /\ self.id = sid[started]
      /\ self.id \in Ids /\ cap[started] \in Capture
  BY <1>1, InUse DEF Current
<1>3. /\ self' = [self EXCEPT !.phase = "transcribing", !.timer = 0, !.capture = 0]
      /\ cap' = [cap EXCEPT ![started] = Sealed(cap[started])]
      /\ pc' = [Cleared(t) EXCEPT ![t] = "stopping"]
  BY <1>2 DEF StopTakes
<1>4. t \in Task /\ Clears(t, "stopping") /\ \A n \in Starts : t # Worker(n)
  <2>1. t \in Task /\ \A n \in Starts : t # Worker(n)
    BY DEF Callers
  <2> QED
    BY <1>3, <2>1, ClearsTo DEF Timers
<1>5. /\ self'.phase = "transcribing" /\ self'.id = self.id /\ self'.capture = 0
      /\ self'.worker = self.worker /\ self'.timer = 0
  BY <1>3 DEF SelfType
<1>6. /\ pc'[t] = "stopping"
      /\ \A n \in Starts : pc'[Worker(n)] = pc[Worker(n)]
      /\ Client # t => pc'[Client] = pc[Client]
      /\ \A n \in Starts : Timer(n) # t =>
            \/ pc'[Timer(n)] = pc[Timer(n)] /\ pc[Timer(n)] \notin {"sleep", "stop"}
            \/ pc[Timer(n)] \in {"sleep", "stop"} /\ pc'[Timer(n)] \in {"done", "cancelled"}
  BY <1>4 DEF Clears
<1>7. /\ cap'[started] = Sealed(cap[started])
      /\ \A n \in Starts \ {started} : cap'[n] = cap[n]
  BY <1>2, <1>3 DEF CapType
<1>8. /\ Sealed(cap[started]).flags = cap[started].flags \cup {"stopping"}
      /\ Sealed(cap[started]).proc \in {cap[started].proc, "terminating"}
      /\ cap[started].proc \in {"absent", "exited"} =>
             Sealed(cap[started]).proc = cap[started].proc
  BY <1>2 DEF Capture, Sealed, Terminated
<1>9. \A u \in Task \ {t} : pc[u] \notin Inside
  BY <1>1, <1>4, Alone
<1>10. Sealing' /\ Stopping'
  BY <1>6 DEF Sealing, Stopping
<1>11. Places' /\ Commanded'
  BY <1>1, <1>4, <1>5, <1>6
  DEF Places, ClientPlaces, TimerPlaces, Commanded, Kinds, Callers
<1>12. Ahead'
  BY <1>1, <1>2, <1>4, <1>6, <1>7, <1>9 DEF Ahead, Opening, Inside, RecordType, Starts
<1>13. Current'
  BY <1>1, <1>2, <1>4, <1>5, <1>6, <1>9 DEF Current, Engaged, Opening, Inside
<1>14. Captures'
  BY <1>1, <1>2, <1>5, <1>7, <1>8, <1>10 DEF Captures, Live
<1>15. Workers'
  BY <1>1, <1>2, <1>4, <1>5, <1>6, <1>9, <1>10 DEF Workers, Alive, Opening, Inside
<1>16. Timers' /\ Held'
  BY <1>1, <1>2, <1>4, <1>5, <1>6, <1>9 DEF Timers, TimerCurrent, Held, Engaged, Inside
<1>17. Shut'
  BY <1>1, <1>4, <1>6, <1>9 DEF Shut, Engaged, Inside
<1>18. Heard'
  BY <1>1, <1>2, <1>5, <1>10 DEF Heard, Engaged
<1> QED
  BY <1>11, <1>12, <1>13, <1>14, <1>15, <1>16, <1>17, <1>18

\* What stop() finds when its wait for the capture is over.
LEMMA StopWaited ==
    ASSUME LInv, NEW t \in Callers, pc[t] \in {"stopping", "announce"},
           pc[t] = "stopping" => Finished(cap[started])
    PROVE  /\ t \in Task /\ holder = t /\ \A n \in Starts : t # Worker(n)
           /\ self.phase = "transcribing" /\ Engaged /\ ~closed
           /\ started \in Starts /\ self.id \in Ids /\ self.id = sid[started]
           /\ self.capture = 0 /\ self.timer = 0
           /\ pc[Worker(started)] = "none" /\ \A n \in Starts : ~Alive(n)
           /\ \A n \in Starts : ~Live(cap[n])
           /\ pc[t] = "stopping" => "eof" \in cap[started].flags
<1> USE TaskFacts, Typed DEF LInv, Lifecycle
<1>1. t \in Task /\ \A n \in Starts : t # Worker(n)
  BY DEF Callers
<1>2. holder = t /\ \A u \in Task \ {t} : pc[u] \notin Inside
  BY <1>1, InsideHolds, Alone DEF Inside, Sane
<1>3. Stopping /\ self.phase = "transcribing" /\ Engaged
  BY DEF Stopping, Held, Engaged
<1>4. pc[Client] \notin {"closing", "opening"}
  BY <1>1, <1>2 DEF Inside, Callers
<1>5. started \in Starts /\ self.id \in Ids /\ self.id = sid[started]
  BY <1>3, InUse
<1>6. ~closed /\ self.capture = 0 /\ self.timer = 0
  BY <1>3, <1>4 DEF Current, Timers, Opening
<1>7. pc[Worker(started)] = "none" /\ \A n \in Starts : ~Alive(n)
  BY <1>3 DEF Workers, Alive
<1>8. CASE pc[t] = "stopping"
  <2>1. Sealing
    BY <1>8 DEF Sealing
  <2>2. "eof" \in cap[started].flags
    BY <1>5, <1>8, <2>1 DEF Captures, Finished
  <2>3. \A n \in Starts : ~Live(cap[n])
    BY <1>5, <2>2 DEF Captures, Live
  <2> QED
    BY <1>1, <1>2, <1>3, <1>5, <1>6, <1>7, <2>2, <2>3
<1>9. CASE pc[t] = "announce"
  <2>1. ~Sealing
    BY <1>2, <1>9 DEF Sealing, Callers, Inside, Task
  <2>2. \A n \in Starts : ~Live(cap[n])
    BY <1>3, <2>1 DEF Captures
  <2> QED
    BY <1>1, <1>2, <1>3, <1>5, <1>6, <1>7, <1>9, <2>2
<1> QED
  BY <1>8, <1>9

\* The capture is sealed and the client hears that the recording is over.
LEMMA SealedLives ==
    ASSUME LInv, NEW t \in Callers, StopSealed(t)
    PROVE  Lifecycle'
<1> USE TaskFacts, Typed
<1>1. /\ pc[t] = "stopping" /\ Finished(cap[started])
      /\ UNCHANGED <<self, closed, started, sid, cap, writer>>
  BY DEF StopSealed, Recording, wireVars
<1>2. /\ t \in Task /\ holder = t /\ \A n \in Starts : t # Worker(n)
      /\ self.phase = "transcribing" /\ Engaged
      /\ started \in Starts /\ self.id \in Ids /\ \A n \in Starts : ~Live(cap[n])
  BY <1>1, StopWaited
<1>3. CASE ~CanWrite
  <2>1. Raise(t, pc) /\ UNCHANGED told
    BY <1>3 DEF StopSealed
  <2>2. WriterKept /\ LeavesStop(t)
    BY <1>1, <1>2, <1>3 DEF WriterKept, LeavesStop, CanWrite, WireType
  <2> QED
    BY <1>1, <2>1, <2>2, RaiseLives
<1>4. CASE CanWrite
  <2> USE DEF LInv, Lifecycle
  <2>1. Tell(self.id, "transcribing") /\ Moves(t, "announce") /\ UNCHANGED cmd /\ writer = "open"
    BY <1>2, <1>4, MovesTo DEF StopSealed, Goto, CanWrite
  <2>2. \A u \in Task \ {t} : pc[u] \notin Inside
    BY <1>2, Alone
  <2>3. Sealing /\ Stopping /\ ~Sealing' /\ Stopping'
    BY <1>1, <1>2, <2>1, <2>2 DEF Sealing, Stopping, Callers, Moves, Inside, Task
  <2>4. /\ told'[self.id].phase = "transcribing"
        /\ \A i \in Ids \ {self.id} : told'[i] = told[i]
    BY <1>2, <2>1 DEF Tell, Hear, ToldType
  <2>5. Places' /\ Commanded'
    BY <1>1, <1>2, <2>1
    DEF Places, ClientPlaces, TimerPlaces, Commanded, Kinds, Callers, Moves
  <2>6. Ahead'
    BY <1>1, <1>2, <2>1 DEF Ahead, Opening, Moves
  <2>7. Current'
    BY <1>1, <1>2, <2>1 DEF Current, Opening, Engaged, Moves
  <2>8. Captures' /\ Workers'
    BY <1>1, <1>2, <2>1, <2>3 DEF Captures, Workers, Alive, Opening, Moves
  <2>9. Timers' /\ Held' /\ Shut'
    BY <1>1, <1>2, <2>1, <2>3 DEF Timers, TimerCurrent, Held, Shut, Engaged, Moves
  <2>10. Heard'
    BY <1>1, <1>2, <2>1, <2>3, <2>4 DEF Heard, Engaged
  <2> QED
    BY <2>5, <2>6, <2>7, <2>8, <2>9, <2>10
<1> QED
  BY <1>3, <1>4

\* The worker is created before the lock is free.
LEMMA AnnouncedLives ==
    ASSUME LInv, NEW t \in Callers, StopAnnounced(t)
    PROVE  Lifecycle'
<1> USE TaskFacts, Typed
<1>1. pc[t] = "announce" /\ UNCHANGED <<closed, started, sid, cap, told>>
  BY DEF StopAnnounced
<1>2. /\ t \in Task /\ holder = t /\ \A n \in Starts : t # Worker(n)
      /\ self.phase = "transcribing" /\ Engaged /\ ~closed
      /\ started \in Starts /\ self.id \in Ids /\ self.id = sid[started]
      /\ self.capture = 0 /\ self.timer = 0
      /\ pc[Worker(started)] = "none" /\ \A n \in Starts : ~Alive(n) /\ ~Live(cap[n])
  BY <1>1, StopWaited
<1>3. CASE DrainFails /\ Raise(t, pc) /\ UNCHANGED self
  <2>1. WriterKept /\ LeavesStop(t)
    BY <1>2, <1>3 DEF DrainFails, WriterKept, LeavesStop
  <2> QED
    BY <1>1, <1>3, <2>1, RaiseLives
<1>4. CASE Drained /\ Forget(t) /\ self' = [self EXCEPT !.worker = started]
           /\ pc' = [pc EXCEPT ![t] = IF t = Client THEN "read" ELSE "done",
                               ![Worker(started)] = "recognize"]
  <2> USE DEF LInv, Lifecycle
  <2> DEFINE l == IF t = Client THEN "read" ELSE "done"
  <2>1. /\ pc'[t] = l /\ pc'[Worker(started)] = "recognize"
        /\ \A u \in Task \ {t, Worker(started)} : pc'[u] = pc[u]
    BY <1>2, <1>4 DEF PcType
  <2>2. /\ self'.phase = "transcribing" /\ self'.id = self.id /\ self'.capture = 0
        /\ self'.worker = started /\ self'.timer = 0
    BY <1>2, <1>4 DEF SelfType
  <2>3. UNCHANGED writer /\ IF t = Client THEN cmd' = NoCommand ELSE UNCHANGED cmd
    BY <1>4 DEF Drained, wireVars, Forget
  <2>4. \A u \in Task \ {t} : pc[u] \notin Inside
    BY <1>2, Alone
  <2>5. /\ l \in {"read", "done"} /\ (l = "read" <=> t = Client)
        /\ t = Client \/ \E n \in Starts : t = Timer(n)
    BY DEF Callers
  <2> HIDE DEF l
  <2>6. ~Sealing /\ ~Sealing' /\ ~Stopping'
    BY <1>1, <1>2, <2>1, <2>4, <2>5 DEF Sealing, Stopping, Callers, Inside
  <2>7. ~Opening /\ ~Opening'
    BY <1>1, <2>1, <2>4, <2>5 DEF Opening, Inside
  <2>8. Places' /\ Commanded'
    BY <1>2, <2>1, <2>2, <2>3, <2>5, NotKinds
    DEF Places, ClientPlaces, TimerPlaces, WorkerPlaces, Commanded, Kinds
  <2>9. Ahead'
    <3>1. \A n \in Starts : n > started => t # Timer(n)
      BY <1>1 DEF Ahead
    <3>2. \A n \in Starts : n > started => n # started
      BY DEF Starts, RecordType
    <3> QED
      BY <1>1, <1>2, <2>1, <2>7, <3>1, <3>2 DEF Ahead
  <2>10. Current' /\ Captures'
    BY <1>1, <1>2, <2>1, <2>2, <2>6, <2>7 DEF Current, Captures, Engaged
  <2>11. Workers'
    BY <1>1, <1>2, <2>1, <2>2, <2>6, <2>7 DEF Workers, Alive
  <2>12. Timers' /\ Held'
    BY <1>1, <1>2, <2>1, <2>2, <2>5, <2>6 DEF Timers, TimerCurrent, Held, Engaged
  <2>13. Shut'
    BY <1>2, <2>1, <2>5 DEF Shut
  <2>14. Heard'
    BY <1>1, <1>2, <2>2, <2>3, <2>6 DEF Heard, Engaged
  <2> QED
    BY <2>8, <2>9, <2>10, <2>11, <2>12, <2>13, <2>14
<1> QED
  BY <1>3, <1>4 DEF StopAnnounced

\* The recording is too short or the child failed.
LEMMA BreaksLives ==
    ASSUME LInv, NEW t \in Callers, StopBreaks(t)
    PROVE  Lifecycle'
<1> USE TaskFacts, Typed
<1>1. /\ pc[t] = "stopping" /\ Finished(cap[started])
      /\ self' = [self EXCEPT !.phase = "idle", !.id = NoId]
      /\ cap' = [cap EXCEPT ![started] = Emptied(CancelBegun(@))]
      /\ Reply(t, self.id, "error", pc) /\ UNCHANGED <<closed, started, sid, writer>>
  BY DEF StopBreaks, Recording, wireVars
<1>2. /\ t \in Task /\ holder = t
      /\ self.phase = "transcribing" /\ started \in Starts /\ self.id \in Ids
      /\ self.capture = 0 /\ self.timer = 0 /\ "eof" \in cap[started].flags
  BY <1>1, StopWaited
<1>3. PICK l \in {"reply", "close", "done"} :
        /\ pc' = [pc EXCEPT ![t] = l]
        /\ t = Client => l # "done"
        /\ t # Client => l # "close"
        /\ IF t = Client THEN CommandStays ELSE UNCHANGED cmd
        /\ IF CanWrite THEN told' = [told EXCEPT ![self.id] = Hear(@, "error")]
           ELSE UNCHANGED told
  BY <1>1, <1>2 DEF Reply, Tell, Raise, Forget, CommandStays
<1>4. Moves(t, l)
  BY <1>2, <1>3, MovesTo
<1>5. writer = "open" /\ ~closed => \A i \in Ids : told'[i].phase \notin Promise!Active
  BY <1>2, <1>3 DEF CanWrite, Hear, ToldType, LInv, Lifecycle, Heard, Promise!Active
<1>6. /\ self'.phase = "idle" /\ self'.id = NoId /\ self'.capture = 0
      /\ self'.worker = self.worker /\ self'.timer = 0
  BY <1>1, <1>2 DEF SelfType
<1> DEFINE c == Emptied(CancelBegun(cap[started]))
<1>7. cap' = [cap EXCEPT ![started] = c]
  BY <1>1, <1>2
<1> HIDE DEF c
<1>8. \A n \in Starts : /\ n > started => cap'[n] = cap[n]
                        /\ ~Live(cap'[n])
                        /\ "eof" \in cap'[n].flags => cap'[n].proc = "exited"
  BY <1>2, <1>7, EmptiedDies DEF c
<1> QED
  BY <1>1, <1>2, <1>3, <1>4, <1>5, <1>6, <1>8, SessionEnds DEF WriterKept, Callers

(***************************************************************************)
(* The worker                                                              *)
(***************************************************************************)

\* A result is expected exactly while the session waits for it.
LEMMA AtWork ==
    ASSUME LInv, NEW n \in Starts, Alive(n)
    PROVE  /\ n = started /\ self.worker = n /\ ~Opening /\ sid[n] \in Ids
           /\ self.phase # "recording"
           /\ Expected(n) <=> self.phase = "transcribing"
           /\ Expected(n) => self.id = sid[n] /\ ~closed
<1> USE TaskFacts, Typed DEF LInv, Lifecycle
<1>1. n = started /\ self.worker = n /\ ~Opening /\ sid[n] \in Ids
  BY DEF Workers, Current, Starts
<1>2. self.phase # "recording"
  BY <1>1 DEF Workers, Alive
<1>3. self.phase = "transcribing" => self.id = sid[n] /\ ~closed
  BY <1>1 DEF Current, Engaged, Held
<1> QED
  BY <1>1, <1>2, <1>3 DEF Expected

LEMMA WorkerLives ==
    ASSUME LInv, NEW n \in Starts, WorkerRuns(n)
    PROVE  Lifecycle'
<1> USE TaskFacts, Typed
<1> DEFINE w == Worker(n)
<1>1. /\ pc[w] \in {"recognize", "deliver", "delivering"} /\ Alive(n)
      /\ UNCHANGED <<started, sid, cap, cmd>> /\ WriterKept
  BY DEF WorkerRuns, WorkerRecognizes, WorkerDelivers, WorkerDelivered, Holds, Alive,
         lineVars, wireVars, Drained, DrainFails, WriterKept
<1>2. CASE WorkerRecognizes(n)
  <2>1. Moves(w, "deliver") /\ UNCHANGED <<self, closed, told>>
    BY <1>2, MovesTo DEF WorkerRecognizes, Goto
  <2> QED
    BY <1>1, <2>1, WorkerMoves
<1>3. CASE WorkerDelivered(n)
  <2>1. Moves(w, "done") /\ UNCHANGED <<self, told>> /\ pc[w] = "delivering"
        /\ (UNCHANGED closed \/ closed')
    BY <1>3, MovesTo DEF WorkerDelivered, Goto
  <2>2. ~Engaged
    BY <2>1 DEF LInv, Lifecycle, Held
  <2> QED
    BY <1>1, <2>1, <2>2, WorkerMoves DEF Engaged
<1>4. CASE WorkerDelivers(n) /\ ~Expected(n)
  <2>1. Moves(w, "done") /\ UNCHANGED <<self, told, closed>>
    BY <1>4, MovesTo DEF WorkerDelivers, Goto
  <2> QED
    BY <1>1, <1>4, <2>1, AtWork, WorkerMoves
<1>5. CASE WorkerDelivers(n) /\ Expected(n)
  <2>1. /\ holder = w /\ pc[w] = "deliver" /\ w \in Task /\ w # Client
        /\ self' = [self EXCEPT !.phase = "idle", !.id = NoId] /\ UNCHANGED writer
    BY <1>5 DEF WorkerDelivers, Holds, wireVars
  <2>2. /\ self.phase = "transcribing" /\ self.id = sid[n] /\ ~closed /\ self.id \in Ids
        /\ ~Opening
    BY <1>1, <1>5, AtWork
  <2>3. PICK l \in {"delivering", "done"} :
          /\ pc' = [pc EXCEPT ![w] = l]
          /\ \/ /\ CanWrite /\ UNCHANGED closed
                /\ \E kind \in {"finished", "error"} : Tell(self.id, kind)
             \/ ~CanWrite /\ closed'
    BY <1>5, <2>2 DEF WorkerDelivers, Goto
  <2>4. Moves(w, l)
    BY <2>1, <2>3, MovesTo
  <2>5. self.capture = 0 /\ self.timer = 0
    BY <2>2 DEF LInv, Lifecycle, Current, Timers
  <2>6. /\ self'.phase = "idle" /\ self'.id = NoId /\ self'.capture = 0
        /\ self'.worker = self.worker /\ self'.timer = 0
    BY <2>1, <2>5 DEF SelfType
  <2>7. ~Sealing
    BY <2>1, Alone DEF Sealing, Callers, Inside
  <2>8. \A m \in Starts : ~Live(cap[m])
    BY <2>2, <2>7, Silenced DEF RecordType
  <2>9. writer' = "open" /\ ~closed' => \A i \in Ids : told'[i].phase \notin Promise!Active
    <3>1. ASSUME NEW kind \in {"finished", "error"}, Tell(self.id, kind), writer = "open"
          PROVE  \A i \in Ids : told'[i].phase \notin Promise!Active
      <4>1. told' = [told EXCEPT ![self.id] = Hear(@, kind)]
        BY <2>2, <3>1 DEF Tell
      <4>2. told'[self.id].phase = kind /\ \A i \in Ids \ {self.id} : told'[i] = told[i]
        BY <2>2, <4>1 DEF Hear, ToldType
      <4> QED
        BY <2>2, <3>1, <4>2 DEF LInv, Lifecycle, Heard, Promise!Active
    <3> QED
      BY <2>1, <2>3, <3>1
  <2> HIDE DEF w
  <2>10. pc[w] # "opening" /\ l \in {"delivering", "done"} /\ w # Client
         /\ \E m \in Starts : w = Worker(m) /\ Alive(m)
    BY <1>1, <2>1 DEF w
  <2> QED
    BY <1>1, <2>1, <2>2, <2>3, <2>4, <2>6, <2>8, <2>9, <2>10, SessionEnds
    DEF LInv, Lifecycle, Captures
<1> QED
  BY <1>2, <1>3, <1>4, <1>5 DEF WorkerRuns

(***************************************************************************)
(* The capture child, the client's end, and the timers                     *)
(***************************************************************************)

\* What a step of the capture child or of its reader leaves of a capture.
LEMMA CaptureSteps ==
    ASSUME NEW c \in Capture, NEW d,
           \/ CanRead(c) /\ d = Read(c)
           \/ CanExit(c) /\ d = Exited(c)
           \/ CanEnd(c) /\ \E odd \in BOOLEAN : d = Ended(c, odd)
    PROVE  /\ c.proc # "absent" /\ d.proc # "absent" /\ c.flags \subseteq d.flags
           /\ Live(d) => Live(c)
           /\ c.proc = "exited" => d.proc = "exited"
           /\ "eof" \in d.flags => d.proc = "exited" \/ "eof" \in c.flags
<1>1. CASE CanRead(c) /\ d = Read(c)
  BY <1>1, OfflineAssumption DEF CanRead, Read, Capture, Live
<1>2. CASE CanExit(c) /\ d = Exited(c)
  BY <1>2 DEF CanExit, Exited, Capture, Live
<1>3. ASSUME NEW odd \in BOOLEAN, CanEnd(c), d = Ended(c, odd)
      PROVE  d.proc = "exited" /\ c.proc = "exited" /\ c.flags \subseteq d.flags
  <2> DEFINE x == IF Streaming /\ ("stopping" \notin c.flags \/ odd) THEN {"failed"} ELSE {}
             f == c.flags \cup {"available", "eof"} \cup x
  <2>1. d = [c EXCEPT !.flags = f] /\ c.flags \subseteq f
    BY <1>3 DEF Ended
  <2> HIDE DEF f
  <2> QED
    BY <1>3, <2>1 DEF CanEnd, Capture
<1>4. CASE CanEnd(c) /\ \E odd \in BOOLEAN : d = Ended(c, odd)
  BY <1>3, <1>4 DEF Live
<1> QED
  BY <1>1, <1>2, <1>4

LEMMA CaptureLives ==
    ASSUME LInv, NEW n \in Starts, CaptureStep(n)
    PROVE  Lifecycle'
<1> USE TaskFacts, Typed DEF LInv, Lifecycle
<1>1. UNCHANGED <<self, closed, started, sid, pc, cmd, writer, told>>
  BY DEF CaptureStep, lineVars, wireVars
<1>2. PICK d : /\ cap' = [cap EXCEPT ![n] = d]
               /\ \/ CanRead(cap[n]) /\ d = Read(cap[n])
                  \/ CanExit(cap[n]) /\ d = Exited(cap[n])
                  \/ CanEnd(cap[n]) /\ \E odd \in BOOLEAN : d = Ended(cap[n], odd)
  BY DEF CaptureStep, CaptureReads, CaptureExits, CaptureEnds
<1> DEFINE c == cap[n]
<1>3. c \in Capture
  BY DEF CapType
<1>4. /\ c.proc # "absent" /\ d.proc # "absent" /\ c.flags \subseteq d.flags
      /\ Live(d) => Live(c)
      /\ c.proc = "exited" => d.proc = "exited"
      /\ "eof" \in d.flags => d.proc = "exited" \/ "eof" \in c.flags
  BY <1>2, <1>3, CaptureSteps
<1>5. cap'[n] = d /\ \A m \in Starts \ {n} : cap'[m] = cap[m]
  BY <1>2 DEF CapType
<1>6. cap[n] # Fresh
  BY <1>4 DEF Fresh
<1>7. Places' /\ Commanded' /\ Ahead' /\ Current'
  BY <1>1, <1>5, <1>6 DEF Places, Commanded, Ahead, Current, Opening, Engaged
<1>8. Sealing' = Sealing /\ Stopping' = Stopping
  BY <1>1 DEF Sealing, Stopping
<1>9. Captures'
  BY <1>1, <1>4, <1>5, <1>8 DEF Captures
<1>10. Workers' /\ Timers' /\ Shut'
  BY <1>1, <1>8 DEF Workers, Timers, TimerCurrent, Shut, Alive, Engaged, Opening
<1>11. Held' /\ Heard'
  BY <1>1, <1>8 DEF Held, Heard, Engaged
<1> QED
  BY <1>7, <1>9, <1>10, <1>11

LEMMA UnmovedLives ==
    ASSUME LInv, UNCHANGED <<self, closed, started, sid, cap, pc, cmd, writer, told>>
    PROVE  Lifecycle'
BY DEF LInv, Lifecycle, Places, Commanded, Ahead, Current, Captures, Workers, Timers,
       TimerCurrent, Held, Shut, Heard, Alive, Engaged, Opening, Sealing, Stopping

LEMMA TimerLives ==
    ASSUME LInv, NEW n \in Starts, TimerFires(n) \/ TimerDropped(n)
    PROVE  Lifecycle'
<1> USE TaskFacts, Typed
<1>1. SessionStays /\ UNCHANGED cmd
  BY DEF TimerFires, TimerDropped, SessionStays, WriterKept, lineVars, wireVars
<1>2. CASE TimerFires(n)
  <2>1. Moves(Timer(n), "stop") /\ pc[Timer(n)] = "sleep"
    BY <1>2, MovesTo DEF TimerFires, Goto
  <2> QED
    BY <1>1, <2>1, TimerMoves DEF LeavesStop
<1>3. CASE TimerDropped(n)
  <2>1. Moves(Timer(n), "done") /\ pc[Timer(n)] = "cancelled"
    BY <1>3, MovesTo DEF TimerDropped, Holds, Goto
  <2> QED
    BY <1>1, <2>1, TimerMoves DEF LeavesStop
<1> QED
  BY <1>2, <1>3

\* Every step of the connection task, a timer, a capture or the client.
LEMMA BaseLives ==
    ASSUME LInv, BaseStep
    PROVE  Lifecycle'
<1>1. CASE ClientReads
  BY <1>1, ReadsLives
<1>2. CASE ClientRuns
  <2>1. Client \in Callers
    BY DEF Callers
  <2>2. CASE ReadEof \/ BadLineAnswered \/ CloseJoins
    BY <2>2, ReadsLives
  <2>3. CASE ReplySent(Client)
    BY <2>1, <2>3, ReplySentLives
  <2>4. CASE StartClosed \/ CancelClosed
    <3>1. Return(Client) /\ pc[Client] \in {"start", "cancel"}
          /\ UNCHANGED <<closed, started, sid, cap, told>> /\ WriterKept
      BY <2>4 DEF StartClosed, CancelClosed, Holds, WriterKept, wireVars
    <3> QED
      BY <2>1, <3>1, ReturnLives
  <2>5. CASE StartRefused \/ CancelRefused
    <3>1. Reply(Client, cmd.id, "refused", pc) /\ pc[Client] \in {"start", "cancel"}
          /\ UNCHANGED <<self, closed, started, sid, cap, wireVars>>
      BY <2>5 DEF StartRefused, CancelRefused, Holds
    <3> QED
      BY <2>1, <3>1, RefusedLives
  <2>6. CASE StartOpens
    BY <2>6, OpensLives
  <2>7. CASE StartFails
    BY <2>7, OpenFailsLives
  <2>8. CASE \E limited \in BOOLEAN : StartRecords(limited)
    BY <2>8, RecordsLives
  <2>9. CASE CancelBegins \/ CancelsRecognition \/ CancelEnds
    BY <2>9, CancelLives
  <2>10. CASE CloseBegins \/ CloseEnds
    BY <2>10, CloseLives
  <2> QED
    BY <1>2, <2>2, <2>3, <2>4, <2>5, <2>6, <2>7, <2>8, <2>9, <2>10 DEF ClientRuns
<1>3. CASE PeerLeaves
  BY <1>3, UnmovedLives DEF PeerLeaves, lineVars
<1>4. ASSUME NEW n \in Starts, TimerRuns(n) \/ CaptureStep(n)
      PROVE  Lifecycle'
  <2>1. Timer(n) \in Callers
    BY DEF Callers
  <2> QED
    BY <1>4, <2>1, TimerLives, ReplySentLives, CaptureLives DEF TimerRuns
<1> QED
  BY <1>1, <1>2, <1>3, <1>4 DEF BaseStep

LEMMA DeclinedLives ==
    ASSUME LInv, NEW t \in Callers, StopIgnored(t) \/ StopRefused(t)
    PROVE  Lifecycle'
<1>1. pc[t] = "stop" /\ UNCHANGED <<closed, started, sid, cap, wireVars>>
  BY DEF StopIgnored, StopRefused, Holds
<1>2. CASE StopIgnored(t)
  BY <1>1, <1>2, ReturnLives DEF StopIgnored, WriterKept, wireVars
<1>3. CASE StopRefused(t)
  BY <1>1, <1>3, RefusedLives DEF StopRefused
<1> QED
  BY <1>2, <1>3

(***************************************************************************)
(* The inductive invariant                                                 *)
(***************************************************************************)

LEMMA InitLives ==
    ASSUME Init
    PROVE  LInv
<1> USE TaskFacts, SessionAssumption DEF Init
<1>0. Sane
  BY InitSane
<1>1. /\ pc[Client] = "read" /\ \A n \in Starts : pc[Timer(n)] = "none" /\ pc[Worker(n)] = "none"
      /\ \A n \in Starts : cap[n] = Fresh
      /\ \A i \in Ids : told[i].phase = "none"
      /\ self.phase = "idle" /\ self.capture = 0 /\ self.id = NoId /\ self.worker = 0
      /\ self.timer = 0 /\ started = 0 /\ ~closed /\ cmd = NoCommand
  OBVIOUS
<1>2. Fresh.proc = "absent" /\ Fresh.flags = {}
  BY DEF Fresh
<1> USE <1>1, <1>2
<1> HIDE DEF Init
<1>3. \A t \in Callers : pc[t] \in {"read", "none"}
  BY DEF Callers
<1>4. Places /\ Commanded /\ Ahead /\ Current
  BY DEF Places, ClientPlaces, TimerPlaces, WorkerPlaces, Commanded, Ahead, Current, Opening,
         Engaged, NoCommand, Kinds, Starts
<1>5. Captures /\ Workers
  BY <1>3 DEF Captures, Workers, Alive, Engaged, Live, Starts, Stopping, Sealing
<1>6. Timers /\ Held /\ Shut
  BY <1>3 DEF Timers, TimerCurrent, Held, Shut, Alive, Engaged, Stopping
<1>7. Heard
  BY DEF Heard, Engaged, Promise!Active
<1> QED
  BY <1>0, <1>4, <1>5, <1>6, <1>7 DEF LInv, Lifecycle

LEMMA NextLives ==
    ASSUME LInv, [Next]_baseVars
    PROVE  LInv'
<1>0. Sane'
  BY NextSane DEF LInv
<1>1. CASE BaseStep
  BY <1>0, <1>1, BaseLives DEF LInv
<1>2. ASSUME NEW t \in Callers, Stop(t)
      PROVE  LInv'
  BY <1>0, <1>2, DeclinedLives, TakesLives, SealedLives, AnnouncedLives, BreaksLives
  DEF Stop, LInv
<1>3. ASSUME NEW n \in Starts, WorkerRuns(n)
      PROVE  LInv'
  BY <1>0, <1>3, WorkerLives DEF LInv
<1>4. CASE UNCHANGED baseVars
  BY <1>0, <1>4, UnmovedLives DEF baseVars, LInv
<1> QED
  BY <1>1, <1>2, <1>3, <1>4 DEF Next, Callers

\* Sane and Lifecycle hold of every state of a connection.
THEOREM Lives == Spec => []LInv
<1>1. Init => LInv
  BY InitLives
<1>2. LInv /\ [Next]_baseVars => LInv'
  BY NextLives
<1> QED
  BY <1>1, <1>2, PTL DEF Spec

\* Nothing of a recording acts on the one that follows it or on a closed
\* connection: a microphone that runs is the session's or that of the stop()
\* that took it, and a session that waits for its text has the worker that
\* delivers it, or a stop() about to create it.
THEOREM OfflineApart == Spec => []RecordingsApart
<1>1. ASSUME LInv
      PROVE  RecordingsApart
  <2> USE <1>1, TaskFacts, Typed DEF LInv, Lifecycle
  <2>1. \A t \in Callers : t \in Task
    BY DEF Callers
  <2>2. LockExclusive /\ TimerCurrent
    BY DEF Sane, Timers
  <2>3. \A t \in Callers : pc[t] \in {"stopping", "announce"} => holder = t /\ holder # NoTask
    BY <2>1, <2>2, InsideHolds DEF Inside
  <2>4. MicrophoneOwned
    <3>1. ASSUME NEW n \in Starts, Live(cap[n])
          PROVE  /\ self.phase # "idle"
                 /\ \/ self.capture = n
                    \/ n = started /\ holder # NoTask /\ pc[holder] = "stopping"
      <4>1. n = started /\ (self.phase = "recording" \/ Sealing)
        BY <3>1 DEF Captures
      <4>2. CASE self.phase = "recording"
        BY <4>1, <4>2 DEF Current
      <4>3. CASE Sealing
        BY <2>3, <4>1, <4>3 DEF Sealing, Stopping, Held
      <4> QED
        BY <4>1, <4>2, <4>3
    <3> QED
      BY <3>1 DEF MicrophoneOwned
  <2>5. OneWorker
    BY DEF Workers, OneWorker, Alive
  <2>6. RecognitionPending
    <3>1. ASSUME self.phase = "transcribing", Alive(started)
          PROVE  WorkerLive /\ sid[self.worker] = self.id
      <4>1. started \in Starts /\ self.id = sid[started]
        BY <3>1, InUse DEF Engaged
      <4> QED
        BY <3>1, <4>1 DEF Workers, WorkerLive, Alive, Starts
    <3> QED
      BY <2>3, <3>1 DEF RecognitionPending, Workers, Stopping
  <2>7. ReleasedWhenClosed
    <3>1. pc[Client] = "closed" => \A n \in Starts : ~Live(cap[n])
      <4>1. pc[Client] = "closed" => ~Stopping /\ self.phase = "idle"
        BY DEF Shut, Held, Engaged
      <4> QED
        BY <4>1 DEF Captures, Sealing, Stopping
    <3> QED
      BY <3>1 DEF ReleasedWhenClosed, Shut, Alive
  <2> QED
    BY <2>2, <2>4, <2>5, <2>6, <2>7 DEF RecordingsApart
<1> QED
  BY <1>1, Lives, PTL

(***************************************************************************)
(* Whoever ends a recording                                                *)
(***************************************************************************)

LEMMA StopLeaves ==
    ASSUME Sane, Leaving, NEW t \in Callers, Stop(t)
    PROVE  Leaving'
<1> USE TaskFacts
<1>1. PcType /\ SelfType /\ WireType /\ pc \in [Task -> Labels] /\ t \in Task
  BY TypeParts DEF Sane, PcType, Callers
<1>2. CASE StopIgnored(t)
  <2>1. Return(t) /\ WireFalls
    BY <1>2 DEF StopIgnored, WireFalls, wireVars
  <2> QED
    BY <1>1, <2>1, ReturnLeaves
<1>3. CASE StopRefused(t) \/ StopBreaks(t)
  <2>1. PICK i, kind : Reply(t, i, kind, pc) /\ UNCHANGED wireVars
    BY <1>3 DEF StopRefused, StopBreaks
  <2> QED
    BY <1>1, <2>1, ReplyLeaves
<1>4. CASE StopTakes(t)
  <2>1. UNCHANGED cmd /\ WireFalls
    BY <1>4 DEF StopTakes, WireFalls, lineVars, wireVars
  <2>2. pc'[Client] = IF t = Client THEN "stopping" ELSE pc[Client]
    BY <1>1, <1>4, ClearedFacts DEF StopTakes
  <2> QED
    BY <2>1, <2>2, Remains, GoesOn
<1>5. CASE StopSealed(t)
  <2>1. WireFalls /\ (~CanWrite => writer' = "closing")
    BY <1>1, <1>5 DEF StopSealed, WireFalls, CanWrite, WireType, wireVars
  <2>2. CASE CanWrite
    <3>1. UNCHANGED cmd /\ pc'[Client] = IF t = Client THEN "announce" ELSE pc[Client]
      BY <1>1, <1>5, <2>2 DEF StopSealed, Goto
    <3> QED
      BY <2>1, <3>1, Remains, GoesOn
  <2> QED
    BY <1>1, <1>5, <2>1, <2>2, RaiseLeaves DEF StopSealed
<1>6. CASE StopAnnounced(t)
  <2>1. CASE Drained /\ Forget(t) /\ \E m \in Starts \cup {0} :
               pc' = [pc EXCEPT ![t] = IF t = Client THEN "read" ELSE "done",
                                ![Worker(m)] = "recognize"]
    <3>1. WireFalls
      BY <2>1 DEF Drained, WireFalls, wireVars
    <3>2. IF t = Client THEN pc'[Client] = "read" ELSE pc'[Client] = pc[Client] /\ UNCHANGED cmd
      BY <1>1, <2>1 DEF Forget
    <3> QED
      BY <3>1, <3>2, Remains, GoesOn
  <2>2. CASE DrainFails /\ Raise(t, pc)
    <3>1. WireFalls /\ writer' = "closing"
      BY <2>2 DEF DrainFails, WireFalls
    <3> QED
      BY <1>1, <2>2, <3>1, RaiseLeaves
  <2>3. started \in Starts \cup {0}
    BY TypeParts, SessionAssumption DEF Sane, RecordType, Starts
  <2> QED
    BY <1>6, <2>1, <2>2, <2>3 DEF StopAnnounced
<1> QED
  BY <1>2, <1>3, <1>4, <1>5, <1>6 DEF Stop

LEMMA WorkerLeaves ==
    ASSUME Sane, Leaving, NEW n \in Starts, WorkerRuns(n)
    PROVE  Leaving'
<1>1. pc \in [Task -> Labels]
  BY TypeParts DEF Sane, PcType
<1>2. pc'[Client] = pc[Client] /\ UNCHANGED cmd /\ WireFalls
  BY <1>1, TaskFacts
  DEF WorkerRuns, WorkerRecognizes, WorkerDelivers, WorkerDelivered, Goto, Drained, DrainFails,
      WireFalls, lineVars, wireVars
<1> QED
  BY <1>2, Remains

\* The connection task leaves a client that can be reached only for a line
\* that is too long.
THEOREM Leaves == Spec => []Leaving
<1>1. Init => Leaving
  BY InitLeaves
<1>2. LInv /\ Leaving /\ [Next]_baseVars => Leaving'
  <2> SUFFICES ASSUME LInv, Leaving, [Next]_baseVars
               PROVE  Leaving'
    OBVIOUS
  <2>1. CASE UNCHANGED baseVars
    BY <2>1 DEF baseVars, Leaving
  <2> QED
    BY <2>1, BaseLeaves, StopLeaves, WorkerLeaves DEF Next, Callers, LInv
<1> QED
  BY <1>1, <1>2, Lives, PTL DEF Spec

LEMMA OwnEnds ==
    ASSUME LInv, Leaving, [Next]_baseVars, RecordingEnds
    PROVE  OnItsBehalf \/ ConnectionLost \/ (holder = Client /\ cmd = TooLong)
<1> USE TaskFacts, Typed
<1>0. /\ Engaged /\ started \in Starts /\ self.capture = started /\ self.id \in Ids
      /\ LockExclusive /\ ~Opening
      /\ self.phase = "recording" /\ self'.phase # "recording"
  BY InUse DEF Engaged, LInv, Sane, Lifecycle, Current, RecordingEnds
<1>1. CASE BaseStep
  <2>1. \A t \in Callers : Return(t) => self'.phase = self.phase
    BY DEF Return, SelfType
  <2>2. CASE ClientReads \/ ReadEof \/ BadLineAnswered \/ CloseJoins \/ PeerLeaves
    BY <1>0, <2>2
    DEF ClientReads, ReadCommand, ReadBadLine, ReadEof, BadLineAnswered, CloseJoins, PeerLeaves
  <2>3. CASE ReplySent(Client) \/ \E n \in Starts : TimerRuns(n) \/ CaptureStep(n)
    BY <1>0, <2>1, <2>3 DEF ReplySent, TimerRuns, TimerFires, TimerDropped, CaptureStep, Callers
  <2>4. CASE StartClosed \/ CancelClosed \/ StartRefused \/ CancelRefused
    BY <1>0, <2>1, <2>4 DEF StartClosed, CancelClosed, StartRefused, CancelRefused, Callers
  <2>5. CASE StartOpens \/ StartFails \/ \E limited \in BOOLEAN : StartRecords(limited)
    BY <1>0, <2>5 DEF StartOpens, StartFails, StartRecords, MustWait, Engaged, Opening
  <2>6. CASE CancelsRecognition
    BY <1>0, <2>6 DEF CancelsRecognition, Starts
  <2>7. CASE CancelBegins \/ CancelEnds
    <3>1. holder = Client
      BY <1>0, <2>7 DEF CancelBegins, CancelEnds, Cancels, Holds, LockExclusive, Inside
    <3>2. cmd.kind \in Kinds /\ cmd.id = self.id
      BY <2>7 DEF CancelBegins, CancelEnds, Cancels, Holds, LInv, Lifecycle, Commanded, Kinds
    <3> QED
      BY <3>1, <3>2 DEF OnItsBehalf
  <2>8. CASE CloseBegins \/ CloseEnds
    <3>1. holder = Client /\ pc[Client] \in {"close", "closing"}
      BY <1>0, <2>8 DEF CloseBegins, CloseEnds, Holds, LockExclusive, Inside
    <3> QED
      BY <3>1 DEF Leaving, ConnectionLost
  <2> QED
    BY <1>1, <2>2, <2>3, <2>4, <2>5, <2>6, <2>7, <2>8 DEF BaseStep, ClientRuns
<1>2. ASSUME NEW t \in Callers, Stop(t)
      PROVE  OnItsBehalf
  <2>1. pc[t] \notin {"stopping", "announce"}
    BY <1>0 DEF LInv, Lifecycle, Held, Stopping
  <2>2. ~StopIgnored(t) /\ ~StopRefused(t)
    BY <1>0 DEF StopIgnored, StopRefused, Return, SelfType
  <2>3. StopTakes(t)
    BY <1>2, <2>1, <2>2 DEF Stop, StopSealed, StopAnnounced, StopBreaks
  <2>4. holder = t /\ pc[t] = "stop" /\ StopId(t) = self.id
    BY <2>3 DEF StopTakes, Holds
  <2>5. ASSUME NEW n \in Starts, t = Timer(n)
        PROVE  holder = Timer(self.capture)
    BY <2>4, <2>5 DEF LInv, Lifecycle, Timers, TimerCurrent
  <2>6. t = Client => cmd.kind \in Kinds
    BY <2>4 DEF LInv, Lifecycle, Commanded, Kinds
  <2> QED
    BY <2>4, <2>5, <2>6 DEF Callers, StopId, OnItsBehalf
<1>3. ASSUME NEW n \in Starts
      PROVE  ~WorkerRuns(n)
  <2>1. ~Alive(n)
    BY <1>0, AtWork
  <2> QED
    BY <2>1 DEF WorkerRuns, WorkerRecognizes, WorkerDelivers, WorkerDelivered, Holds, Alive
<1>4. CASE UNCHANGED baseVars
  BY <1>0, <1>4 DEF baseVars
<1> QED
  BY <1>1, <1>2, <1>3, <1>4 DEF Next, Callers

\* A recording is ended by a command with its id, by its own timer, by the
\* loss of the client, or by a line that is too long, however late a timer or
\* a worker of an earlier recording gets the lock.
THEOREM OfflineOwnEnds == Spec => EndedByItsOwn
<1>1. LInv /\ Leaving /\ [Next]_baseVars =>
        [RecordingEnds => OnItsBehalf \/ ConnectionLost \/ (holder = Client /\ cmd = TooLong)]_baseVars
  BY OwnEnds
<1> QED
  BY <1>1, Lives, Leaves, PTL DEF Spec, EndedByItsOwn

(***************************************************************************)
(* The events of each id, in the promised order                            *)
(***************************************************************************)

\* While the client can be told, an idle session has told it so, and one
\* in use has an id that hears events.
LEMMA Audible ==
    ASSUME LInv, Named, writer = "open", ~closed
    PROVE  /\ ~Engaged => \A i \in Ids : told[i].phase \in Promise!Over
           /\ Engaged => told[self.id].phase \in Promise!Active
<1> USE Typed DEF LInv, Lifecycle, Heard, Promise!Active, Promise!Over
<1>1. ASSUME ~Engaged, NEW i \in Ids
      PROVE  told[i].phase \in Promise!Over
  <2>1. told[i].phase \in Phases \cup {"none", "finished", "cancelled", "error"}
    BY DEF ToldType
  <2> QED
    BY <1>1, <2>1 DEF Named, Phases
<1>2. ASSUME Engaged
      PROVE  told[self.id].phase \in Promise!Active
  <2>1. self.phase \in {"recording", "transcribing"}
    BY <1>2 DEF Engaged, SelfType, Phases
  <2> QED
    BY <2>1
<1> QED
  BY <1>1, <1>2

\* The last event of a call that begins, cancels or fails a recording.
LEMMA LastWords ==
    ASSUME LInv, Named, NEW t \in Task, holder = t, NEW kind, NEW p,
           Reply(t, self.id, kind, p), UNCHANGED closed,
           \/ kind \in {"error", "recording"} /\ Opening
           \/ kind \in {"error", "cancelled"} /\ Engaged /\ ~closed
    PROVE  Promised
<1> USE TaskFacts, Typed
<1>1. CASE ~CanWrite
  BY <1>1 DEF Reply, Promised, Quiet
<1>2. CASE CanWrite
  <2>1. self.id \in Ids /\ told' = [told EXCEPT ![self.id] = Hear(@, kind)] /\ writer = "open"
    BY <1>2, InUse DEF Reply, Tell, CanWrite
  <2>2. ~closed /\ (Opening => ~Engaged)
    BY DEF LInv, Lifecycle, Current
  <2>3. Promise!Begin(self.id) \/ Promise!Fail(self.id) \/ Promise!Cancel(self.id)
    BY <2>1, <2>2, Audible DEF Promise!Begin, Promise!Fail, Promise!Cancel, Hear
  <2> QED
    BY <2>1, <2>2, <2>3 DEF Promised, Promise!Speak
<1> QED
  BY <1>1, <1>2

LEMMA BasePromised ==
    ASSUME LInv, Named, BaseStep
    PROVE  Promised
<1> USE TaskFacts, Typed
<1>1. CASE ClientReads \/ ReadEof \/ BadLineAnswered \/ CloseJoins \/ PeerLeaves
  BY <1>1
  DEF ClientReads, ReadCommand, ReadBadLine, ReadEof, BadLineAnswered, CloseJoins, PeerLeaves,
      Promised, Quiet
<1>2. CASE ReplySent(Client) \/ \E n \in Starts : TimerRuns(n) \/ CaptureStep(n)
  BY <1>2 DEF ReplySent, TimerRuns, TimerFires, TimerDropped, CaptureStep, Promised, Quiet
<1>3. CASE StartClosed \/ CancelClosed
  BY <1>3 DEF StartClosed, CancelClosed, Promised, Quiet
<1>4. CASE StartRefused \/ CancelRefused
  <2>1. /\ Client \in Callers /\ pc[Client] \in {"start", "stop", "cancel"}
        /\ Reply(Client, cmd.id, "refused", pc)
        /\ UNCHANGED <<self, closed, started, sid, cap, wireVars>>
    BY <1>4 DEF StartRefused, CancelRefused, Holds, Callers
  <2>2. UNCHANGED told
    BY <2>1, RefusedLives
  <2> QED
    BY <2>1, <2>2 DEF Promised, Quiet
<1>5. CASE StartOpens \/ CancelBegins \/ CloseBegins \/ CloseEnds
  BY <1>5 DEF StartOpens, CancelBegins, CloseBegins, CloseEnds, Promised, Quiet
<1>6. CASE StartFails \/ \E limited \in BOOLEAN : StartRecords(limited)
  <2>1. Opening /\ holder = Client /\ cmd.id = self.id
    BY <1>6, InsideHolds
    DEF StartFails, StartRecords, Opening, Inside, LInv, Sane, Lifecycle, Commanded
  <2>2. PICK kind, p : /\ kind \in {"error", "recording"}
                      /\ Reply(Client, self.id, kind, p) /\ UNCHANGED closed
    BY <1>6, <2>1 DEF StartFails, StartRecords
  <2> QED
    BY <2>1, <2>2, LastWords
<1>7. CASE CancelEnds \/ CancelsRecognition
  <2>1. holder = Client /\ Engaged /\ cmd.id = self.id /\ ~closed
    BY <1>7, InsideHolds
    DEF CancelEnds, CancelsRecognition, Cancels, Holds, Inside, Engaged, LInv, Sane, Lifecycle,
        Commanded, Held, Current
  <2>2. PICK p : Reply(Client, self.id, "cancelled", p) /\ UNCHANGED closed
    BY <1>7, <2>1 DEF CancelEnds, CancelsRecognition
  <2> QED
    BY <2>1, <2>2, LastWords
<1> QED
  BY <1>1, <1>2, <1>3, <1>4, <1>5, <1>6, <1>7 DEF BaseStep, ClientRuns

LEMMA StopPromised ==
    ASSUME LInv, Named, NEW t \in Callers, Stop(t)
    PROVE  Promised
<1> USE TaskFacts, Typed
<1>1. CASE StopIgnored(t) \/ StopTakes(t) \/ StopAnnounced(t)
  BY <1>1 DEF StopIgnored, StopTakes, StopAnnounced, Promised, Quiet
<1>2. CASE StopRefused(t)
  <2>1. /\ pc[t] = "stop" /\ Reply(t, StopId(t), "refused", pc)
        /\ UNCHANGED <<self, closed, started, sid, cap, wireVars>>
    BY <1>2 DEF StopRefused, Holds
  <2>2. UNCHANGED told
    BY <2>1, RefusedLives
  <2> QED
    BY <2>1, <2>2 DEF Promised, Quiet
<1>3. CASE StopSealed(t)
  <2>1. /\ pc[t] = "stopping" /\ self.phase = "transcribing" /\ ~closed
        /\ self.id \in Ids /\ UNCHANGED closed
    BY <1>3, StopWaited DEF StopSealed, Recording
  <2>2. CASE ~CanWrite
    BY <1>3, <2>1, <2>2 DEF StopSealed, Promised, Quiet
  <2>3. CASE CanWrite
    <3>1. told' = [told EXCEPT ![self.id] = Hear(@, "transcribing")]
      BY <1>3, <2>1, <2>3 DEF StopSealed, Tell
    <3>2. told[self.id].phase = "recording"
      BY <2>1, <2>3 DEF LInv, Lifecycle, Heard, Sealing, CanWrite
    <3>3. Promise!Transcribe(self.id)
      BY <3>1, <3>2 DEF Promise!Transcribe, Hear
    <3> QED
      BY <2>1, <3>1, <3>3 DEF Promised, Promise!Speak
  <2> QED
    BY <2>2, <2>3
<1>4. CASE StopBreaks(t)
  <2>1. t \in Task /\ holder = t /\ Engaged /\ ~closed
    BY <1>4, StopWaited DEF StopBreaks, Recording
  <2>2. Reply(t, self.id, "error", pc) /\ UNCHANGED closed
    BY <1>4 DEF StopBreaks
  <2> QED
    BY <2>1, <2>2, LastWords
<1> QED
  BY <1>1, <1>2, <1>3, <1>4 DEF Stop

LEMMA WorkerPromised ==
    ASSUME LInv, Named, NEW n \in Starts, WorkerRuns(n)
    PROVE  Promised
<1> USE TaskFacts, Typed
<1>1. CASE WorkerRecognizes(n) \/ WorkerDelivered(n)
  BY <1>1 DEF WorkerRecognizes, WorkerDelivered, Promised, Quiet
<1>2. CASE WorkerDelivers(n)
  <2>1. CASE ~(Expected(n) /\ CanWrite)
    BY <1>2, <2>1 DEF WorkerDelivers, Promised, Quiet
  <2>2. CASE Expected(n) /\ CanWrite
    <3>1. Alive(n) /\ holder = Worker(n)
      BY <1>2 DEF WorkerDelivers, Holds, Alive
    <3>2. /\ self.phase = "transcribing" /\ Engaged /\ ~closed
          /\ self.id = sid[n] /\ self.id \in Ids
      BY <2>2, <3>1, AtWork DEF Engaged
    <3>3. PICK kind \in {"finished", "error"} : told' = [told EXCEPT ![self.id] = Hear(@, kind)]
      BY <1>2, <2>2, <3>2 DEF WorkerDelivers, Tell
    <3>4. told[self.id].phase = "transcribing"
      <4>1. \A t \in Callers : t \in Task \ {Worker(n)}
        BY DEF Callers
      <4>2. ~Sealing
        BY <3>1, <4>1, Alone DEF Sealing, Inside
      <4> QED
        BY <2>2, <3>2, <4>2 DEF LInv, Lifecycle, Heard, CanWrite
    <3>5. Promise!Finish(self.id) \/ Promise!Fail(self.id)
      BY <3>3, <3>4 DEF Promise!Finish, Promise!Fail, Promise!Active, Hear
    <3>6. UNCHANGED closed
      BY <1>2, <2>2 DEF WorkerDelivers
    <3> QED
      BY <3>2, <3>5, <3>6 DEF Promised, Promise!Speak
  <2> QED
    BY <2>1, <2>2
<1> QED
  BY <1>1, <1>2 DEF WorkerRuns

LEMMA NextPromised ==
    ASSUME LInv, Named, [Next]_baseVars
    PROVE  [Promise!Next]_(Promise!vars) /\ Named'
<1> USE Typed
<1>1. Promised
  <2>1. CASE UNCHANGED baseVars
    BY <2>1 DEF baseVars, Promised, Quiet
  <2> QED
    BY <2>1, BasePromised, StopPromised, WorkerPromised DEF Next, Callers
<1>2. closed' \in BOOLEAN
  BY NextSane DEF LInv, Sane, BaseTypeOK
<1>3. [Promise!Next]_(Promise!vars)
  BY <1>1, <1>2 DEF Promised, Quiet, Promise!Next, Promise!HangUp, Promise!vars
<1>4. ASSUME NEW i \in Ids, Promise!Speak(i)
      PROVE  Named'
  BY <1>4 DEF Promise!Speak, Promise!Begin, Promise!Partial, Promise!Final, Promise!Transcribe,
              Promise!Finish, Promise!Cancel, Promise!Fail, Named, ToldType
<1>5. Named'
  BY <1>1, <1>4 DEF Promised, Quiet, Named
<1> QED
  BY <1>3, <1>5

\* Each id hears its events in the order Dictation promises: one recording at
\* a time, the result only after `transcribing', a cancel or an error at most
\* once in its place, and nothing once the session is closed.
THEOREM OfflinePromise == Spec => KeepsPromise
<1>1. Init => LInv /\ Named /\ Promise!Init
  <2>1. Init => Named /\ Promise!Init
    BY DEF Init, Named, Promise!Init, Promise!Silence
  <2> QED
    BY <2>1, InitLives
<1>2. LInv /\ Named /\ [Next]_baseVars => LInv' /\ Named' /\ [Promise!Next]_(Promise!vars)
  BY NextLives, NextPromised
<1> QED
  BY <1>1, <1>2, PTL DEF Spec, KeepsPromise, Promise!Safe

\* Both, for every connection: the events of each id keep their order, and a
\* recording is never ended on behalf of another.
THEOREM OfflineEvents == Spec => EndsAsPromised
BY OfflinePromise, OfflineOwnEnds DEF EndsAsPromised
=============================================================================
