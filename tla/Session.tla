------------------------------ MODULE Session ------------------------------
(***************************************************************************)
(* The part of a voice session that both recognition modes share           *)
(* (session.py), together with the connection task of the server that      *)
(* calls it (server.py, _client) and the capture it owns.                  *)
(*                                                                         *)
(* A session is driven by asyncio tasks of one event loop: the connection  *)
(* task, one duration-limit timer per bounded recording and one worker per *)
(* recording.  A task runs without interruption from one suspension to the *)
(* next, so an action is the code between two suspensions and pc names the *)
(* suspension where each task waits.  asyncio.Lock is first-in first-out   *)
(* and passes straight to the first waiter.                                *)
(*                                                                         *)
(* StreamingSession and OfflineSession add stop() and the worker.          *)
(***************************************************************************)
EXTENDS Capture, Sequences

CONSTANTS
    Ids,          \* session identifiers a client may use
    NoId,         \* None
    MaxStarts,    \* bound: recordings opened on the connection
    MaxCommands,  \* bound: lines the client sends
    MaxChunks     \* bound: chunks the microphone delivers per recording

ASSUME SessionAssumption ==
    /\ NoId \notin Ids
    /\ MaxStarts \in Nat \ {0}
    /\ MaxCommands \in Nat
    /\ MaxChunks \in Nat

VARIABLES
    self,      \* the Session object's attributes, but for closed
    closed,    \* self.closed
    started,   \* number of recordings opened so far
    sid,       \* sid[n]: the id recording n was opened for
    cap,       \* cap[n]: the capture object of recording n
    pc,        \* where each task is suspended
    holder,    \* the task holding self.lock
    waiters,   \* the tasks waiting for it, in order
    cmd,       \* the command the connection task is executing, or why it ends
    commands,  \* lines read so far
    peer,      \* the client's end of the socket: "here" or "gone"
    writer,    \* the transport: "open" or "closing"
    told       \* history: the events written, as a client reads them

lockVars == <<holder, waiters>>
lineVars == <<cmd, commands>>
wireVars == <<peer, writer>>
baseVars == <<self, closed, started, sid, cap, pc, holder, waiters, cmd, commands,
              peer, writer, told>>

Starts == 1 .. MaxStarts
Client == <<"client", 0>>
Timer(n) == <<"timer", n>>
Worker(n) == <<"worker", n>>
Task == {Client} \cup {Timer(n) : n \in Starts} \cup {Worker(n) : n \in Starts}
NoTask == <<"none", 0>>
Kinds == {"start", "stop", "cancel"}
NoCommand == [kind |-> "none", id |-> NoId]
TooLong == [kind |-> "too long", id |-> NoId]  \* the line that ended the loop of _client
Phases == {"idle", "recording", "transcribing"}

Init ==
    /\ self = [phase |-> "idle", id |-> NoId, capture |-> 0, worker |-> 0, timer |-> 0]
    /\ closed = FALSE
    /\ started = 0
    /\ sid = [n \in Starts |-> NoId]
    /\ cap = [n \in Starts |-> Fresh]
    /\ pc = [t \in Task |-> IF t = Client THEN "read" ELSE "none"]
    /\ holder = NoTask /\ waiters = <<>>
    /\ cmd = NoCommand /\ commands = 0
    /\ peer = "here" /\ writer = "open"
    /\ told = [i \in Ids |->
                 [phase |-> "none", segment |-> 0, seq |-> 0]]

-----------------------------------------------------------------------------
(* asyncio.Lock                                                            *)

\* Slip: go on without the lock
AcquireAtOnce(t) == holder' = t /\ UNCHANGED waiters

Acquire(t) ==
    IF holder = NoTask THEN holder' = t /\ UNCHANGED waiters
    ELSE waiters' = Append(waiters, t) /\ UNCHANGED holder

Release ==
    IF waiters = <<>> THEN holder' = NoTask /\ UNCHANGED waiters
    ELSE holder' = Head(waiters) /\ waiters' = Tail(waiters)

\* leave one `async with' block and wait for the next one
Reacquire(t) ==
    IF waiters = <<>> THEN UNCHANGED lockVars
    ELSE holder' = Head(waiters) /\ waiters' = Append(Tail(waiters), t)

Goto(t, l) == pc' = [pc EXCEPT ![t] = l]

\* t resumes at label l, which it reaches with the lock
Holds(t, l) == pc[t] = l /\ holder = t

-----------------------------------------------------------------------------
(* Writing an event.  emit() raises at once on a closing transport, and    *)
(* otherwise writes the line and waits for drain().                        *)

CanWrite == writer = "open"

\* h after an event that is not text; "refused" is an error event that
\* answers a command the session does not accept and that changes nothing.
Hear(h, kind) ==
    CASE kind = "recording" ->
           [phase |-> kind, segment |-> 1, seq |-> 0]
      [] kind = "refused" -> h
      [] OTHER -> [h EXCEPT !.phase = kind]

Tell(i, kind) ==
    told' = IF i \in Ids THEN [told EXCEPT ![i] = Hear(@, kind)] ELSE told

\* drain() returns
Drained == peer # "gone" /\ UNCHANGED wireVars

\* drain() reports a lost connection, or times out because the client does
\* not read; emit then closes the writer.
DrainFails == writer' = "closing" /\ UNCHANGED peer

-----------------------------------------------------------------------------
(* Tasks                                                                   *)

WorkerLive == self.worker # 0 /\ pc[Worker(self.worker)] # "done"

\* Slip: the timer is forgotten and not cancelled
NotCleared(t) == pc

\* _clear_timer: the running timer is cancelled, unless it is the caller.
\* A timer asleep ends; one waiting for the lock ends when its turn comes.
Cleared(t) ==
    LET m == Timer(self.timer)
    IN  IF self.timer = 0 \/ m = t THEN pc
        ELSE [pc EXCEPT ![m] = CASE @ = "sleep" -> "done"
                                 [] @ = "stop" -> "cancelled"
                                 [] OTHER -> @]

Idle == [self EXCEPT !.phase = "idle", !.id = NoId, !.capture = 0]

\* StreamingSession.start after super().start() returned
Spawns ==
    /\ Streaming
    /\ cmd.kind = "start" /\ cmd.id = self.id
    /\ ~closed /\ self.phase = "recording"
    /\ ~WorkerLive

Forget(t) == cmd' = IF t = Client THEN NoCommand ELSE cmd

\* A session method returns to its caller and releases the lock.
Return(t) ==
    /\ Release /\ Forget(t)
    /\ IF t = Client /\ Spawns
       THEN /\ self' = [self EXCEPT !.worker = self.capture]
            /\ pc' = [pc EXCEPT ![t] = "read",
                                ![Worker(self.capture)] = "create"]
       ELSE /\ UNCHANGED self
            /\ Goto(t, IF t = Client THEN "read" ELSE "done")

\* A session method raises: _client goes on to close(), a timer task ends.
Raise(t, p) ==
    /\ Forget(t)
    /\ IF t = Client THEN Reacquire(t) /\ pc' = [p EXCEPT ![t] = "close"]
       ELSE Release /\ pc' = [p EXCEPT ![t] = "done"]

\* The last event of a method of t, with pc = p before it is written.
Reply(t, i, kind, p) ==
    IF CanWrite
    THEN Tell(i, kind) /\ pc' = [p EXCEPT ![t] = "reply"]
         /\ UNCHANGED <<lockVars, cmd>>
    ELSE Raise(t, p) /\ UNCHANGED told

ReplySent(t) ==
    /\ pc[t] = "reply"
    /\ \/ Drained /\ Return(t)
       \/ DrainFails /\ Raise(t, pc) /\ UNCHANGED self
    /\ UNCHANGED <<closed, started, sid, cap, commands, told>>

-----------------------------------------------------------------------------
(* The connection task: server.py, _client, after the ready event.         *)

ReadCommand(kind, i) ==
    /\ pc[Client] = "read"
    /\ commands < MaxCommands
    /\ kind = "start" => started < MaxStarts
    /\ commands' = commands + 1
    /\ cmd' = [kind |-> kind, id |-> i]
    /\ Acquire(Client) /\ Goto(Client, kind)
    /\ UNCHANGED <<self, closed, started, sid, cap, wireVars, told>>

\* A line that is not a command is answered without touching the session;
\* one that is too long or cut short also ends the connection.
ReadBadLine ==
    /\ pc[Client] = "read"
    /\ commands < MaxCommands
    /\ commands' = commands + 1
    /\ \/ CanWrite /\ Goto(Client, "badline") /\ UNCHANGED <<lockVars, cmd>>
       \/ CanWrite /\ Goto(Client, "overlong") /\ cmd' = TooLong /\ UNCHANGED lockVars
       \/ ~CanWrite /\ Acquire(Client) /\ Goto(Client, "close") /\ UNCHANGED cmd
    /\ UNCHANGED <<self, closed, started, sid, cap, wireVars, told>>

BadLineAnswered ==
    /\ pc[Client] \in {"badline", "overlong"}
    /\ \/ /\ pc[Client] = "badline" /\ Drained
          /\ Goto(Client, "read") /\ UNCHANGED lockVars
       \/ /\ (pc[Client] = "overlong" /\ Drained) \/ DrainFails
          /\ Acquire(Client) /\ Goto(Client, "close")
    /\ UNCHANGED <<self, closed, started, sid, cap, lineVars, told>>

\* A writer that is closing delivers EOF once its buffer is flushed, which
\* waits for the client to read or to go.
ReadEof ==
    /\ pc[Client] = "read"
    /\ peer = "gone" \/ writer = "closing"
    /\ Acquire(Client) /\ Goto(Client, "close")
    /\ UNCHANGED <<self, closed, started, sid, cap, lineVars, wireVars, told>>

-----------------------------------------------------------------------------
(* Session.start                                                           *)

StartClosed ==
    /\ Holds(Client, "start") /\ closed
    /\ Return(Client)
    /\ UNCHANGED <<closed, started, sid, cap, commands, wireVars, told>>

\* Slip: an inference still running is not waited for
MustNotWait == self.phase # "idle"

MustWait == self.phase # "idle" \/ WorkerLive

StartRefused ==
    /\ Holds(Client, "start") /\ ~closed /\ MustWait
    /\ Reply(Client, cmd.id, "refused", pc)
    /\ UNCHANGED <<self, closed, started, sid, cap, commands, wireVars>>

StartOpens ==
    /\ Holds(Client, "start") /\ ~closed /\ ~MustWait
    /\ started' = started + 1
    /\ sid' = [sid EXCEPT ![started + 1] = cmd.id]
    /\ self' = [self EXCEPT !.capture = started + 1, !.id = cmd.id]
    /\ Goto(Client, "opening")
    /\ UNCHANGED <<closed, cap, lockVars, lineVars, wireVars, told>>

\* No child was created, so capture.cancel() has nothing to wait for.
StartFails ==
    /\ pc[Client] = "opening"
    /\ cap' = [cap EXCEPT ![started] = CancelBegun(@)]
    /\ self' = Idle
    /\ Reply(Client, cmd.id, "error", pc)
    /\ UNCHANGED <<closed, started, sid, commands, wireVars>>

\* limited: the command did not ask for a continuous recording
StartRecords(limited) ==
    /\ pc[Client] = "opening"
    /\ cap' = [cap EXCEPT ![started] = Spawned(@)]
    /\ self' = [self EXCEPT !.phase = "recording",
                            !.timer = IF limited THEN started ELSE 0]
    /\ LET p == IF limited THEN [pc EXCEPT ![Timer(started)] = "sleep"] ELSE pc
       IN  Reply(Client, cmd.id, "recording", p)
    /\ UNCHANGED <<closed, started, sid, commands, wireVars>>

-----------------------------------------------------------------------------
(* Session.cancel                                                          *)

CancelClosed ==
    /\ Holds(Client, "cancel") /\ closed
    /\ Return(Client)
    /\ UNCHANGED <<closed, started, sid, cap, commands, wireVars, told>>

CancelRefused ==
    /\ Holds(Client, "cancel") /\ ~closed
    /\ cmd.id # self.id \/ self.phase = "idle"
    /\ Reply(Client, cmd.id, "refused", pc)
    /\ UNCHANGED <<self, closed, started, sid, cap, commands, wireVars>>

Cancels == Holds(Client, "cancel") /\ ~closed
           /\ cmd.id = self.id /\ self.phase # "idle"

CancelBegins ==
    /\ Cancels /\ self.capture # 0
    /\ cap' = [cap EXCEPT ![self.capture] = CancelBegun(@)]
    /\ self' = [self EXCEPT !.timer = 0]
    /\ pc' = [Cleared(Client) EXCEPT ![Client] = "cancelling"]
    /\ UNCHANGED <<closed, started, sid, lockVars, lineVars, wireVars, told>>

\* Offline recognition already took the audio and the capture.
CancelsRecognition ==
    /\ Cancels /\ self.capture = 0
    /\ self' = [Idle EXCEPT !.timer = 0]
    /\ Reply(Client, cmd.id, "cancelled", Cleared(Client))
    /\ UNCHANGED <<closed, started, sid, cap, commands, wireVars>>

CancelEnds ==
    /\ pc[Client] = "cancelling" /\ Finished(cap[self.capture])
    /\ cap' = [cap EXCEPT ![self.capture] = Emptied(@)]
    /\ self' = Idle
    /\ Reply(Client, cmd.id, "cancelled", pc)
    /\ UNCHANGED <<closed, started, sid, commands, wireVars>>

-----------------------------------------------------------------------------
(* Session.close, and the end of _client                                   *)

CloseBegins ==
    /\ Holds(Client, "close")
    /\ closed' = TRUE
    /\ IF self.capture # 0
       THEN /\ cap' = [cap EXCEPT ![self.capture] = CancelBegun(@)]
            /\ self' = [self EXCEPT !.timer = 0]
            /\ pc' = [Cleared(Client) EXCEPT ![Client] = "closing"]
            /\ UNCHANGED lockVars
       ELSE /\ self' = [Idle EXCEPT !.timer = 0]
            /\ pc' = [Cleared(Client) EXCEPT ![Client] = "join"]
            /\ Release /\ UNCHANGED cap
    /\ UNCHANGED <<started, sid, lineVars, wireVars, told>>

CloseEnds ==
    /\ pc[Client] = "closing" /\ Finished(cap[self.capture])
    /\ cap' = [cap EXCEPT ![self.capture] = Emptied(@)]
    /\ self' = Idle
    /\ Release /\ Goto(Client, "join")
    /\ UNCHANGED <<closed, started, sid, lineVars, wireVars, told>>

\* The inference thread cannot be interrupted: its worker is awaited.
\* The connection then gives up its ownership and closes the writer.
CloseJoins ==
    /\ pc[Client] = "join" /\ ~WorkerLive
    /\ Goto(Client, "closed") /\ writer' = "closing"
    /\ UNCHANGED <<self, closed, started, sid, cap, lockVars, lineVars, peer, told>>

-----------------------------------------------------------------------------
(* Session.stop up to the point where it takes the recording; it is called *)
(* by the connection task or by a timer                                    *)

\* Slip: stop() ends whatever is recorded
StopAny(t) == self.id

\* Slip: the timer stops no recording in particular
StopNone(t) == cmd.id

StopId(t) == IF t = Client THEN cmd.id ELSE sid[t[2]]

\* Already closed, or already being finished: nothing to do.
StopIgnored(t) ==
    /\ Holds(t, "stop")
    /\ closed \/ (StopId(t) = self.id /\ self.phase = "transcribing")
    /\ Return(t)
    /\ UNCHANGED <<closed, started, sid, cap, commands, wireVars, told>>

StopRefused(t) ==
    /\ Holds(t, "stop") /\ ~closed
    /\ StopId(t) # self.id \/ self.phase = "idle"
    /\ Reply(t, StopId(t), "refused", pc)
    /\ UNCHANGED <<self, closed, started, sid, cap, commands, wireVars>>

-----------------------------------------------------------------------------
(* Session._limit                                                          *)

TimerFires(n) ==
    /\ pc[Timer(n)] = "sleep"
    /\ Acquire(Timer(n)) /\ Goto(Timer(n), "stop")
    /\ UNCHANGED <<self, closed, started, sid, cap, lineVars, wireVars, told>>

\* The cancelled wait for the lock is passed on to the next waiter.
TimerDropped(n) ==
    /\ Holds(Timer(n), "cancelled")
    /\ Release /\ Goto(Timer(n), "done")
    /\ UNCHANGED <<self, closed, started, sid, cap, lineVars, wireVars, told>>

-----------------------------------------------------------------------------
(* The capture child and its reader, and the client's end of the socket    *)

CaptureReads(n) ==
    /\ CanRead(cap[n])
    /\ cap[n].read < MaxChunks
    /\ cap' = [cap EXCEPT ![n] = Read(@)]

CaptureExits(n) ==
    /\ CanExit(cap[n])
    /\ cap' = [cap EXCEPT ![n] = Exited(@)]

CaptureEnds(n) ==
    /\ CanEnd(cap[n])
    /\ \E odd \in BOOLEAN : cap' = [cap EXCEPT ![n] = Ended(@, odd)]

CaptureStep(n) ==
    /\ CaptureReads(n) \/ CaptureExits(n) \/ CaptureEnds(n)
    /\ UNCHANGED <<self, closed, started, sid, pc, lockVars, lineVars, wireVars, told>>

PeerLeaves ==
    /\ peer = "here" /\ peer' = "gone"
    /\ UNCHANGED <<self, closed, started, sid, cap, pc, lockVars, lineVars, writer, told>>

-----------------------------------------------------------------------------

ClientReads ==
    \/ \E kind \in Kinds, i \in Ids : ReadCommand(kind, i)
    \/ ReadBadLine

ClientRuns ==
    \/ ReadEof \/ BadLineAnswered \/ ReplySent(Client)
    \/ StartClosed \/ StartRefused \/ StartOpens \/ StartFails
    \/ \E limited \in BOOLEAN : StartRecords(limited)
    \/ CancelClosed \/ CancelRefused \/ CancelBegins \/ CancelsRecognition
    \/ CancelEnds
    \/ CloseBegins \/ CloseEnds \/ CloseJoins

TimerRuns(n) == TimerFires(n) \/ TimerDropped(n) \/ ReplySent(Timer(n))

BaseStep ==
    \/ ClientReads \/ ClientRuns \/ PeerLeaves
    \/ \E n \in Starts : TimerRuns(n) \/ CaptureStep(n)

\* Every task has ended; nothing is left to happen.
AllEnded ==
    /\ pc[Client] = "closed"
    /\ \A t \in Task \ {Client} : pc[t] \in {"none", "done"}

-----------------------------------------------------------------------------
(* Properties of both kinds of session                                     *)

\* The suspensions inside an `async with self.lock' block.
Inside == {"opening", "reply", "cancelling", "closing", "stopping", "announce",
           "emitting", "ending", "losing", "failing", "reporting",
           "delivering"}

\* Every suspension a task can be at.
Labels == Inside \cup
    {"none", "read", "badline", "overlong", "start", "stop", "cancel", "close",
     "join", "closed", "sleep", "cancelled", "done", "create", "next", "wait",
     "decode", "publish", "finalize", "emit", "end", "lost", "fail", "recognize",
     "deliver"}

\* The attributes and locals keep their types.
BaseTypeOK ==
    /\ self \in [phase : Phases, id : Ids \cup {NoId},
                 capture : 0 .. MaxStarts, worker : 0 .. MaxStarts,
                 timer : 0 .. MaxStarts]
    /\ closed \in BOOLEAN
    /\ started \in 0 .. MaxStarts
    /\ sid \in [Starts -> Ids \cup {NoId}]
    /\ cap \in [Starts -> Capture]
    /\ pc \in [Task -> Labels]
    /\ holder \in Task \cup {NoTask}
    /\ waiters \in Seq(Task)
    /\ cmd \in [kind : Kinds \cup {"none", "too long"}, id : Ids \cup {NoId}]
    /\ commands \in Nat
    /\ peer \in {"here", "gone"}
    /\ writer \in {"open", "closing"}
    /\ told \in [Ids -> [phase : Phases \cup {"none", "finished", "cancelled", "error"},
                         segment : Nat, seq : Nat]]
\* Only the task that holds self.lock is suspended inside a locked block:
\* the awaits of start, stop, cancel, close and the worker never overlap.
LockExclusive == \A t \in Task : pc[t] \in Inside => holder = t

\* When the connection has given up its ownership, no microphone runs, no
\* worker is left and no timer can still act.
ReleasedWhenClosed ==
    pc[Client] = "closed" =>
        \A n \in Starts : /\ ~Live(cap[n])
                          /\ pc[Worker(n)] \in {"none", "done"}
                          /\ pc[Timer(n)] \in {"none", "done", "cancelled"}

\* At most one decoding worker, whatever restarts and cancels happen.
OneWorker ==
    \A m, n \in Starts :
        {pc[Worker(m)], pc[Worker(n)]} \cap {"none", "done"} = {} => m = n

\* A timer that is armed, or waiting to stop, is the session's timer and the
\* recording it was armed for still runs: a stale timer never acts.
TimerCurrent ==
    \A n \in Starts : pc[Timer(n)] \in {"sleep", "stop"} =>
        /\ self.timer = n /\ self.capture = n
        /\ self.phase = "recording" /\ self.id = sid[n]

RecordingEnds == self.phase = "recording" /\ self'.phase # "recording"

\* The task that runs is executing a command with the id of the recording, or
\* is the timer or the worker of the recording.
OnItsBehalf ==
    \/ holder = Client /\ cmd.kind \in Kinds /\ cmd.id = self.id
    \/ holder \in {Timer(self.capture), Worker(self.capture)}

\* The connection task leaves because the client cannot be reached any more.
ConnectionLost ==
    /\ holder = Client /\ pc[Client] \in {"close", "closing"}
    /\ peer = "gone" \/ writer = "closing"

\* A recording is ended on its own behalf, by the loss of the client, or by a
\* line that is too long: never by a command with another id, a refused
\* message or a timer or worker of another recording.
EndedByItsOwn ==
    [][RecordingEnds => OnItsBehalf \/ ConnectionLost \/ (holder = Client /\ cmd = TooLong)]_baseVars

\* The same without the line that is too long: the design asks that refusing a
\* message that is of the wrong type, too long or of a wrong id does not stop
\* the legitimate recording.  The code does not keep this (README, Disagreements).
RefusalsHarmless == [][RecordingEnds => OnItsBehalf \/ ConnectionLost]_baseVars

\* The event order promised to the client, for every id.
Promise == INSTANCE Dictation WITH
    told <- told, open <- ~closed

KeepsPromise == Promise!Safe

\* Both: each id hears its events in the promised order, and no other id, no
\* refused message that fits a line, no stale timer and no stale worker ends it.
EndsAsPromised == KeepsPromise /\ EndedByItsOwn
=============================================================================
