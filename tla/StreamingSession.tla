-------------------------- MODULE StreamingSession --------------------------
(***************************************************************************)
(* streaming_session.py: stop() and the decoding worker of a streaming     *)
(* session, on top of Session.  The worker takes chunks from the capture,  *)
(* has a thread decode each and publishes the results; stop() seals the    *)
(* capture and lets the worker finish.                                     *)
(***************************************************************************)
EXTENDS Session

CONSTANT
    Results     \* bound: the result lists one call of the decoder may return

ASSUME StreamingAssumption ==
    /\ Streaming
    /\ Results \subseteq Seq({"partial", "final"})

VARIABLE
    run         \* run[n]: the locals of the worker of recording n

vars == <<baseVars, run>>

StreamInit ==
    /\ Init
    /\ run = [n \in Starts |-> [segment |-> 1, seq |-> 0, previous |-> "none",
                                results |-> <<>>, stage |-> "accept"]]

-----------------------------------------------------------------------------
(* stop(): its early returns, the same lines as in session.py, are in      *)
(* Session.                                                                *)

StopBegins(t) ==
    /\ Holds(t, "stop") /\ ~closed
    /\ StopId(t) = self.id /\ self.phase = "recording"
    /\ self' = [self EXCEPT !.phase = "transcribing", !.timer = 0]
    /\ cap' = [cap EXCEPT ![self.capture] = Sealed(@)]
    /\ pc' = [Cleared(t) EXCEPT ![t] = "stopping"]
    /\ UNCHANGED <<closed, started, sid, lockVars, lineVars, wireVars, told, run>>

CaptureDropped == [cap EXCEPT ![self.capture] = Emptied(CancelBegun(@))]

\* The client cannot be told: the session ends without a word, and stop()
\* returns as if it had succeeded.
StopLoses(t) ==
    /\ self' = Idle /\ closed' = TRUE
    /\ cap' = CaptureDropped
    /\ Release /\ Forget(t) /\ Goto(t, IF t = Client THEN "read" ELSE "done")

StopSealed(t) ==
    /\ pc[t] = "stopping" /\ Finished(cap[self.capture])
    /\ "failed" \notin cap[self.capture].flags
    /\ IF CanWrite
       THEN /\ Tell(self.id, "transcribing") /\ Goto(t, "announce")
            /\ UNCHANGED <<self, closed, cap, cmd, lockVars>>
       ELSE StopLoses(t) /\ UNCHANGED told
    /\ UNCHANGED <<started, sid, commands, wireVars, run>>

StopAnnounced(t) ==
    /\ pc[t] = "announce"
    /\ \/ Drained /\ Return(t) /\ UNCHANGED <<closed, cap>>
       \/ DrainFails /\ StopLoses(t)
    /\ UNCHANGED <<started, sid, commands, told, run>>

\* The capture failed before the seal, or its child exited with an error.
StopBreaks(t) ==
    /\ pc[t] = "stopping" /\ Finished(cap[self.capture])
    /\ cap' = CaptureDropped
    /\ self' = Idle
    /\ Reply(t, self.id, "error", pc)
    /\ UNCHANGED <<closed, started, sid, commands, wireVars, run>>

Stop(t) ==
    \/ (StopIgnored(t) \/ StopRefused(t)) /\ UNCHANGED run
    \/ StopBegins(t)
    \/ StopSealed(t) \/ StopAnnounced(t) \/ StopBreaks(t)

-----------------------------------------------------------------------------
(* _run, the worker of recording n                                         *)

ActiveSession(n) ==
    ~closed /\ self.id = sid[n] /\ self.phase \in {"recording", "transcribing"}

\* Slip: publish() does not take self.lock
AwaitNothing(n, l) == AcquireAtOnce(Worker(n)) /\ Goto(Worker(n), l)

\* wait for the lock at label l
Await(n, l) == Acquire(Worker(n)) /\ Goto(Worker(n), l)

\* leave the lock at label l
Leave(n, l) == Release /\ Goto(Worker(n), l)

\* a ConnectionError or TimeoutError leaves the lock for its handler
Breaks(n) == Reacquire(Worker(n)) /\ Goto(Worker(n), "lost")

WorkerCreates(n) ==
    /\ pc[Worker(n)] = "create"
    /\ \/ Goto(Worker(n), "next") /\ UNCHANGED lockVars
       \/ Await(n, "fail")
    /\ UNCHANGED <<self, closed, started, sid, cap, lineVars, wireVars, told, run>>

\* The stream of chunks is over.
StreamEnds(n) ==
    IF ~ActiveSession(n)
    THEN Goto(Worker(n), "done") /\ UNCHANGED <<lockVars, run>>
    ELSE IF self.phase # "transcribing" THEN Await(n, "fail") /\ UNCHANGED run
    ELSE /\ Goto(Worker(n), "decode")
         /\ run' = [run EXCEPT ![n].stage = "finish"]
         /\ UNCHANGED lockVars

WorkerLooks(n) ==
    /\ pc[Worker(n)] = "next"
    /\ LET c == Looked(cap[n])
           next == Look(c)
       IN  /\ cap' = [cap EXCEPT ![n] = IF next = "chunk" THEN Taken(c) ELSE c]
           /\ \/ next = "end" /\ StreamEnds(n)
              \/ next = "raise" /\ Await(n, "fail") /\ UNCHANGED run
              \/ /\ next \in {"chunk", "wait"}
                 /\ Goto(Worker(n), IF next = "wait" THEN "wait"
                                    ELSE IF ActiveSession(n) THEN "decode" ELSE "done")
                 /\ UNCHANGED <<lockVars, run>>
    /\ UNCHANGED <<self, closed, started, sid, lineVars, wireVars, told>>

WorkerWakes(n) ==
    /\ pc[Worker(n)] = "wait" /\ "available" \in cap[n].flags
    /\ Goto(Worker(n), "next")
    /\ UNCHANGED <<self, closed, started, sid, cap, lockVars, lineVars, wireVars, told, run>>

\* The thread running decoder.accept or decoder.finish is done.
WorkerDecoded(n) ==
    /\ pc[Worker(n)] = "decode"
    /\ \/ /\ \E r \in Results : run' = [run EXCEPT ![n].results = r]
          /\ Goto(Worker(n), "publish") /\ UNCHANGED lockVars
       \/ Await(n, "fail") /\ UNCHANGED run
    /\ UNCHANGED <<self, closed, started, sid, cap, lineVars, wireVars, told>>

\* The next result of publish(), or its return.  finalize() runs in a
\* thread, for the finals that have text when there is a finalizer.
WorkerPublishes(n) ==
    /\ pc[Worker(n)] = "publish"
    /\ IF run[n].results = <<>> \/ ~ActiveSession(n)
       THEN IF run[n].stage = "finish" THEN Await(n, "end")
            ELSE Goto(Worker(n), "next") /\ UNCHANGED lockVars
       ELSE \/ Await(n, "emit")
            \/ /\ Head(run[n].results) = "final"
               /\ Goto(Worker(n), "finalize") /\ UNCHANGED lockVars
    /\ UNCHANGED <<self, closed, started, sid, cap, lineVars, wireVars, told, run>>

WorkerFinalized(n) ==
    /\ pc[Worker(n)] = "finalize"
    /\ Await(n, "emit") \/ Await(n, "fail")
    /\ UNCHANGED <<self, closed, started, sid, cap, lineVars, wireVars, told, run>>

\* The session ended while the worker waited: publish() returns.
PublishStops(n) ==
    /\ Holds(Worker(n), "emit") /\ ~ActiveSession(n)
    /\ Leave(n, "publish")
    /\ run' = [run EXCEPT ![n].results = <<>>]
    /\ UNCHANGED <<self, closed, started, sid, cap, lineVars, wireVars, told>>

\* A partial with the text of the previous one is not sent again.
PublishSkips(n) ==
    /\ Holds(Worker(n), "emit") /\ ActiveSession(n)
    /\ Head(run[n].results) = "partial" /\ run[n].previous = "text"
    /\ Leave(n, "publish")
    /\ run' = [run EXCEPT ![n].results = Tail(@)]
    /\ UNCHANGED <<self, closed, started, sid, cap, lineVars, wireVars, told>>

PublishEmits(n) ==
    /\ Holds(Worker(n), "emit") /\ ActiveSession(n)
    /\ run' = [run EXCEPT ![n].seq = @ + 1]
    /\ IF CanWrite
       THEN /\ told' = [told EXCEPT
                 ![sid[n]].seq = run[n].seq + 1,
                 ![sid[n]].segment = IF Head(run[n].results) = "final"
                                     THEN run[n].segment + 1 ELSE run[n].segment]
            /\ Goto(Worker(n), "emitting") /\ UNCHANGED lockVars
       ELSE Breaks(n) /\ UNCHANGED told
    /\ UNCHANGED <<self, closed, started, sid, cap, lineVars, wireVars>>

\* Slip: the segment number stays
PublishedSame(r) == [r EXCEPT !.results = Tail(@)]

\* segment, previous and the rest of the results after an event was sent
Published(r) ==
    LET final == Head(r.results) = "final"
    IN  [r EXCEPT !.results = Tail(@), !.previous = IF final THEN "none" ELSE "text",
                  !.segment = IF final THEN @ + 1 ELSE @]

PublishSent(n) ==
    /\ pc[Worker(n)] = "emitting"
    /\ \/ /\ Drained /\ Leave(n, "publish")
          /\ run' = [run EXCEPT ![n] = Published(@)]
       \/ DrainFails /\ Breaks(n) /\ UNCHANGED run
    /\ UNCHANGED <<self, closed, started, sid, cap, lineVars, told>>

\* Every chunk is decoded and published: finished.
WorkerEnds(n) ==
    /\ Holds(Worker(n), "end")
    /\ IF ~ActiveSession(n)
       THEN Leave(n, "done") /\ UNCHANGED <<self, told>>
       ELSE /\ self' = [self EXCEPT !.timer = 0]
            /\ IF CanWrite
               THEN /\ Tell(sid[n], "finished") /\ UNCHANGED lockVars
                    /\ pc' = [Cleared(Worker(n)) EXCEPT ![Worker(n)] = "ending"]
               ELSE /\ Reacquire(Worker(n)) /\ UNCHANGED told
                    /\ pc' = [Cleared(Worker(n)) EXCEPT ![Worker(n)] = "lost"]
    /\ UNCHANGED <<closed, started, sid, cap, lineVars, wireVars, run>>

WorkerEnded(n) ==
    /\ pc[Worker(n)] = "ending"
    /\ \/ Drained /\ self' = Idle /\ Leave(n, "done")
       \/ DrainFails /\ Breaks(n) /\ UNCHANGED self
    /\ UNCHANGED <<closed, started, sid, cap, lineVars, told, run>>

\* The handlers: "lost" when the client cannot be reached, "fail" for
\* every other exception.  Both cancel the capture and wait for its end.
Abandons(n, closes, l) ==
    /\ self' = [self EXCEPT !.timer = 0]
    /\ closed' = (closed \/ closes)
    /\ cap' = [cap EXCEPT ![n] = CancelBegun(@)]
    /\ pc' = [Cleared(Worker(n)) EXCEPT ![Worker(n)] = l]
    /\ UNCHANGED lockVars

WorkerLost(n) ==
    /\ Holds(Worker(n), "lost")
    /\ IF self.id = sid[n] THEN Abandons(n, TRUE, "losing")
       ELSE Leave(n, "done") /\ UNCHANGED <<self, closed, cap>>
    /\ UNCHANGED <<started, sid, lineVars, wireVars, told, run>>

LostEnds(n) ==
    /\ pc[Worker(n)] = "losing" /\ Finished(cap[n])
    /\ cap' = [cap EXCEPT ![n] = Emptied(@)]
    /\ self' = Idle
    /\ Leave(n, "done")
    /\ UNCHANGED <<closed, started, sid, lineVars, wireVars, told, run>>

WorkerFails(n) ==
    /\ Holds(Worker(n), "fail")
    /\ IF ActiveSession(n) THEN Abandons(n, FALSE, "failing")
       ELSE Leave(n, "done") /\ UNCHANGED <<self, closed, cap>>
    /\ UNCHANGED <<started, sid, lineVars, wireVars, told, run>>

FailEnds(n) ==
    /\ pc[Worker(n)] = "failing" /\ Finished(cap[n])
    /\ cap' = [cap EXCEPT ![n] = Emptied(@)]
    /\ IF CanWrite
       THEN /\ Tell(sid[n], "error") /\ UNCHANGED <<closed, lockVars>>
            /\ Goto(Worker(n), "reporting")
       ELSE /\ closed' = TRUE /\ UNCHANGED told
            /\ Leave(n, "done")
    /\ self' = Idle
    /\ UNCHANGED <<started, sid, lineVars, wireVars, run>>

FailReported(n) ==
    /\ pc[Worker(n)] = "reporting"
    /\ \/ Drained /\ UNCHANGED closed
       \/ DrainFails /\ closed' = TRUE
    /\ Leave(n, "done")
    /\ UNCHANGED <<self, started, sid, cap, lineVars, told, run>>

WorkerRuns(n) ==
    \/ WorkerCreates(n) \/ WorkerLooks(n) \/ WorkerWakes(n) \/ WorkerDecoded(n)
    \/ WorkerPublishes(n) \/ WorkerFinalized(n) \/ PublishStops(n)
    \/ PublishSkips(n) \/ PublishEmits(n) \/ PublishSent(n)
    \/ WorkerEnds(n) \/ WorkerEnded(n)
    \/ WorkerLost(n) \/ LostEnds(n) \/ WorkerFails(n) \/ FailEnds(n)
    \/ FailReported(n)

-----------------------------------------------------------------------------

Next ==
    \/ BaseStep /\ UNCHANGED run
    \/ Stop(Client)
    \/ \E n \in Starts : Stop(Timer(n)) \/ WorkerRuns(n)
    \/ AllEnded /\ UNCHANGED vars

Spec == StreamInit /\ [][Next]_vars

(***************************************************************************)
(* Fairness: the event loop runs every task that can run, inference        *)
(* threads and the child process answer SIGTERM or SIGKILL, and drain()    *)
(* returns or times out.  Nothing is assumed of the client: it may never    *)
(* read, and then EOF follows only its departure.                          *)
(***************************************************************************)
Fairness ==
    /\ WF_vars((ClientRuns /\ (ReadEof => peer = "gone") /\ UNCHANGED run)
               \/ Stop(Client))
    /\ \A n \in Starts :
         /\ WF_vars((TimerRuns(n) /\ UNCHANGED run) \/ Stop(Timer(n)))
         /\ WF_vars(WorkerRuns(n))
         /\ WF_vars((CaptureStep(n) /\ ~CaptureReads(n) /\ cap[n].proc # "running")
                    /\ UNCHANGED run)

FairSpec == Spec /\ Fairness

-----------------------------------------------------------------------------
(* Properties                                                              *)

\* The attributes and locals keep their types.
TypeOK ==
    /\ BaseTypeOK
    /\ run \in [Starts -> [segment : Nat, seq : Nat, previous : {"none", "text"},
                           results : Seq({"partial", "final"}), stage : {"accept", "finish"}]]

\* A live microphone process always belongs to the session's current
\* capture, and the session is not idle: no path leaves one orphaned.
MicrophoneOwned ==
    \A n \in Starts : Live(cap[n]) => self.capture = n /\ self.phase # "idle"

\* Once start() has returned, a session that is not idle has a live worker
\* that reads its own capture: audio never piles up unread.
RecordingConsumed ==
    (/\ self.phase # "idle" /\ pc[Client] \notin {"close", "closing"}
     /\ ~(pc[Client] = "reply" /\ cmd.kind = "start"))
    => WorkerLive /\ self.worker = self.capture /\ sid[self.worker] = self.id

\* `finished' is written only after every chunk read from the microphone
\* went through the decoder and the reader saw the end of the pipe.
FinishedDrained ==
    \A n \in Starts : pc[Worker(n)] = "ending" =>
        /\ told[sid[n]].phase = "finished"
        /\ "eof" \in cap[n].flags /\ cap[n].taken = cap[n].read

\* The consumer never sleeps while a chunk, the end or a cancel is pending.
NoLostWakeup ==
    \A n \in Starts :
        pc[Worker(n)] = "wait"
        /\ (cap[n].queue > 0 \/ cap[n].flags \cap {"eof", "cancelled"} # {})
            => "available" \in cap[n].flags

\* Nothing of a recording that was cancelled or failed (its microphone, timer
\* or worker) is left to act on the one that follows it, or on a connection
\* that is closed.
RecordingsApart ==
    MicrophoneOwned /\ TimerCurrent /\ OneWorker /\ RecordingConsumed /\ ReleasedWhenClosed

\* No chunk is lost or left lying between the reader and the consumer.
EveryChunkHeard == FinishedDrained /\ NoLostWakeup

\* A stopped recording always ends, whatever the decoder and the peer do.
StopEnds == self.phase = "transcribing" ~> self.phase = "idle"

\* A bounded recording does not outlive its time limit.
LimitHolds ==
    \A n \in Starts : pc[Timer(n)] = "sleep" ~> (self.phase # "recording" \/ self.capture # n)

\* When the client is gone the microphone is switched off and the
\* connection gives up its ownership.
ReleasedWhenGone ==
    peer = "gone" ~> (pc[Client] = "closed" /\ \A n \in Starts : ~Live(cap[n]))
=============================================================================
