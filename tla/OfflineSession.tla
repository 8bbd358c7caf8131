--------------------------- MODULE OfflineSession ---------------------------
(***************************************************************************)
(* session.py as it is used on its own: stop() takes the whole recording   *)
(* and a worker recognizes it after the capture has ended.                 *)
(***************************************************************************)
EXTENDS Session

ASSUME OfflineAssumption == ~Streaming

-----------------------------------------------------------------------------
(* stop(), from the point where it takes the capture.  The lock is held    *)
(* throughout, so the capture it took is that of the last recording.       *)

Recording == cap[started]

StopTakes(t) ==
    /\ Holds(t, "stop") /\ ~closed
    /\ StopId(t) = self.id /\ self.phase = "recording"
    /\ self' = [self EXCEPT !.phase = "transcribing", !.timer = 0, !.capture = 0]
    /\ cap' = [cap EXCEPT ![self.capture] = Sealed(@)]
    /\ pc' = [Cleared(t) EXCEPT ![t] = "stopping"]
    /\ UNCHANGED <<closed, started, sid, lockVars, lineVars, wireVars, told>>

StopSealed(t) ==
    /\ pc[t] = "stopping" /\ Finished(Recording)
    /\ Recording.read > 0
    /\ IF CanWrite
       THEN /\ Tell(self.id, "transcribing") /\ Goto(t, "announce")
            /\ UNCHANGED <<cmd, lockVars>>
       ELSE Raise(t, pc) /\ UNCHANGED told
    /\ UNCHANGED <<self, closed, started, sid, cap, commands, wireVars>>

\* The worker is created before the lock is released.
StopAnnounced(t) ==
    /\ pc[t] = "announce"
    /\ \/ /\ Drained /\ Release /\ Forget(t)
          /\ self' = [self EXCEPT !.worker = started]
          /\ pc' = [pc EXCEPT ![t] = IF t = Client THEN "read" ELSE "done",
                              ![Worker(started)] = "recognize"]
       \/ DrainFails /\ Raise(t, pc) /\ UNCHANGED self
    /\ UNCHANGED <<closed, started, sid, cap, commands, told>>

\* Slip: a stop() that fails leaves the phase and the id
StopBreaksOpen(t) ==
    /\ pc[t] = "stopping" /\ Finished(Recording)
    /\ cap' = [cap EXCEPT ![started] = Emptied(CancelBegun(@))]
    /\ Reply(t, self.id, "error", pc)
    /\ UNCHANGED <<self, closed, started, sid, commands, wireVars>>

\* The recording is too short or the child exited with an error.
StopBreaks(t) ==
    /\ pc[t] = "stopping" /\ Finished(Recording)
    /\ cap' = [cap EXCEPT ![started] = Emptied(CancelBegun(@))]
    /\ self' = [self EXCEPT !.phase = "idle", !.id = NoId]
    /\ Reply(t, self.id, "error", pc)
    /\ UNCHANGED <<closed, started, sid, commands, wireVars>>

Stop(t) ==
    \/ StopIgnored(t) \/ StopRefused(t) \/ StopTakes(t)
    \/ StopSealed(t) \/ StopAnnounced(t) \/ StopBreaks(t)

-----------------------------------------------------------------------------
(* _decode, the worker of recording n                                      *)

\* wait for the lock with the result
Await(n) == Acquire(Worker(n))

\* The inference thread ends, with a text or with an exception.
WorkerRecognizes(n) ==
    /\ pc[Worker(n)] = "recognize"
    /\ Await(n) /\ Goto(Worker(n), "deliver")
    /\ UNCHANGED <<self, closed, started, sid, cap, lineVars, wireVars, told>>

Expected(n) ==
    ~closed /\ self.id = sid[n] /\ self.phase = "transcribing"

\* The result, or the error, if the session still expects it.
WorkerDelivers(n) ==
    /\ Holds(Worker(n), "deliver")
    /\ self' = IF Expected(n) THEN [self EXCEPT !.phase = "idle", !.id = NoId] ELSE self
    /\ IF ~Expected(n)
       THEN Release /\ Goto(Worker(n), "done") /\ UNCHANGED <<closed, told>>
       ELSE IF CanWrite
       THEN /\ \E kind \in {"finished", "error"} : Tell(sid[n], kind)
            /\ Goto(Worker(n), "delivering") /\ UNCHANGED <<closed, lockVars>>
       ELSE /\ closed' = TRUE
            /\ Release /\ Goto(Worker(n), "done") /\ UNCHANGED told
    /\ UNCHANGED <<started, sid, cap, lineVars, wireVars>>

WorkerDelivered(n) ==
    /\ pc[Worker(n)] = "delivering"
    /\ \/ Drained /\ UNCHANGED closed
       \/ DrainFails /\ closed' = TRUE
    /\ Release /\ Goto(Worker(n), "done")
    /\ UNCHANGED <<self, started, sid, cap, lineVars, told>>

WorkerRuns(n) == WorkerRecognizes(n) \/ WorkerDelivers(n) \/ WorkerDelivered(n)

-----------------------------------------------------------------------------

Next ==
    \/ BaseStep \/ Stop(Client)
    \/ \E n \in Starts : Stop(Timer(n)) \/ WorkerRuns(n)
    \/ AllEnded /\ UNCHANGED baseVars

Spec == Init /\ [][Next]_baseVars

\* As for streaming: tasks that can run do, and nothing is assumed of the
\* client.
Fairness ==
    /\ WF_baseVars((ClientRuns /\ (ReadEof => peer = "gone")) \/ Stop(Client))
    /\ \A n \in Starts :
         /\ WF_baseVars(TimerRuns(n) \/ Stop(Timer(n)))
         /\ WF_baseVars(WorkerRuns(n))
         /\ WF_baseVars(CaptureStep(n) /\ ~CaptureReads(n) /\ cap[n].proc # "running")

FairSpec == Spec /\ Fairness

-----------------------------------------------------------------------------
(* Properties                                                              *)

\* A live microphone process belongs to the session's capture, or to the
\* stop() that took it, and the session is not idle meanwhile.
MicrophoneOwned ==
    \A n \in Starts : Live(cap[n]) =>
        /\ self.phase # "idle"
        /\ self.capture = n \/ (n = started /\ holder # NoTask /\ pc[holder] = "stopping")

\* A session that waits for a recognition has the worker that delivers it,
\* unless the client can no longer be reached: no transcribing limbo.
RecognitionPending ==
    self.phase = "transcribing" =>
        \/ WorkerLive /\ sid[self.worker] = self.id
        \/ holder # NoTask /\ pc[holder] \in {"stopping", "announce"}
        \/ writer = "closing"

\* Nothing of a recording (its microphone, timer or worker) acts on the one
\* that follows it or on a closed connection, and none is left without the
\* worker that ends it.
RecordingsApart ==
    /\ LockExclusive /\ MicrophoneOwned /\ TimerCurrent /\ OneWorker
    /\ RecognitionPending /\ ReleasedWhenClosed

\* A stopped recording always ends while the client can be reached.
StopEnds == self.phase = "transcribing" ~> (self.phase = "idle" \/ writer = "closing")

\* When the client is gone the connection gives up its ownership, the
\* microphone is off and no inference still runs.
ReleasedWhenGone ==
    peer = "gone" ~> (pc[Client] = "closed" /\ ~WorkerLive)

\* The design's "one terminal event per session id": once an id has been
\* told its end, no further error is written for it.
OneTerminalEvent ==
    [][\A i \in Ids :
         told[i].phase \in {"finished", "cancelled", "error"} /\ cmd.id = i
         => ~(pc[Client] \in {"stop", "cancel"} /\ pc'[Client] = "reply")]_baseVars
=============================================================================
