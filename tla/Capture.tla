------------------------------ MODULE Capture ------------------------------
(***************************************************************************)
(* One GStreamerCapture object (audio.py) as a record, and its operations  *)
(* as operators from record to record.  A chunk of PCM is only counted:    *)
(* `read' chunks were taken from the pipe and accepted, `queue' of them    *)
(* still wait, and `taken' were taken out of the queue by the consumer.    *)
(*   proc   "absent": no child process; "terminating": SIGTERM was sent.   *)
(*   flags  the boolean attributes that are True (failed: failure is set). *)
(***************************************************************************)
EXTENDS Naturals

CONSTANTS
    Streaming,  \* the object is read chunk by chunk (streaming=True)
    MaxQueue    \* asyncio.Queue(maxsize=20)

ASSUME CaptureAssumption == Streaming \in BOOLEAN /\ MaxQueue \in Nat \ {0}

Flags == {"available", "eof", "stopping", "cancelled", "failed"}

Capture ==
    [proc : {"absent", "running", "terminating", "exited"},
     flags : SUBSET Flags, queue : Nat, read : Nat, taken : Nat]

Fresh == [proc |-> "absent", flags |-> {}, queue |-> 0, read |-> 0, taken |-> 0]

Live(c) == c.proc \in {"running", "terminating"}

Spawned(c) == [c EXCEPT !.proc = "running"]

\* process.terminate(), only when the child has not been reaped, and flags set
Terminated(c, flags) ==
    [c EXCEPT !.proc = IF @ = "running" THEN "terminating" ELSE @,
              !.flags = @ \cup flags]

(***************************************************************************)
(* The reader task.  A full queue is a failure of the capture: the child   *)
(* is terminated and whatever the pipe still holds is read and dropped.    *)
(***************************************************************************)
CanRead(c) == c.proc # "absent" /\ "eof" \notin c.flags /\ "failed" \notin c.flags

\* Slip: the reader puts a chunk and forgets available.set()
ReadQuietly(c) == [c EXCEPT !.queue = @ + 1, !.read = @ + 1]

Read(c) ==
    IF ~Streaming THEN [c EXCEPT !.read = @ + 1]
    ELSE IF c.queue < MaxQueue
         THEN [c EXCEPT !.queue = @ + 1, !.read = @ + 1,
                        !.flags = @ \cup {"available"}]
         ELSE Terminated(c, {"failed"})

CanExit(c) == Live(c)

Exited(c) == [c EXCEPT !.proc = "exited"]

CanEnd(c) == c.proc = "exited" /\ "eof" \notin c.flags

\* Slip: no available.set() when the reader leaves
EndedQuietly(c, odd) == [c EXCEPT !.flags = @ \cup {"eof"}]

\* odd: the pipe closed in the middle of a PCM16 sample
Ended(c, odd) ==
    [c EXCEPT !.flags = @ \cup {"available", "eof"}
                 \cup (IF Streaming /\ ("stopping" \notin @ \/ odd)
                       THEN {"failed"} ELSE {})]

(***************************************************************************)
(* stop() and cancel() both set a flag, terminate the child and wait for   *)
(* the child and the readers; cancel() then empties the queue.             *)
(***************************************************************************)
Sealed(c) == Terminated(c, {"stopping"})

\* Slip: cancel() only marks the capture
CancelMarked(c) == [c EXCEPT !.flags = @ \cup {"stopping", "cancelled"}]

CancelBegun(c) == Terminated(c, {"stopping", "cancelled", "available"})

\* Slip: the child is not waited for
NotAwaited(c) == TRUE

Finished(c) == c.proc = "absent" \/ "eof" \in c.flags

Emptied(c) == [c EXCEPT !.queue = 0]

(***************************************************************************)
(* One turn of the loop in chunks(): what the consumer meets next.         *)
(***************************************************************************)
Looked(c) == [c EXCEPT !.flags = @ \ {"available"}]

\* Slip: a chunk is taken without looking whether there is one
LookUnchecked(c) == IF "cancelled" \in c.flags THEN "end" ELSE "chunk"

Look(c) ==
    IF "cancelled" \in c.flags THEN "end"
    ELSE IF "failed" \in c.flags THEN "raise"
    ELSE IF c.queue > 0 THEN "chunk"
    ELSE IF "eof" \in c.flags THEN "end"
    ELSE "wait"

Taken(c) == [c EXCEPT !.queue = @ - 1, !.taken = @ + 1]
=============================================================================
