----------------------------- MODULE VoiceServer -----------------------------
(***************************************************************************)
(* The service as a whole: server.py and serve() of cli.py.  Several       *)
(* service processes may be started on one socket path (by systemd and by  *)
(* hand), are told to stop, or are killed; several clients connect.  What  *)
(* a connection does with its session is in Session; here session.close()  *)
(* is one step that takes its time.                                        *)
(*                                                                         *)
(* `waits' is the asyncio at hand: from Python 3.12.1 on                   *)
(* Server.wait_closed() waits for the open connections, before it returns  *)
(* at once.  From 3.13 on Server.close() itself unlinks the socket.        *)
(***************************************************************************)
EXTENDS Naturals, FiniteSets

CONSTANTS Services, \* processes that run `fcitx5-voice serve'
          Managed,  \* those that systemd restarts on failure
          Clients,
          MaxKills,   \* bound: how often a service is killed
          MaxOutside, \* bound: how often somebody else changes the path
          MaxMishaps  \* bound: both together

NoService == "no service"

ASSUME ServerAssumption ==
    /\ Managed \subseteq Services
    /\ IsFiniteSet(Services)
    /\ NoService \notin Services
    /\ MaxKills \in Nat /\ MaxOutside \in Nat

\* What may be at the path: nothing, the socket of a service, that of another
\* program, or no socket at all.
NoFile == 0
Inodes == 1 .. Cardinality(Services) + 1
Other == Cardinality(Services) + 2
Plain == Cardinality(Services) + 3

VARIABLES path,    \* what is at $XDG_RUNTIME_DIR/fcitx5-voice/service.sock
          lock,    \* the process that holds the flock, released by its death
          srv,     \* each process: place, stop event, socket, inode, owner, gathered tasks
          conn,    \* each client's connection
          waits,   \* whether wait_closed() waits for connections
          kills, outside

vars == <<path, lock, srv, conn, waits, kills, outside>>

ServiceRecord ==
    [pc: {"off", "failed", "loading", "starting", "locked", "found", "stale", "binding",
          "bound", "up", "unbinding", "waiting", "gathering", "comparing", "unlinking",
          "finishing", "failing"},
     stop: BOOLEAN, sock: Inodes \union {NoFile},
     inode: Inodes \union {NoFile, Plain, Other}, owner: BOOLEAN, joins: SUBSET Clients]

Connection ==
    [at: Services \union {NoService},
     pc: {"none", "backlog", "accepted", "refusing", "greeting", "serving", "closing", "leaving"},
     peer: BOOLEAN, writer: {"open", "closing"}, full: BOOLEAN]

Process(pc) == [pc |-> pc, stop |-> FALSE, sock |-> NoFile, inode |-> NoFile,
                owner |-> FALSE, joins |-> {}]

NoConnection == [at |-> NoService, pc |-> "none", peer |-> FALSE,
                 writer |-> "open", full |-> FALSE]

Locked == {"locked", "found", "stale", "binding", "bound", "up", "unbinding", "waiting",
           "gathering", "comparing", "unlinking", "failing"}

\* Types, and the lock is held exactly from flock() to the end of close().
TypeOK ==
    /\ path \in Inodes \union {NoFile, Plain, Other}
    /\ lock \in Services \union {NoService}
    /\ srv \in [Services -> ServiceRecord]
    /\ conn \in [Clients -> Connection]
    /\ waits \in BOOLEAN
    /\ kills \in 0 .. MaxKills
    /\ outside \in 0 .. MaxOutside
    /\ \A s \in Services : lock = s <=> srv[s].pc \in Locked

Of(s) == {c \in Clients : conn[c].at = s}
Listening(s) == srv[s].pc \in {"bound", "up"}
Used == {path} \union {srv[s].sock : s \in Services} \union {srv[s].inode : s \in Services}

Init ==
    /\ path \in {NoFile, Plain, 1}     \* 1: left by a service that was killed
    /\ lock = NoService
    /\ srv = [s \in Services |-> Process("off")]
    /\ conn = [c \in Clients |-> NoConnection]
    /\ waits \in BOOLEAN
    /\ kills = 0 /\ outside = 0

(***************************************************************************)
(* A process begins and ends.                                              *)
(***************************************************************************)
At(s, from, to) == srv[s].pc = from /\ srv' = [srv EXCEPT ![s].pc = to]

Dropped(lost) == [c \in Clients |-> IF c \in lost THEN NoConnection ELSE conn[c]]

Launch(s) ==
    /\ srv[s].pc \in {"off", "failed"}
    /\ srv' = [srv EXCEPT ![s] = Process("loading")]
    /\ UNCHANGED <<path, lock, conn, waits, kills, outside>>

\* The process is over: its sockets are closed and its lock released.
Ends(s, how) ==
    /\ srv' = [srv EXCEPT ![s] = Process(how)]
    /\ lock' = IF lock = s THEN NoService ELSE lock
    /\ conn' = Dropped(Of(s))
    /\ UNCHANGED <<path, waits, outside>>

Kill(s) ==
    /\ srv[s].pc \notin {"off", "failed"}
    /\ kills < MaxKills /\ kills + outside < MaxMishaps
    /\ kills' = kills + 1
    /\ Ends(s, "failed")

\* SIGINT or SIGTERM: it kills while the models are loaded, later it sets an event.
Stop(s) ==
    \/ srv[s].pc = "loading" /\ Ends(s, "off") /\ UNCHANGED kills
    \/ /\ srv[s].pc \notin {"off", "failed", "loading"}
       /\ srv' = [srv EXCEPT ![s].stop = TRUE]
       /\ UNCHANGED <<path, lock, conn, waits, kills, outside>>

Loaded(s) == At(s, "loading", "starting") /\ UNCHANGED <<path, lock, conn, waits, kills, outside>>

(***************************************************************************)
(* start(): lock, look at the path, probe what is there, bind.  Whoever    *)
(* else uses the path may change it between any two of these.              *)
(***************************************************************************)
Refused(s) == Ends(s, "failed") /\ UNCHANGED kills

\* Slip: flock() is forgotten.
LockIgnored(s) ==
    /\ lock' = s
    /\ At(s, "starting", "locked")
    /\ UNCHANGED <<path, conn, waits, kills, outside>>

Lock(s) ==
    /\ srv[s].pc = "starting"
    /\ \/ lock # NoService /\ Refused(s)
       \/ /\ lock = NoService
          /\ lock' = s
          /\ At(s, "starting", "locked")
          /\ UNCHANGED <<path, conn, waits, kills, outside>>

Answers == path = Other \/ \E t \in Services : Listening(t) /\ srv[t].sock = path

Look(s) ==
    /\ srv[s].pc = "locked"
    /\ \/ path = Plain /\ Refused(s)
       \/ /\ path # Plain
          /\ At(s, "locked", IF path = NoFile THEN "binding" ELSE "found")
          /\ UNCHANGED <<path, lock, conn, waits, kills, outside>>

\* Slip: a refused probe is an error.
ProbeFails(s) == srv[s].pc = "found" /\ Refused(s)

\* connect() is refused by a socket nobody listens on and by a plain file; it
\* is an error of start() when nothing is there any more.
Probe(s) ==
    /\ srv[s].pc = "found"
    /\ \/ (path = NoFile \/ Answers) /\ Refused(s)
       \/ /\ path # NoFile /\ ~Answers
          /\ At(s, "found", "stale")
          /\ UNCHANGED <<path, lock, conn, waits, kills, outside>>

\* unlink() takes what is there by now, and fails when nothing is.
UnlinkStale(s) ==
    /\ srv[s].pc = "stale"
    /\ \/ path = NoFile /\ Refused(s)
       \/ /\ path # NoFile
          /\ At(s, "stale", "binding")
          /\ path' = NoFile
          /\ UNCHANGED <<lock, conn, waits, kills, outside>>

\* start_unix_server() removes a socket that is in its way; one that comes
\* between this and its bind() makes it fail.
Bind(s) ==
    /\ srv[s].pc = "binding"
    /\ \/ path \in {Plain, Other} /\ Refused(s)
       \/ /\ path # Plain
          /\ \E i \in Inodes \ Used :
                /\ path' = i
                /\ srv' = [srv EXCEPT ![s].pc = "bound", ![s].sock = i]
          /\ UNCHANGED <<lock, conn, waits, kills, outside>>

Record(s) ==
    /\ srv[s].pc = "bound"
    /\ \/ path = NoFile /\ Refused(s)
       \/ /\ path # NoFile
          /\ srv' = [srv EXCEPT ![s].pc = "up", ![s].inode = path]
          /\ UNCHANGED <<path, lock, conn, waits, kills, outside>>

(***************************************************************************)
(* close(), once the stop event is set.                                    *)
(***************************************************************************)
\* Server.close() closes the socket.  From Python 3.13 on it then unlinks it:
\* it compares the inode and unlinks what is there by the time it does.
CloseServer(s) ==
    /\ srv[s].pc = "up" /\ srv[s].stop
    /\ \E to \in {"waiting", "unbinding"} :
          /\ to = "unbinding" => waits /\ path = srv[s].sock
          /\ srv' = [srv EXCEPT ![s].pc = to, ![s].sock = NoFile]
    /\ conn' = Dropped({c \in Of(s) : conn[c].pc = "backlog"})
    /\ UNCHANGED <<path, lock, waits, kills, outside>>

Unbound(s) ==
    /\ At(s, "unbinding", "waiting")
    /\ path' = NoFile
    /\ UNCHANGED <<lock, conn, waits, kills, outside>>

\* Transports that asyncio still counts.
Attached(s) ==
    {c \in Of(s) : /\ conn[c].peer \/ conn[c].pc = "accepted"
                   /\ conn[c].writer = "open" \/ conn[c].full}

Known(s) == {c \in Of(s) : conn[c].pc \notin {"backlog", "accepted"}}   \* tasks and writers

\* Slip: close() closes no writer.
WritersLeftOpen(s) == conn

ClosedWriters(s) ==
    [c \in Clients |-> IF c \in Known(s) THEN [conn[c] EXCEPT !.writer = "closing"] ELSE conn[c]]

WaitedClosed(s) ==
    /\ srv[s].pc = "waiting"
    /\ waits => Attached(s) = {}
    /\ conn' = ClosedWriters(s)
    /\ srv' = [srv EXCEPT ![s].pc = "gathering", ![s].joins = Known(s)]
    /\ UNCHANGED <<path, lock, waits, kills, outside>>

\* Slip: gather() is forgotten.
JoinedNothing(s) == TRUE

Joined(s) == srv[s].joins \intersect Of(s) = {}

\* The lock is closed, the last thing close() does.
Unlocked(s, from) == At(s, from, "finishing") /\ lock' = NoService

\* gather() returns and exists() looks at the path.
Gathered(s) ==
    /\ srv[s].pc = "gathering" /\ Joined(s)
    /\ \/ path = NoFile /\ Unlocked(s, "gathering")
       \/ path # NoFile /\ At(s, "gathering", "comparing") /\ UNCHANGED lock
    /\ UNCHANGED <<path, conn, waits, kills, outside>>

\* stat() or unlink() of a path that somebody else has emptied raises in
\* close(), which leaves the lock to the end of the process.
Raises(s, from) == path = NoFile /\ At(s, from, "failing") /\ UNCHANGED <<path, lock>>

\* Slip: the inode is not compared.
ComparedBlindly(s) ==
    /\ At(s, "comparing", "unlinking")
    /\ UNCHANGED <<path, lock, conn, waits, kills, outside>>

\* stat(): is it the socket that this service bound?
Compared(s) ==
    /\ \/ Raises(s, "comparing")
       \/ /\ path = srv[s].inode
          /\ At(s, "comparing", "unlinking") /\ UNCHANGED <<path, lock>>
       \/ /\ path \notin {NoFile, srv[s].inode}
          /\ Unlocked(s, "comparing") /\ UNCHANGED path
    /\ UNCHANGED <<conn, waits, kills, outside>>

\* unlink() goes by the name: what has come since the comparison goes too.
Unlinked(s) ==
    /\ \/ Raises(s, "unlinking")
       \/ path # NoFile /\ path' = NoFile /\ Unlocked(s, "unlinking")
    /\ UNCHANGED <<conn, waits, kills, outside>>

\* asyncio.run() ends when the tasks it had to cancel have ended.
Exit(s) ==
    /\ Of(s) = {}
    /\ \/ srv[s].pc = "finishing" /\ Ends(s, "off")
       \/ srv[s].pc = "failing" /\ Ends(s, "failed")
    /\ UNCHANGED kills

\* close() is over, and asyncio.run() ends the loop.
Over(s) == srv[s].pc \in {"finishing", "failing"}

(***************************************************************************)
(* _client(), between its awaits.                                          *)
(***************************************************************************)
Serves(c, pc) == conn[c].pc = pc /\ conn[c].at \in Services

Goes(c, pc, writer) ==
    /\ conn' = [conn EXCEPT ![c].pc = pc, ![c].writer = writer]
    /\ UNCHANGED <<path, lock, waits, kills, outside>>

Accept(c) ==
    /\ Serves(c, "backlog") /\ Listening(conn[c].at)
    /\ Goes(c, "accepted", "open") /\ UNCHANGED srv

\* A peer with another uid is left without an answer.  The test of the owner
\* and its assignment are one step, the answer comes after.
Enter(c) ==
    LET s == conn[c].at IN
    /\ Serves(c, "accepted") /\ ~Over(s)
    /\ \/ Goes(c, "leaving", "closing") /\ UNCHANGED srv
       \/ /\ Goes(c, IF srv[s].owner THEN "refusing" ELSE "greeting", "open")
          /\ srv' = [srv EXCEPT ![s].owner = TRUE]

\* Slip: a refused client frees the owner as well.
GreetedAndFreed(c) ==
    \/ Serves(c, "greeting") /\ Goes(c, "serving", conn[c].writer) /\ UNCHANGED srv
    \/ /\ Serves(c, "refusing") /\ Goes(c, "leaving", "closing")
       /\ srv' = [srv EXCEPT ![conn[c].at].owner = FALSE]

Greeted(c) ==
    /\ UNCHANGED srv
    /\ \/ Serves(c, "greeting") /\ Goes(c, "serving", conn[c].writer)
       \/ Serves(c, "refusing") /\ Goes(c, "leaving", "closing")

DrainFails(c) ==
    /\ ~conn[c].peer \/ conn[c].writer = "closing"
    /\ UNCHANGED srv
    /\ \/ Serves(c, "greeting") /\ Goes(c, "closing", "closing")
       \/ Serves(c, "refusing") /\ Goes(c, "leaving", "closing")

\* The client does not read: an emit() gives up after two seconds, in the
\* connection's task or in a worker of its session.
TimesOut(c) ==
    /\ Serves(c, "serving") /\ conn[c].peer /\ conn[c].writer = "open"
    /\ \E pc \in {"serving", "closing"} :
          conn' = [conn EXCEPT ![c].pc = pc, ![c].writer = "closing", ![c].full = TRUE]
    /\ UNCHANGED <<path, lock, srv, waits, kills, outside>>

Eof(c) ==
    /\ Serves(c, "serving")
    /\ ~conn[c].peer \/ (conn[c].writer = "closing" /\ ~conn[c].full)
    /\ Goes(c, "closing", conn[c].writer) /\ UNCHANGED srv

TooLong(c) ==
    /\ Serves(c, "serving") /\ conn[c].peer
    /\ Goes(c, "closing", conn[c].writer) /\ UNCHANGED srv

Flushed(c) == ~conn[c].peer \/ ~conn[c].full

\* Slip: the flag is reset after wait_closed().
OwnedUntilFlushed(c) ==
    /\ Serves(c, "closing") /\ Flushed(c)
    /\ srv' = [srv EXCEPT ![conn[c].at].owner = FALSE]
    /\ Goes(c, "leaving", "closing")

\* session.close() has returned.
Disowned(c) ==
    /\ Serves(c, "closing")
    /\ srv' = [srv EXCEPT ![conn[c].at].owner = FALSE]
    /\ Goes(c, "leaving", "closing")

Departed(c) ==
    /\ Serves(c, "leaving") /\ Flushed(c)
    /\ conn' = Dropped({c})
    /\ UNCHANGED <<path, lock, srv, waits, kills, outside>>

\* asyncio.run() cancels what is left.
Cancelled(c) ==
    /\ conn[c].at \in Services /\ Over(conn[c].at)
    /\ UNCHANGED srv
    /\ \/ conn[c].pc \in {"greeting", "serving"} /\ Goes(c, "closing", conn[c].writer)
       \/ /\ conn[c].pc \in {"accepted", "refusing", "leaving"}
          /\ conn' = Dropped({c})
          /\ UNCHANGED <<path, lock, waits, kills, outside>>

(***************************************************************************)
(* The clients and everybody else.                                         *)
(***************************************************************************)
Connect(c) ==
    /\ conn[c].pc = "none"
    /\ \E s \in Services :
          /\ Listening(s) /\ srv[s].sock = path
          /\ conn' = [conn EXCEPT ![c] = [NoConnection EXCEPT !.at = s, !.pc = "backlog", !.peer = TRUE]]
    /\ UNCHANGED <<path, lock, srv, waits, kills, outside>>

Leave(c) ==
    /\ conn[c].peer
    /\ conn' = [conn EXCEPT ![c].peer = FALSE]
    /\ UNCHANGED <<path, lock, srv, waits, kills, outside>>

Read(c) ==
    /\ conn[c].full
    /\ conn' = [conn EXCEPT ![c].full = FALSE]
    /\ UNCHANGED <<path, lock, srv, waits, kills, outside>>

\* The user or another program removes or replaces what is at the path.
Outside ==
    /\ outside < MaxOutside /\ kills + outside < MaxMishaps
    /\ outside' = outside + 1
    /\ path' \in {NoFile, Plain, Other} \ {path}
    /\ UNCHANGED <<lock, srv, conn, waits, kills>>

ServiceStep(s) ==
    \/ Loaded(s) \/ Lock(s) \/ Look(s) \/ Probe(s) \/ UnlinkStale(s) \/ Bind(s) \/ Record(s)
    \/ CloseServer(s) \/ Unbound(s) \/ WaitedClosed(s) \/ Gathered(s) \/ Compared(s)
    \/ Unlinked(s) \/ Exit(s)

ClientTask(c) ==
    Accept(c) \/ Enter(c) \/ Greeted(c) \/ DrainFails(c) \/ Eof(c) \/ Disowned(c)
    \/ Departed(c) \/ Cancelled(c)

Next ==
    \/ \E s \in Services : Launch(s) \/ Kill(s) \/ Stop(s) \/ ServiceStep(s)
    \/ \E c \in Clients : ClientTask(c) \/ TimesOut(c) \/ TooLong(c)
                          \/ Connect(c) \/ Leave(c) \/ Read(c)
    \/ Outside

Spec == Init /\ [][Next]_vars

\* The event loop runs what can run, and systemd restarts what failed
\* (Restart=on-failure).  Nothing is assumed of clients.
FairSpec ==
    /\ Spec
    /\ \A s \in Services : WF_vars(ServiceStep(s))
    /\ \A s \in Managed : WF_vars(srv[s].pc = "failed" /\ Launch(s))
    /\ \A c \in Clients : WF_vars(ClientTask(c))

(***************************************************************************)
(* Properties.                                                             *)
(***************************************************************************)
\* One client owns a service, from the test of the flag until session.close()
\* has returned, and the flag says so: a connection that was refused, times
\* out or is cancelled neither takes nor frees the place of another.
OneOwner ==
    \A s \in Services :
        LET owners == {c \in Of(s) : conn[c].pc \in {"greeting", "serving", "closing"}} IN
        /\ Cardinality(owners) <= 1
        /\ srv[s].owner <=> owners # {}

\* However services are started, stopped and killed, one that is up is found
\* at the path and knows its inode, unless somebody else touched the path.
Reachable ==
    \A s \in Services :
        srv[s].pc = "up" /\ outside = 0 => path = srv[s].sock /\ path = srv[s].inode

\* When a service that was told to stop gives up its lock no session of it is
\* left (on an asyncio whose wait_closed() waits), nor its socket.
CleanExit ==
    \A s \in Services :
        srv[s].pc = "finishing" =>
            /\ waits => Of(s) = {}
            /\ outside = 0 => path # srv[s].inode

\* From one service to the next: the path leads to the one that is up, and
\* one that ends leaves neither sessions nor its socket to the next.
HandOver == Reachable /\ CleanExit

\* Between what a service learns about the path and what it does there.
Window == {"stale", "binding", "bound", "unbinding", "unlinking"}

\* The socket of another program is at the path while no service is in that
\* window; none took it for its own when it started.
Undisturbed == path = Other /\ \A s \in Services : srv[s].pc \notin Window /\ srv[s].inode # Other

\* So it stays: whatever services do from then on, started, stopped or killed
\* in any order, none removes the socket of the other program nor comes to
\* where it would.  One that comes inside the window is unlinked (README,
\* Disagreements).
OthersSocketKept == [][Undisturbed /\ outside' = outside => Undisturbed']_vars

\* session.close() is followed by the end of the ownership even when the client
\* neither reads nor leaves: the flag does not wait for the writer.
OwnershipEnds ==
    \A s \in Services, c \in Clients :
        (conn[c].at = s /\ conn[c].pc = "closing") ~> ~srv[s].owner

\* A client that left is forgotten, wherever its connection was.
GoneForgotten ==
    \A c \in Clients : (conn[c].at # NoService /\ ~conn[c].peer) ~> conn[c].peer \/ conn[c].at = NoService

\* A client that holds a service up: one that does not read or, where
\* wait_closed() waits, one that stays.
Held(s) == \E c \in Of(s) : conn[c].peer /\ (waits \/ conn[c].full)

\* A service that was killed or refused is replaced, also over a stale socket,
\* unless it is stopped, the path is taken by something else, or another
\* service is held up while it closes.
TakenOver ==
    \A s \in Managed :
        srv[s].pc = "failed" ~>
            \/ \E t \in Services : srv[t].pc = "up"
            \/ srv[s].pc = "off"
            \/ path \in {Plain, Other}
            \/ \E t \in Services : srv[t].pc \in {"waiting", "gathering"} /\ Held(t)

\* A stopped service ends once no client holds it up.
StopEnds ==
    \A s \in Services :
        <>[](~Held(s)) => ((srv[s].pc = "up" /\ srv[s].stop) ~> srv[s].pc \in {"off", "failed"})

\* A stop ends the service normally and cleans up its socket, as the
\* validation report says of the user service, at least when its clients read.  The
\* code does not keep this (README, Disagreements).
StopCleans ==
    \A s \in Services : [](\A c \in Clients : ~conn[c].full) =>
        (srv[s].pc = "up" /\ srv[s].stop) ~> srv[s].pc \in {"off", "failed"}

=============================================================================
