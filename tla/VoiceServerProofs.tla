-------------------------- MODULE VoiceServerProofs --------------------------
(***************************************************************************)
(* Proofs about VoiceServer: its types, with the exclusive lock, and the   *)
(* one owner of each service, for any number of services and clients.      *)
(***************************************************************************)
EXTENDS VoiceServer, TLAPS, FiniteSetTheorems

(***************************************************************************)
(* The parts of the state                                                  *)
(***************************************************************************)
SrvType == srv \in [Services -> ServiceRecord]
ConnType == conn \in [Clients -> Connection]
PathType == path \in Inodes \union {NoFile, Plain, Other}
LockType == lock \in Services \union {NoService}
CountType == waits \in BOOLEAN /\ kills \in 0 .. MaxKills /\ outside \in 0 .. MaxOutside
LockHeld == \A s \in Services : lock = s <=> srv[s].pc \in Locked

LEMMA TypeParts ==
    TypeOK <=> SrvType /\ ConnType /\ PathType /\ LockType /\ CountType /\ LockHeld
BY DEF TypeOK, SrvType, ConnType, PathType, LockType, CountType, LockHeld

LEMMA TypePartsNext ==
    TypeOK' <=> SrvType' /\ ConnType' /\ PathType' /\ LockType' /\ CountType' /\ LockHeld'
BY SMTT(40) DEF TypeOK, SrvType, ConnType, PathType, LockType, CountType, LockHeld

\* The places of a service process and of a connection.
SrvPlaces == {"off", "failed", "loading", "starting", "locked", "found", "stale", "binding",
              "bound", "up", "unbinding", "waiting", "gathering", "comparing", "unlinking",
              "finishing", "failing"}
ConnPlaces == {"none", "backlog", "accepted", "refusing", "greeting", "serving", "closing",
               "leaving"}

LEMMA RecordFacts ==
    ASSUME NEW r \in ServiceRecord
    PROVE  /\ \A x \in SrvPlaces : [r EXCEPT !.pc = x] \in ServiceRecord
           /\ \A x \in BOOLEAN : [r EXCEPT !.stop = x] \in ServiceRecord
           /\ \A x \in BOOLEAN : [r EXCEPT !.owner = x] \in ServiceRecord
           /\ \A x \in SrvPlaces, i \in Inodes \union {NoFile} :
                 [r EXCEPT !.pc = x, !.sock = i] \in ServiceRecord
           /\ \A x \in SrvPlaces, i \in Inodes \union {NoFile, Plain, Other} :
                 [r EXCEPT !.pc = x, !.inode = i] \in ServiceRecord
           /\ \A x \in SrvPlaces, j \in SUBSET Clients :
                 [r EXCEPT !.pc = x, !.joins = j] \in ServiceRecord
           /\ r.owner \in BOOLEAN /\ r.pc \in SrvPlaces
BY ZenonT(60) DEF ServiceRecord, SrvPlaces

LEMMA ProcessType ==
    ASSUME NEW x \in SrvPlaces
    PROVE  Process(x) \in ServiceRecord /\ Process(x).pc = x /\ Process(x).owner = FALSE
BY DEF Process, ServiceRecord, SrvPlaces

LEMMA ConnectionFacts ==
    /\ NoConnection \in Connection
    /\ \A s \in Services : [NoConnection EXCEPT !.at = s, !.pc = "backlog", !.peer = TRUE] \in Connection
    /\ \A k \in Connection :
         /\ \A x \in ConnPlaces, w \in {"open", "closing"} :
              [k EXCEPT !.pc = x, !.writer = w] \in Connection
         /\ \A x \in ConnPlaces :
              [k EXCEPT !.pc = x, !.writer = "closing", !.full = TRUE] \in Connection
         /\ [k EXCEPT !.writer = "closing"] \in Connection
         /\ [k EXCEPT !.peer = FALSE] \in Connection
         /\ [k EXCEPT !.full = FALSE] \in Connection
         /\ k.writer \in {"open", "closing"} /\ k.at \in Services \union {NoService}
BY ZenonT(60) DEF NoConnection, Connection, ConnPlaces

LEMMA DroppedType ==
    ASSUME ConnType, NEW lost
    PROVE  Dropped(lost) \in [Clients -> Connection]
BY ConnectionFacts DEF ConnType, Dropped

(***************************************************************************)
(* Services                                                                *)
(***************************************************************************)

\* A step that moves one process, and takes or gives up the lock accordingly.
LEMMA MoveKeeps ==
    ASSUME TypeOK, NEW s \in Services, NEW r \in ServiceRecord,
           srv' = [srv EXCEPT ![s] = r],
           \/ lock' = lock /\ (r.pc \in Locked <=> srv[s].pc \in Locked)
           \/ lock = NoService /\ lock' = s /\ r.pc \in Locked
           \/ lock = s /\ lock' = NoService /\ r.pc \notin Locked
    PROVE  SrvType' /\ LockType' /\ LockHeld'
<1> USE TypeParts DEF SrvType, LockType, LockHeld
<1>1. SrvType' /\ LockType'
  BY ServerAssumption
<1>2. LockHeld'
  BY ServerAssumption
<1> QED
  BY <1>1, <1>2

LEMMA EndsKeeps ==
    ASSUME TypeOK, NEW s \in Services, NEW how \in {"off", "failed"}, Ends(s, how)
    PROVE  SrvType' /\ LockType' /\ LockHeld' /\ ConnType' /\ PathType'
<1>1. Process(how) \in ServiceRecord /\ Process(how).pc = how
  BY ProcessType DEF SrvPlaces
<1>2. srv' = [srv EXCEPT ![s] = Process(how)] /\ how \notin Locked
  BY DEF Ends, Locked
<1>3. (lock' = lock /\ srv[s].pc \notin Locked) \/ (lock = s /\ lock' = NoService)
  BY TypeParts DEF Ends, LockHeld
<1>4. SrvType' /\ LockType' /\ LockHeld'
  BY <1>1, <1>2, <1>3, MoveKeeps
<1>5. ConnType' /\ PathType'
  BY TypeParts, DroppedType DEF Ends, ConnType, PathType
<1> QED
  BY <1>4, <1>5

\* A process moves and everything else but the lock is left.
LEMMA AtKeeps ==
    ASSUME TypeOK, NEW s \in Services, NEW from \in SrvPlaces, NEW to \in SrvPlaces,
           At(s, from, to),
           \/ lock' = lock /\ (to \in Locked <=> from \in Locked)
           \/ lock = NoService /\ lock' = s /\ to \in Locked
           \/ lock = s /\ lock' = NoService /\ to \notin Locked
    PROVE  SrvType' /\ LockType' /\ LockHeld'
<1> DEFINE r == [srv[s] EXCEPT !.pc = to]
<1>1. srv[s] \in ServiceRecord /\ srv[s].pc = from /\ srv' = [srv EXCEPT ![s] = r]
  BY TypeParts DEF SrvType, At
<1>2. r \in ServiceRecord
  BY <1>1, RecordFacts
<1>3. r.pc = to
  BY <1>1 DEF ServiceRecord
<1> HIDE DEF r
<1> QED
  BY <1>1, <1>2, <1>3, MoveKeeps

LEMMA ServiceKeeps ==
    ASSUME TypeOK, NEW s \in Services,
           Launch(s) \/ Kill(s) \/ Stop(s) \/ ServiceStep(s)
    PROVE  TypeOK'
<1> USE TypeParts, TypePartsNext
<1>0. srv[s] \in ServiceRecord /\ srv[s].pc \in SrvPlaces
  BY RecordFacts DEF SrvType
<1>1. CASE Launch(s)
  <2>1. Process("loading") \in ServiceRecord /\ Process("loading").pc = "loading"
    BY ProcessType DEF SrvPlaces
  <2>2. SrvType' /\ LockType' /\ LockHeld'
    BY <1>1, <2>1, MoveKeeps DEF Launch, Locked
  <2> QED
    BY <1>1, <2>2 DEF Launch, ConnType, PathType, CountType
<1>2. CASE Kill(s)
  <2>1. SrvType' /\ LockType' /\ LockHeld' /\ ConnType' /\ PathType'
    BY <1>2, EndsKeeps DEF Kill
  <2>2. kills' \in 0 .. MaxKills
    BY <1>2, ServerAssumption DEF Kill, CountType
  <2>3. waits' = waits /\ outside' = outside
    BY <1>2 DEF Kill, Ends
  <2> QED
    BY <2>1, <2>2, <2>3 DEF CountType
<1>3. CASE Stop(s)
  <2>1. CASE Ends(s, "off") /\ UNCHANGED kills
    BY <2>1, EndsKeeps DEF Ends, CountType
  <2>2. CASE /\ srv[s].pc \notin {"off", "failed", "loading"}
             /\ srv' = [srv EXCEPT ![s].stop = TRUE]
             /\ UNCHANGED <<path, lock, conn, waits, kills, outside>>
    <3> DEFINE r == [srv[s] EXCEPT !.stop = TRUE]
    <3>1. r \in ServiceRecord
      BY <1>0, RecordFacts
    <3>2. srv' = [srv EXCEPT ![s] = r]
      BY <2>2
    <3>3. r.pc = srv[s].pc
      BY <1>0, <3>1 DEF ServiceRecord
    <3> HIDE DEF r
    <3>4. SrvType' /\ LockType' /\ LockHeld'
      BY <2>2, <3>1, <3>2, <3>3, MoveKeeps
    <3> QED
      BY <2>2, <3>4 DEF ConnType, PathType, CountType
  <2> QED
    BY <1>3, <2>1, <2>2 DEF Stop
<1>4. ASSUME Refused(s)
      PROVE  TypeOK'
  BY <1>4, EndsKeeps DEF Refused, Ends, CountType
<1>5. CASE Loaded(s)
  <2>1. SrvType' /\ LockType' /\ LockHeld'
    BY <1>5, AtKeeps DEF Loaded, Locked, SrvPlaces
  <2> QED
    BY <1>5, <2>1 DEF Loaded, ConnType, PathType, CountType
<1>6. CASE Lock(s)
  <2>1. CASE /\ lock = NoService /\ lock' = s /\ At(s, "starting", "locked")
             /\ UNCHANGED <<path, conn, waits, kills, outside>>
    <3>1. SrvType' /\ LockType' /\ LockHeld'
      BY <2>1, AtKeeps DEF Locked, SrvPlaces
    <3> QED
      BY <2>1, <3>1 DEF ConnType, PathType, CountType
  <2> QED
    BY <1>4, <1>6, <2>1 DEF Lock
<1>7. CASE Look(s) \/ Probe(s) \/ UnlinkStale(s)
  <2>1. ASSUME NEW from \in {"locked", "found", "stale"},
               NEW to \in {"found", "stale", "binding"}, At(s, from, to),
               path' \in {path, NoFile}, UNCHANGED <<lock, conn, waits, kills, outside>>
        PROVE  TypeOK'
    <3>1. SrvType' /\ LockType' /\ LockHeld'
      BY <2>1, AtKeeps DEF Locked, SrvPlaces
    <3> QED
      BY <2>1, <3>1 DEF ConnType, PathType, CountType
  <2> QED
    BY <1>4, <1>7, <2>1 DEF Look, Probe, UnlinkStale
<1>9. CASE Bind(s)
  <2>1. ASSUME NEW i \in Inodes, path' = i, srv[s].pc = "binding",
               srv' = [srv EXCEPT ![s].pc = "bound", ![s].sock = i],
               UNCHANGED <<lock, conn, waits, kills, outside>>
        PROVE  TypeOK'
    <3> DEFINE r == [srv[s] EXCEPT !.pc = "bound", !.sock = i]
    <3>1. r \in ServiceRecord
      BY <1>0, RecordFacts DEF SrvPlaces
    <3>2. r.pc = "bound" /\ srv' = [srv EXCEPT ![s] = r]
      BY <1>0, <2>1 DEF SrvType, ServiceRecord
    <3> HIDE DEF r
    <3>3. SrvType' /\ LockType' /\ LockHeld'
      BY <2>1, <3>1, <3>2, MoveKeeps DEF Locked
    <3> QED
      BY <2>1, <3>3, SMTT(40) DEF ConnType, PathType, CountType
  <2> QED
    BY <1>4, <1>9, <2>1 DEF Bind
<1>10. CASE Record(s)
  <2>1. ASSUME srv[s].pc = "bound", srv' = [srv EXCEPT ![s].pc = "up", ![s].inode = path],
               UNCHANGED <<path, lock, conn, waits, kills, outside>>
        PROVE  TypeOK'
    <3> DEFINE r == [srv[s] EXCEPT !.pc = "up", !.inode = path]
    <3>1. r \in ServiceRecord
      BY <1>0, RecordFacts DEF SrvPlaces, PathType
    <3>2. r.pc = "up" /\ srv' = [srv EXCEPT ![s] = r]
      BY <1>0, <2>1 DEF SrvType, ServiceRecord
    <3> HIDE DEF r
    <3>3. SrvType' /\ LockType' /\ LockHeld'
      BY <2>1, <3>1, <3>2, MoveKeeps DEF Locked
    <3> QED
      BY <2>1, <3>3, SMTT(40) DEF ConnType, PathType, CountType
  <2> QED
    BY <1>4, <1>10, <2>1 DEF Record
<1>11. CASE CloseServer(s)
  <2>0. PICK to \in {"waiting", "unbinding"} :
            srv' = [srv EXCEPT ![s].pc = to, ![s].sock = NoFile]
    BY <1>11 DEF CloseServer
  <2> DEFINE r == [srv[s] EXCEPT !.pc = to, !.sock = NoFile]
  <2>1. r \in ServiceRecord
    BY <1>0, RecordFacts DEF SrvPlaces
  <2>2. r.pc = to /\ srv' = [srv EXCEPT ![s] = r]
    BY <1>0, <2>0 DEF SrvType, ServiceRecord
  <2> HIDE DEF r
  <2>3. SrvType' /\ LockType' /\ LockHeld'
    BY <1>11, <2>1, <2>2, MoveKeeps DEF CloseServer, Locked
  <2>4. ConnType' /\ PathType'
    BY <1>11, DroppedType DEF CloseServer, ConnType, PathType
  <2> QED
    BY <1>11, <2>3, <2>4, SMTT(40) DEF CloseServer, CountType
<1>12. CASE WaitedClosed(s)
  <2> DEFINE r == [srv[s] EXCEPT !.pc = "gathering", !.joins = Known(s)]
  <2>1. r \in ServiceRecord
    BY <1>0, RecordFacts DEF SrvPlaces, Known, Of
  <2>2. r.pc = "gathering" /\ srv' = [srv EXCEPT ![s] = r]
    BY <1>0, <1>12 DEF SrvType, ServiceRecord, WaitedClosed
  <2> HIDE DEF r
  <2>3. SrvType' /\ LockType' /\ LockHeld'
    BY <1>12, <2>1, <2>2, MoveKeeps DEF WaitedClosed, Locked
  <2>4. ConnType'
    BY <1>12, ConnectionFacts DEF WaitedClosed, ClosedWriters, ConnType
  <2> QED
    BY <1>12, <2>3, <2>4, SMTT(40) DEF WaitedClosed, PathType, CountType
<1>13. CASE Unbound(s) \/ Gathered(s) \/ Compared(s) \/ Unlinked(s)
  <2>1. ASSUME NEW from \in {"unbinding", "gathering", "comparing", "unlinking"},
               NEW to \in {"waiting", "comparing", "unlinking", "finishing", "failing"},
               At(s, from, to), IF to = "finishing" THEN lock' = NoService ELSE UNCHANGED lock,
               path' \in {path, NoFile}, UNCHANGED <<conn, waits, kills, outside>>
        PROVE  TypeOK'
    <3>1. lock = s
      BY <2>1 DEF At, LockHeld, Locked
    <3>2. SrvType' /\ LockType' /\ LockHeld'
      BY <2>1, <3>1, AtKeeps DEF Locked, SrvPlaces
    <3> QED
      BY <2>1, <3>2 DEF ConnType, PathType, CountType
  <2>2. CASE Unbound(s) \/ Gathered(s)
    BY <2>1, <2>2 DEF Unbound, Gathered, Unlocked
  <2>3. CASE Compared(s) \/ Unlinked(s)
    BY <2>1, <2>3 DEF Compared, Unlinked, Unlocked, Raises
  <2> QED
    BY <1>13, <2>2, <2>3
<1>14. CASE Exit(s)
  BY <1>14, EndsKeeps DEF Exit, Ends, CountType
<1> QED
  BY <1>1, <1>2, <1>3, <1>5, <1>6, <1>7, <1>9, <1>10, <1>11, <1>12, <1>13, <1>14, SMTT(40)
  DEF ServiceStep

(***************************************************************************)
(* Connections                                                             *)
(***************************************************************************)

ClientStep(c) == ClientTask(c) \/ TimesOut(c) \/ TooLong(c) \/ Connect(c) \/ Leave(c) \/ Read(c)

\* A connection moves, or is forgotten, and nothing else but an owner flag
\* changes.
LEMMA ConnKeeps ==
    ASSUME TypeOK, conn' \in [Clients -> Connection],
           UNCHANGED <<path, lock, waits, kills, outside>>,
           \/ UNCHANGED srv
           \/ \E s \in Services, x \in BOOLEAN : srv' = [srv EXCEPT ![s].owner = x]
    PROVE  TypeOK'
<1> USE TypeParts, TypePartsNext
<1>1. ConnType' /\ PathType' /\ CountType'
  BY DEF ConnType, PathType, CountType
<1>2. CASE UNCHANGED srv
  BY <1>1, <1>2 DEF SrvType, LockType, LockHeld
<1>3. ASSUME NEW s \in Services, NEW x \in BOOLEAN, srv' = [srv EXCEPT ![s].owner = x]
      PROVE  TypeOK'
  <2> DEFINE r == [srv[s] EXCEPT !.owner = x]
  <2>0. srv[s] \in ServiceRecord
    BY SMTT(40) DEF SrvType
  <2>1. r \in ServiceRecord
    BY <2>0, RecordFacts
  <2>2. srv' = [srv EXCEPT ![s] = r]
    BY <1>3
  <2>3. r.pc = srv[s].pc
    BY <2>0 DEF ServiceRecord
  <2> HIDE DEF r
  <2>4. SrvType' /\ LockType' /\ LockHeld'
    BY <2>1, <2>2, <2>3, MoveKeeps
  <2> QED
    BY <1>1, <2>4
<1> QED
  BY <1>2, <1>3

LEMMA GoesType ==
    ASSUME ConnType, NEW c \in Clients, NEW x \in ConnPlaces, NEW w \in {"open", "closing"},
           Goes(c, x, w)
    PROVE  conn' \in [Clients -> Connection] /\ UNCHANGED <<path, lock, waits, kills, outside>>
<1> DEFINE k == [conn[c] EXCEPT !.pc = x, !.writer = w]
<1>1. k \in Connection
  BY ConnectionFacts DEF ConnType
<1>2. conn' = [conn EXCEPT ![c] = k]
  BY DEF Goes
<1> HIDE DEF k
<1> QED
  BY <1>1, <1>2 DEF ConnType, Goes

LEMMA ClientKeeps ==
    ASSUME TypeOK, NEW c \in Clients, ClientStep(c)
    PROVE  TypeOK'
<1>0. ConnType /\ conn[c] \in Connection /\ conn[c].writer \in {"open", "closing"}
  BY TypeParts, ConnectionFacts DEF ConnType
<1>1. CASE /\ \E x \in ConnPlaces, w \in {"open", "closing"} : Goes(c, x, w)
           /\ \/ UNCHANGED srv
              \/ \E s \in Services, x \in BOOLEAN : srv' = [srv EXCEPT ![s].owner = x]
  BY <1>0, <1>1, GoesType, ConnKeeps
<1>2. CASE Accept(c) \/ Greeted(c) \/ DrainFails(c) \/ Eof(c) \/ TooLong(c)
  <2>1. UNCHANGED srv /\ \E x \in ConnPlaces, w \in {"open", "closing"} : Goes(c, x, w)
    BY <1>0, <1>2 DEF Accept, Greeted, DrainFails, Eof, TooLong, ConnPlaces
  <2> QED
    BY <1>1, <2>1
<1>3. CASE Enter(c) \/ Disowned(c)
  <2>1. \/ UNCHANGED srv
        \/ /\ conn[c].at \in Services
           /\ \E x \in BOOLEAN : srv' = [srv EXCEPT ![conn[c].at].owner = x]
    BY <1>3 DEF Enter, Disowned, Serves
  <2>2. \E x \in ConnPlaces, w \in {"open", "closing"} : Goes(c, x, w)
    BY <1>0, <1>3 DEF Enter, Disowned, ConnPlaces
  <2> QED
    BY <1>1, <2>1, <2>2
<1>4. ASSUME conn' = Dropped({c}), UNCHANGED <<path, lock, srv, waits, kills, outside>>
      PROVE  TypeOK'
  BY <1>0, <1>4, DroppedType, ConnKeeps
<1>5. CASE Departed(c) \/ Cancelled(c)
  <2>1. \/ conn' = Dropped({c}) /\ UNCHANGED <<path, lock, srv, waits, kills, outside>>
        \/ UNCHANGED srv /\ Goes(c, "closing", conn[c].writer)
    BY <1>5 DEF Departed, Cancelled
  <2> QED
    BY <1>0, <1>1, <1>4, <2>1 DEF ConnPlaces
<1>6. ASSUME NEW k \in Connection, conn' = [conn EXCEPT ![c] = k],
             UNCHANGED <<path, lock, srv, waits, kills, outside>>
      PROVE  TypeOK'
  BY <1>0, <1>6, ConnKeeps DEF ConnType
<1>7. CASE TimesOut(c)
  <2>1. PICK x \in {"serving", "closing"} :
            conn' = [conn EXCEPT ![c].pc = x, ![c].writer = "closing", ![c].full = TRUE]
    BY <1>7 DEF TimesOut
  <2>2. [conn[c] EXCEPT !.pc = x, !.writer = "closing", !.full = TRUE] \in Connection
    BY <1>0, ConnectionFacts DEF ConnPlaces
  <2>3. conn' = [conn EXCEPT ![c] = [conn[c] EXCEPT !.pc = x, !.writer = "closing", !.full = TRUE]]
    BY <2>1
  <2> QED
    BY <1>6, <1>7, <2>2, <2>3 DEF TimesOut
<1>8. CASE Connect(c)
  <2>1. PICK s \in Services :
            conn' = [conn EXCEPT ![c] =
                        [NoConnection EXCEPT !.at = s, !.pc = "backlog", !.peer = TRUE]]
    BY <1>8 DEF Connect
  <2> QED
    BY <1>6, <1>8, <2>1, ConnectionFacts DEF Connect
<1>9. CASE Leave(c)
  <2>1. conn' = [conn EXCEPT ![c] = [conn[c] EXCEPT !.peer = FALSE]]
    BY <1>9, SMTT(40) DEF Leave
  <2> QED
    BY <1>0, <1>6, <1>9, <2>1, ConnectionFacts DEF Leave
<1>10. CASE Read(c)
  <2>1. conn' = [conn EXCEPT ![c] = [conn[c] EXCEPT !.full = FALSE]]
    BY <1>10 DEF Read
  <2> QED
    BY <1>0, <1>6, <1>10, <2>1, ConnectionFacts DEF Read
<1> QED
  BY <1>2, <1>3, <1>5, <1>7, <1>8, <1>9, <1>10 DEF ClientStep, ClientTask

LEMMA OutsideKeeps ==
    ASSUME TypeOK, Outside
    PROVE  TypeOK'
<1> USE TypeParts, TypePartsNext
<1>1. outside' \in 0 .. MaxOutside
  BY ServerAssumption DEF Outside, CountType
<1>2. PathType' /\ ConnType' /\ SrvType' /\ LockType' /\ LockHeld'
  BY DEF Outside, PathType, ConnType, SrvType, LockType, LockHeld
<1>3. waits' = waits /\ kills' = kills
  BY DEF Outside
<1> QED
  BY <1>1, <1>2, <1>3 DEF CountType

LEMMA InitType == Init => TypeOK
<1> SUFFICES ASSUME Init PROVE TypeOK
  OBVIOUS
<1> USE ServerAssumption DEF Init
<1>1. path \in Inodes \union {NoFile, Plain, Other}
  <2>1. Cardinality(Services) \in Nat
    BY FS_CardinalityType
  <2>2. 1 \in Inodes
    BY <2>1 DEF Inodes
  <2> QED
    BY <2>2
<1>2. SrvType
  BY ProcessType DEF SrvType, SrvPlaces
<1>3. LockHeld
  <2>1. Process("off").pc = "off"
    BY ProcessType DEF SrvPlaces
  <2> QED
    BY <2>1 DEF LockHeld, Locked
<1>4. CountType
  BY SMTT(40) DEF CountType
<1>5. ConnType
  BY ConnectionFacts DEF ConnType
<1> QED
  BY <1>1, <1>2, <1>3, <1>4, <1>5, TypeParts DEF PathType, LockType

LEMMA NextType == TypeOK /\ [Next]_vars => TypeOK'
<1> SUFFICES ASSUME TypeOK, [Next]_vars PROVE TypeOK'
  OBVIOUS
<1>1. CASE UNCHANGED vars
  BY <1>1, TypeParts, TypePartsNext
  DEF vars, SrvType, ConnType, PathType, LockType, CountType, LockHeld
<1>2. ASSUME NEW s \in Services, Launch(s) \/ Kill(s) \/ Stop(s) \/ ServiceStep(s)
      PROVE  TypeOK'
  BY <1>2, ServiceKeeps
<1>3. ASSUME NEW c \in Clients, ClientStep(c)
      PROVE  TypeOK'
  BY <1>3, ClientKeeps
<1> QED
  BY <1>1, <1>2, <1>3, OutsideKeeps DEF Next, ClientStep

\* Every state is well formed; above all the lock is held by a service
\* exactly from flock() to the end of close() (server.py:45-65, 150-162), so at
\* most one service is between the two.
THEOREM TypeCorrect == Spec => []TypeOK
BY InitType, NextType, PTL DEF Spec

(***************************************************************************)
(* One owner                                                               *)
(***************************************************************************)

Owning == {"greeting", "serving", "closing"}

Owns(c, s) == conn[c].at = s /\ conn[c].pc \in Owning

\* The flag says whether somebody owns a service, and nobody shares it.
Alone ==
    \A s \in Services :
        /\ srv[s].owner <=> \E c \in Clients : Owns(c, s)
        /\ \A c, d \in Clients : Owns(c, s) /\ Owns(d, s) => c = d

\* A process that does not run has no connections.
Served ==
    \A c \in Clients : \A s \in Services :
        conn[c].at = s => srv[s].pc \notin {"off", "failed"}

LEMMA AloneSuffices ==
    ASSUME Alone
    PROVE  OneOwner
<1> SUFFICES ASSUME NEW s \in Services
             PROVE  LET owners == {c \in Of(s) : conn[c].pc \in {"greeting", "serving", "closing"}}
                    IN  Cardinality(owners) <= 1 /\ (srv[s].owner <=> owners # {})
  BY DEF OneOwner
<1> DEFINE owners == {c \in Of(s) : conn[c].pc \in {"greeting", "serving", "closing"}}
<1>1. \A c : c \in owners <=> c \in Clients /\ Owns(c, s)
  BY DEF Of, Owns, Owning
<1>2. srv[s].owner <=> owners # {}
  BY <1>1 DEF Alone
<1>3. CASE owners = {}
  <2>1. Cardinality(owners) = 0
    BY <1>3, FS_EmptySet
  <2> QED
    BY <1>2, <2>1
<1>4. CASE owners # {}
  <2>1. PICK c : c \in owners
    BY <1>4
  <2>2. owners = {c}
    BY <1>1, <2>1 DEF Alone
  <2>3. Cardinality(owners) = 1
    BY <2>2, FS_Singleton
  <2> QED
    BY <1>2, <2>3
<1> QED
  BY <1>3, <1>4

\* Neither an owner nor a flag changes.
LEMMA SameOwners ==
    ASSUME Alone,
           \A s \in Services : srv'[s].owner = srv[s].owner,
           \A s \in Services, c \in Clients : Owns(c, s)' <=> Owns(c, s)
    PROVE  Alone'
BY DEF Alone

\* The same, of one service and of all the others.
LEMMA SameOwnersOf ==
    ASSUME Alone, NEW s \in Services, srv'[s].owner <=> srv[s].owner,
           \A t \in Services \ {s} : srv'[t] = srv[t],
           \A c \in Clients : Owns(c, s)' <=> Owns(c, s),
           \A t \in Services \ {s}, c \in Clients : Owns(c, t)' <=> Owns(c, t)
    PROVE  Alone'
BY DEF Alone

\* A service that ends, and one that is launched, has no owner.
LEMMA Freed ==
    ASSUME Alone, NEW s \in Services, srv'[s].owner = FALSE,
           \A t \in Services \ {s} : srv'[t].owner = srv[t].owner,
           \A c \in Clients : ~Owns(c, s)',
           \A t \in Services \ {s}, c \in Clients : Owns(c, t)' <=> Owns(c, t)
    PROVE  Alone'
BY DEF Alone

LEMMA DroppedOwners ==
    ASSUME NEW lost, conn' = Dropped(lost), NEW c \in Clients
    PROVE  /\ c \notin lost => conn'[c] = conn[c]
           /\ c \in lost => conn'[c].at = NoService /\ conn'[c].pc = "none"
BY DEF Dropped, NoConnection

LEMMA EndsAlone ==
    ASSUME TypeOK, Alone, Served, NEW s \in Services, NEW how \in {"off", "failed"},
           Ends(s, how)
    PROVE  Alone' /\ Served'
<1>1. srv' = [srv EXCEPT ![s] = Process(how)] /\ conn' = Dropped(Of(s)) /\ SrvType
  BY TypeParts DEF Ends
<1>2. \A t \in Services \ {s} : srv'[t] = srv[t]
  BY <1>1 DEF SrvType
<1>3. srv'[s].owner = FALSE
  BY <1>1, ProcessType DEF SrvType, SrvPlaces
<1>4. \A c \in Clients : conn[c].at = s <=> c \in Of(s)
  BY DEF Of
<1>5. \A c \in Clients : conn'[c].at # s
  BY <1>1, <1>4, DroppedOwners, ServerAssumption
<1>6. \A t \in Services \ {s}, c \in Clients : Owns(c, t)' <=> Owns(c, t)
  BY <1>1, <1>4, DroppedOwners, ServerAssumption DEF Owns
<1>7. Alone'
  BY <1>2, <1>3, <1>5, <1>6, Freed DEF Owns
<1>8. Served'
  BY <1>1, <1>2, <1>4, <1>5, DroppedOwners, ServerAssumption DEF Served
<1> QED
  BY <1>7, <1>8

\* A process moves on, and its connections with it.
LEMMA MovesAlone ==
    ASSUME TypeOK, Alone, Served, NEW s \in Services, NEW r \in ServiceRecord,
           srv' = [srv EXCEPT ![s] = r], r.owner = srv[s].owner,
           r.pc \notin {"off", "failed"},
           \A c \in Clients : \/ conn'[c].at = conn[c].at /\ conn'[c].pc = conn[c].pc
                              \/ conn[c].pc \notin Owning /\ conn'[c].pc \notin Owning
                                 /\ conn'[c].at = NoService
    PROVE  Alone' /\ Served'
<1>0. SrvType
  BY TypeParts
<1>1. \A t \in Services : srv'[t].owner = srv[t].owner
  BY <1>0 DEF SrvType
<1>2. \A t \in Services, c \in Clients : Owns(c, t)' <=> Owns(c, t)
  BY DEF Owns
<1>3. Alone'
  BY <1>1, <1>2, SameOwners
<1>4. Served'
  BY <1>0, ServerAssumption DEF Served, SrvType
<1> QED
  BY <1>3, <1>4

LEMMA FieldFacts ==
    ASSUME NEW r \in ServiceRecord, NEW x
    PROVE  /\ [r EXCEPT !.pc = x].pc = x /\ [r EXCEPT !.pc = x].owner = r.owner
           /\ [r EXCEPT !.stop = x].pc = r.pc /\ [r EXCEPT !.stop = x].owner = r.owner
           /\ [r EXCEPT !.owner = x].pc = r.pc /\ [r EXCEPT !.owner = x].owner = x
           /\ \A i : /\ [r EXCEPT !.pc = x, !.sock = i].pc = x
                     /\ [r EXCEPT !.pc = x, !.sock = i].owner = r.owner
                     /\ [r EXCEPT !.pc = x, !.inode = i].pc = x
                     /\ [r EXCEPT !.pc = x, !.inode = i].owner = r.owner
                     /\ [r EXCEPT !.pc = x, !.joins = i].pc = x
                     /\ [r EXCEPT !.pc = x, !.joins = i].owner = r.owner
BY DEF ServiceRecord

\* A step of a process that keeps its owner and leaves the connections alone.
LEMMA AtAlone ==
    ASSUME TypeOK, Alone, Served, NEW s \in Services, NEW from, NEW to \in SrvPlaces,
           At(s, from, to), to \notin {"off", "failed"}, UNCHANGED conn
    PROVE  Alone' /\ Served'
<1> DEFINE r == [srv[s] EXCEPT !.pc = to]
<1>1. srv[s] \in ServiceRecord /\ srv' = [srv EXCEPT ![s] = r]
  BY TypeParts DEF SrvType, At
<1>2. r \in ServiceRecord
  BY <1>1, RecordFacts
<1>3. r.pc = to /\ r.owner = srv[s].owner
  BY <1>1, FieldFacts
<1> HIDE DEF r
<1> QED
  BY <1>1, <1>2, <1>3, MovesAlone

LEMMA ServiceAlone ==
    ASSUME TypeOK, Alone, Served, NEW s \in Services,
           Launch(s) \/ Kill(s) \/ Stop(s) \/ ServiceStep(s)
    PROVE  Alone' /\ Served'
<1>0. srv[s] \in ServiceRecord /\ SrvType /\ ConnType /\ PathType
  BY TypeParts DEF SrvType
<1>1. CASE Launch(s)
  <2>1. srv' = [srv EXCEPT ![s] = Process("loading")] /\ UNCHANGED conn
        /\ srv[s].pc \in {"off", "failed"}
    BY <1>1 DEF Launch
  <2>2. srv'[s].owner = FALSE /\ srv'[s].pc = "loading"
    BY <1>0, <2>1, ProcessType DEF SrvType, SrvPlaces
  <2>3. \A t \in Services \ {s} : srv'[t] = srv[t]
    BY <1>0, <2>1 DEF SrvType
  <2>4. \A c \in Clients : conn[c].at # s
    BY <2>1 DEF Served
  <2>5. Alone'
    BY <2>1, <2>2, <2>3, <2>4, Freed DEF Owns
  <2>6. Served'
    BY <2>1, <2>2, <2>3 DEF Served
  <2> QED
    BY <2>5, <2>6
<1>2. CASE Kill(s) \/ Refused(s) \/ Exit(s) \/ Ends(s, "off")
  BY <1>2, EndsAlone DEF Kill, Refused, Exit
<1>3. CASE Stop(s)
  <2>1. CASE /\ srv[s].pc \notin {"off", "failed", "loading"}
             /\ srv' = [srv EXCEPT ![s].stop = TRUE]
             /\ UNCHANGED conn
    <3> DEFINE r == [srv[s] EXCEPT !.stop = TRUE]
    <3>1. srv' = [srv EXCEPT ![s] = r]
      BY <2>1
    <3>2. r \in ServiceRecord
      BY <1>0, RecordFacts
    <3>3. r.pc = srv[s].pc /\ r.owner = srv[s].owner
      BY <1>0, FieldFacts
    <3> HIDE DEF r
    <3> QED
      BY <2>1, <3>1, <3>2, <3>3, MovesAlone
  <2> QED
    BY <1>2, <1>3, <2>1 DEF Stop
<1>4. CASE Loaded(s)
  BY <1>4, AtAlone DEF Loaded, SrvPlaces
<1>5. CASE Lock(s)
  <2>1. CASE At(s, "starting", "locked") /\ UNCHANGED conn
    BY <2>1, AtAlone DEF SrvPlaces
  <2> QED
    BY <1>2, <1>5, <2>1 DEF Lock
<1>6. CASE Look(s) \/ Probe(s) \/ UnlinkStale(s)
  <2>1. ASSUME NEW from, NEW to \in {"found", "stale", "binding"}, At(s, from, to), UNCHANGED conn
        PROVE  Alone' /\ Served'
    BY <2>1, AtAlone DEF SrvPlaces
  <2> QED
    BY <1>2, <1>6, <2>1 DEF Look, Probe, UnlinkStale
<1>7. CASE Bind(s)
  <2>1. ASSUME NEW i \in Inodes, UNCHANGED conn,
               srv' = [srv EXCEPT ![s].pc = "bound", ![s].sock = i]
        PROVE  Alone' /\ Served'
    <3> DEFINE r == [srv[s] EXCEPT !.pc = "bound", !.sock = i]
    <3>1. srv' = [srv EXCEPT ![s] = r]
      BY <1>0, <2>1 DEF SrvType
    <3>2. r \in ServiceRecord
      BY <1>0, RecordFacts DEF SrvPlaces
    <3>3. r.pc = "bound" /\ r.owner = srv[s].owner
      BY <1>0, FieldFacts
    <3> HIDE DEF r
    <3> QED
      BY <2>1, <3>1, <3>2, <3>3, MovesAlone
  <2> QED
    BY <1>2, <1>7, <2>1 DEF Bind
<1>8. CASE Record(s)
  <2>1. CASE UNCHANGED conn /\ srv' = [srv EXCEPT ![s].pc = "up", ![s].inode = path]
    <3> DEFINE r == [srv[s] EXCEPT !.pc = "up", !.inode = path]
    <3>1. srv' = [srv EXCEPT ![s] = r]
      BY <1>0, <2>1 DEF SrvType
    <3>2. r \in ServiceRecord
      BY <1>0, RecordFacts DEF SrvPlaces, PathType
    <3>3. r.pc = "up" /\ r.owner = srv[s].owner
      BY <1>0, FieldFacts
    <3> HIDE DEF r
    <3> QED
      BY <2>1, <3>1, <3>2, <3>3, MovesAlone
  <2> QED
    BY <1>2, <1>8, <2>1 DEF Record
<1>9. CASE CloseServer(s)
  <2>0. PICK to \in {"waiting", "unbinding"} :
            srv' = [srv EXCEPT ![s].pc = to, ![s].sock = NoFile]
    BY <1>9 DEF CloseServer
  <2> DEFINE r == [srv[s] EXCEPT !.pc = to, !.sock = NoFile]
             lost == {c \in Of(s) : conn[c].pc = "backlog"}
  <2>1. srv' = [srv EXCEPT ![s] = r] /\ conn' = Dropped(lost)
    BY <1>0, <1>9, <2>0 DEF SrvType, CloseServer
  <2>2. r \in ServiceRecord
    BY <1>0, RecordFacts DEF SrvPlaces
  <2>3. r.pc = to /\ r.owner = srv[s].owner
    BY <1>0, FieldFacts
  <2>4. \A c \in lost : conn[c].pc = "backlog"
    OBVIOUS
  <2> HIDE DEF r, lost
  <2>5. \A c \in Clients : \/ conn'[c].at = conn[c].at /\ conn'[c].pc = conn[c].pc
                           \/ conn[c].pc \notin Owning /\ conn'[c].pc \notin Owning
                              /\ conn'[c].at = NoService
    BY <2>1, <2>4, DroppedOwners DEF Owning
  <2> QED
    BY <2>1, <2>2, <2>3, <2>5, MovesAlone
<1>10. CASE WaitedClosed(s)
  <2> DEFINE r == [srv[s] EXCEPT !.pc = "gathering", !.joins = Known(s)]
  <2>1. srv' = [srv EXCEPT ![s] = r] /\ conn' = ClosedWriters(s)
    BY <1>0, <1>10 DEF SrvType, WaitedClosed
  <2>2. r \in ServiceRecord
    BY <1>0, RecordFacts DEF SrvPlaces, Known, Of
  <2>3. r.pc = "gathering" /\ r.owner = srv[s].owner
    BY <1>0, FieldFacts
  <2> HIDE DEF r
  <2>4. \A c \in Clients : conn'[c].at = conn[c].at /\ conn'[c].pc = conn[c].pc
    BY <1>0, <2>1 DEF ClosedWriters, ConnType, Connection
  <2> QED
    BY <2>1, <2>2, <2>3, <2>4, MovesAlone
<1>11. CASE Unbound(s) \/ Gathered(s) \/ Compared(s) \/ Unlinked(s)
  <2>1. ASSUME NEW from, NEW to \in {"waiting", "comparing", "unlinking", "finishing", "failing"},
               At(s, from, to), UNCHANGED conn
        PROVE  Alone' /\ Served'
    BY <2>1, AtAlone DEF SrvPlaces
  <2> QED
    BY <1>11, <2>1 DEF Unbound, Gathered, Compared, Unlinked, Unlocked, Raises
<1> QED
  BY <1>1, <1>2, <1>3, <1>4, <1>5, <1>6, <1>7, <1>8, <1>9, <1>10, <1>11 DEF ServiceStep

(***************************************************************************)
(* Connections and their owner                                             *)
(***************************************************************************)

\* A connection goes on, and nothing else than an owner flag changes.
LEMMA GoesEffect ==
    ASSUME ConnType, NEW c \in Clients, NEW x, NEW w, Goes(c, x, w)
    PROVE  /\ conn'[c].at = conn[c].at /\ conn'[c].pc = x
           /\ \A d \in Clients \ {c} : conn'[d] = conn[d]
BY DEF Goes, ConnType, Connection

\* A connection that owns the service before and after, or neither.
LEMMA StaysAlone ==
    ASSUME TypeOK, Alone, Served, NEW c \in Clients, UNCHANGED srv,
           \A d \in Clients \ {c} : conn'[d] = conn[d],
           \/ /\ conn'[c].at = conn[c].at
              /\ conn'[c].pc \in Owning <=> conn[c].pc \in Owning
           \/ conn'[c].at = NoService /\ conn[c].pc \notin Owning
           \/ /\ conn'[c].at \in Services /\ srv[conn'[c].at].pc \notin {"off", "failed"}
              /\ conn[c].pc \notin Owning /\ conn'[c].pc \notin Owning
    PROVE  Alone' /\ Served'
<1>1. \A s \in Services, d \in Clients : Owns(d, s)' <=> Owns(d, s)
  BY ServerAssumption DEF Owns
<1>2. Alone'
  BY <1>1, SameOwners
<1>3. Served'
  BY ServerAssumption DEF Served
<1> QED
  BY <1>2, <1>3

\* The flag of the service of c is set.
LEMMA FlagEffect ==
    ASSUME TypeOK, NEW s \in Services, NEW x \in BOOLEAN, srv' = [srv EXCEPT ![s].owner = x]
    PROVE  /\ srv'[s].owner = x /\ srv'[s].pc = srv[s].pc
           /\ \A t \in Services \ {s} : srv'[t] = srv[t]
<1> DEFINE r == [srv[s] EXCEPT !.owner = x]
<1>1. SrvType /\ srv[s] \in ServiceRecord
  BY TypeParts DEF SrvType
<1>2. srv' = [srv EXCEPT ![s] = r]
  OBVIOUS
<1>3. r.owner = x /\ r.pc = srv[s].pc
  BY <1>1, FieldFacts
<1> HIDE DEF r
<1> QED
  BY <1>1, <1>2, <1>3 DEF SrvType

LEMMA EnterAlone ==
    ASSUME TypeOK, Alone, Served, NEW c \in Clients, Enter(c)
    PROVE  Alone' /\ Served'
<1>a. PICK s \in Services : s = conn[c].at
  BY DEF Enter, Serves
<1>b. PICK x \in {"refusing", "greeting"} : x = IF srv[s].owner THEN "refusing" ELSE "greeting"
  OBVIOUS
<1>0. CASE Goes(c, "leaving", "closing") /\ UNCHANGED srv
  <2>1. conn[c].pc = "accepted" /\ conn'[c].at = conn[c].at /\ conn'[c].pc = "leaving"
        /\ \A d \in Clients \ {c} : conn'[d] = conn[d]
    BY <1>0, TypeParts, GoesEffect DEF Enter, Serves
  <2> QED
    BY <1>0, <2>1, StaysAlone DEF Owning
<1> SUFFICES ASSUME ~(Goes(c, "leaving", "closing") /\ UNCHANGED srv)
             PROVE  Alone' /\ Served'
  BY <1>0
<1>1. s = conn[c].at /\ conn[c].pc = "accepted" /\ Goes(c, x, "open")
      /\ srv' = [srv EXCEPT ![s].owner = TRUE]
  BY <1>a, <1>b DEF Enter, Serves
<1>2. conn'[c].at = s /\ conn'[c].pc = x /\ \A d \in Clients \ {c} : conn'[d] = conn[d]
  BY <1>1, TypeParts, GoesEffect
<1>3. srv'[s].owner = TRUE /\ srv'[s].pc = srv[s].pc
      /\ \A t \in Services \ {s} : srv'[t] = srv[t]
  BY <1>1, FlagEffect
<1>4. Served'
  BY <1>1, <1>2, <1>3 DEF Served
<1>5. \A t \in Services \ {s}, d \in Clients : Owns(d, t)' <=> Owns(d, t)
  BY <1>1, <1>2 DEF Owns
<1>6. ~Owns(c, s) /\ \A d \in Clients \ {c} : Owns(d, s)' <=> Owns(d, s)
  BY <1>1, <1>2 DEF Owns, Owning
<1>7. CASE srv[s].owner
  <2>1. x = "refusing"
    BY <1>b, <1>7
  <2>2. ~Owns(c, s)'
    BY <1>2, <2>1 DEF Owns, Owning
  <2>3. srv'[s].owner <=> srv[s].owner
    BY <1>3, <1>7
  <2> QED
    BY <1>3, <1>4, <1>5, <1>6, <2>2, <2>3, SameOwnersOf
<1>8. CASE ~srv[s].owner
  <2>1. x = "greeting"
    BY <1>b, <1>8
  <2>2. Owns(c, s)'
    BY <1>2, <2>1 DEF Owns, Owning
  <2>3. \A d \in Clients : ~Owns(d, s)
    BY <1>1, <1>8 DEF Alone
  <2>4. Alone'
    BY <1>1, <1>3, <1>5, <1>6, <2>2, <2>3 DEF Alone
  <2> QED
    BY <1>4, <2>4
<1> QED
  BY <1>7, <1>8

LEMMA DisownedAlone ==
    ASSUME TypeOK, Alone, Served, NEW c \in Clients, Disowned(c)
    PROVE  Alone' /\ Served'
<1>a. PICK s \in Services : s = conn[c].at
  BY DEF Disowned, Serves
<1>1. s = conn[c].at /\ conn[c].pc = "closing" /\ Goes(c, "leaving", "closing")
      /\ srv' = [srv EXCEPT ![s].owner = FALSE]
  BY <1>a DEF Disowned, Serves
<1>2. conn'[c].at = s /\ conn'[c].pc = "leaving" /\ \A d \in Clients \ {c} : conn'[d] = conn[d]
  BY <1>1, TypeParts, GoesEffect
<1>3. srv'[s].owner = FALSE /\ srv'[s].pc = srv[s].pc
      /\ \A t \in Services \ {s} : srv'[t] = srv[t]
  BY <1>1, FlagEffect
<1>4. Served'
  BY <1>1, <1>2, <1>3 DEF Served
<1>5. \A t \in Services \ {s}, d \in Clients : Owns(d, t)' <=> Owns(d, t)
  BY <1>1, <1>2 DEF Owns
<1>6. Owns(c, s) /\ \A d \in Clients : ~Owns(d, s)'
  BY <1>1, <1>2 DEF Owns, Owning, Alone
<1> QED
  BY <1>1, <1>3, <1>4, <1>5, <1>6, Freed

LEMMA ClientAlone ==
    ASSUME TypeOK, Alone, Served, NEW c \in Clients, ClientStep(c)
    PROVE  Alone' /\ Served'
<1>0. ConnType
  BY TypeParts
<1>1. CASE \E x \in ConnPlaces, w \in {"open", "closing"} :
               Goes(c, x, w) /\ UNCHANGED srv /\ (x \in Owning <=> conn[c].pc \in Owning)
  BY <1>0, <1>1, GoesEffect, StaysAlone
<1>2. CASE Accept(c) \/ Greeted(c) \/ DrainFails(c) \/ Eof(c) \/ TooLong(c)
  <2>1. conn[c].writer \in {"open", "closing"}
    BY <1>0, ConnectionFacts DEF ConnType
  <2> QED
    BY <1>1, <1>2, <2>1, SMTT(40)
    DEF Accept, Greeted, DrainFails, Eof, TooLong, Serves, ConnPlaces, Owning
<1>3. ASSUME conn' = Dropped({c}), UNCHANGED srv, conn[c].pc \notin Owning
      PROVE  Alone' /\ Served'
  BY <1>3, DroppedOwners, StaysAlone
<1>4. CASE Departed(c)
  BY <1>3, <1>4 DEF Departed, Serves, Owning
<1>5. CASE Cancelled(c)
  <2>1. conn[c].writer \in {"open", "closing"}
    BY <1>0, ConnectionFacts DEF ConnType
  <2> QED
    BY <1>1, <1>3, <1>5, <2>1 DEF Cancelled, ConnPlaces, Owning
<1>6. CASE TimesOut(c)
  <2>1. conn'[c].at = conn[c].at /\ conn'[c].pc \in Owning /\ conn[c].pc \in Owning
        /\ UNCHANGED srv /\ \A d \in Clients \ {c} : conn'[d] = conn[d]
    BY <1>0, <1>6 DEF TimesOut, Serves, ConnType, Connection, Owning
  <2> QED
    BY <2>1, StaysAlone
<1>7. CASE Connect(c)
  <2>1. PICK s \in Services :
            /\ Listening(s)
            /\ conn' = [conn EXCEPT ![c] =
                           [NoConnection EXCEPT !.at = s, !.pc = "backlog", !.peer = TRUE]]
    BY <1>7 DEF Connect
  <2>2. conn'[c].at = s /\ conn'[c].pc = "backlog" /\ \A d \in Clients \ {c} : conn'[d] = conn[d]
    BY <1>0, <2>1 DEF ConnType, NoConnection
  <2>3. srv[s].pc \notin {"off", "failed"}
    BY <2>1 DEF Listening
  <2> QED
    BY <1>7, <2>2, <2>3, StaysAlone DEF Connect, Owning
<1>8. CASE Leave(c) \/ Read(c)
  <2>1. conn'[c].at = conn[c].at /\ conn'[c].pc = conn[c].pc
        /\ UNCHANGED srv /\ \A d \in Clients \ {c} : conn'[d] = conn[d]
    BY <1>0, <1>8 DEF Leave, Read, ConnType, Connection
  <2> QED
    BY <2>1, StaysAlone
<1> QED
  BY <1>2, <1>4, <1>5, <1>6, <1>7, <1>8, EnterAlone, DisownedAlone DEF ClientStep, ClientTask

LEMMA InitAlone == Init => Alone /\ Served
<1> SUFFICES ASSUME Init PROVE Alone /\ Served
  OBVIOUS
<1>1. \A s \in Services : srv[s].owner = FALSE
  BY ProcessType DEF Init, SrvPlaces
<1>2. \A c \in Clients : conn[c].at = NoService
  BY DEF Init, NoConnection
<1> QED
  BY <1>1, <1>2, ServerAssumption DEF Alone, Served, Owns

IInv == TypeOK /\ Alone /\ Served

LEMMA NextIInv == IInv /\ [Next]_vars => IInv'
<1> SUFFICES ASSUME IInv, [Next]_vars PROVE Alone' /\ Served'
  BY NextType DEF IInv
<1>1. CASE UNCHANGED <<srv, conn>>
  BY <1>1 DEF IInv, Alone, Served, Owns
<1>2. ASSUME NEW s \in Services, Launch(s) \/ Kill(s) \/ Stop(s) \/ ServiceStep(s)
      PROVE  Alone' /\ Served'
  BY <1>2, ServiceAlone DEF IInv
<1>3. ASSUME NEW c \in Clients, ClientStep(c)
      PROVE  Alone' /\ Served'
  BY <1>3, ClientAlone DEF IInv
<1> QED
  BY <1>1, <1>2, <1>3 DEF Next, ClientStep, Outside, vars

\* Whatever connects, times out, is refused or cancelled, and however often the
\* service is stopped or killed, one connection at a time owns a service and the
\* flag of server.py:88-91 and 141 says so.
THEOREM OneOwnerTheorem == Spec => []OneOwner
<1>1. Init => IInv
  BY InitType, InitAlone DEF IInv
<1>2. IInv => OneOwner
  BY AloneSuffices DEF IInv
<1> QED
  BY <1>1, <1>2, NextIInv, PTL DEF Spec

(***************************************************************************)
(* From one service to the next                                            *)
(***************************************************************************)

\* The places of close(), and those after gather() that look at the path.
Ending == {"unbinding", "waiting", "gathering", "comparing", "unlinking", "finishing"}
Clearing == {"comparing", "unlinking"}

\* The socket of the service that is up, and the connections of one that ends.
Handing ==
    /\ \A s \in Services :
         /\ srv[s].pc \in Ending \union {"up"} => srv[s].inode # NoFile
         /\ srv[s].pc = "bound" /\ outside = 0 => path = srv[s].sock
         /\ srv[s].pc \in Ending => \A c \in Of(s) : conn[c].pc # "backlog"
         /\ srv[s].pc = "gathering" /\ waits => Of(s) \subseteq srv[s].joins
         /\ srv[s].pc \in Clearing /\ waits => Of(s) = {}
    /\ \A c \in Clients : conn[c].pc \in {"backlog", "accepted"} => conn[c].writer = "open"
    /\ HandOver

LEMMA Fields ==
    ASSUME NEW r \in ServiceRecord, NEW x
    PROVE  /\ \A a \in {[r EXCEPT !.stop = x], [r EXCEPT !.owner = x]} :
                 a.pc = r.pc /\ a.sock = r.sock /\ a.inode = r.inode /\ a.joins = r.joins
           /\ LET a == [r EXCEPT !.pc = x] IN
                 a.pc = x /\ a.sock = r.sock /\ a.inode = r.inode /\ a.joins = r.joins
           /\ \A i : LET a == [r EXCEPT !.pc = x, !.sock = i] IN
                 a.pc = x /\ a.sock = i /\ a.inode = r.inode /\ a.joins = r.joins
           /\ \A i : LET a == [r EXCEPT !.pc = x, !.inode = i] IN
                 a.pc = x /\ a.sock = r.sock /\ a.inode = i /\ a.joins = r.joins
           /\ \A i : LET a == [r EXCEPT !.pc = x, !.joins = i] IN
                 a.pc = x /\ a.sock = r.sock /\ a.inode = r.inode /\ a.joins = i
BY DEF ServiceRecord

\* Nobody holds the lock with s.
LEMMA OneLocked ==
    ASSUME TypeOK, NEW s \in Services, NEW t \in Services, srv[s].pc \in Locked, srv[t].pc \in Locked
    PROVE  s = t
BY TypeParts DEF LockHeld

\* A process changes; what it does to the path and to its connections, and
\* what it must be for the invariant to go on.
LEMMA ProcessHands ==
    ASSUME TypeOK, Handing, NEW s \in Services, NEW r,
           srv' = [srv EXCEPT ![s] = r], UNCHANGED <<waits, outside>>,
           \A c \in Clients : \/ conn'[c] = conn[c]
                              \/ conn'[c] = NoConnection
                              \/ /\ conn'[c].at = conn[c].at /\ conn'[c].pc = conn[c].pc
                                 /\ conn[c].pc \notin {"backlog", "accepted"},
           path' = path \/ srv[s].pc \in Locked,
           path' \in {path, NoFile} \/ \A t \in Services : path' # srv[t].inode,
           r.pc \in Ending \union {"up"} => r.inode # NoFile,
           r.pc = "bound" /\ outside = 0 => path' = r.sock,
           r.pc \in Ending => \A c \in Clients : conn'[c].at = s => conn'[c].pc # "backlog",
           r.pc = "gathering" /\ waits => \A c \in Clients : conn'[c].at = s => c \in r.joins,
           r.pc \in Clearing /\ waits => \A c \in Clients : conn'[c].at # s,
           r.pc = "up" /\ outside = 0 => path' = r.sock /\ path' = r.inode,
           r.pc = "finishing" =>
               /\ waits => \A c \in Clients : conn'[c].at # s
               /\ outside = 0 => path' # r.inode
    PROVE  Handing'
<1>1. srv'[s] = r /\ \A t \in Services \ {s} : srv'[t] = srv[t]
  BY TypeParts DEF SrvType
<1>2. \A t \in Services \ {s} : srv[t].pc \in {"bound", "up"} => path' = path
  BY OneLocked DEF Locked
<1>3. \A t \in Services, c \in Clients : conn'[c].at = t =>
          conn[c].at = t /\ conn'[c].pc = conn[c].pc
  BY ServerAssumption DEF NoConnection
<1>4. \A c \in Clients : conn'[c].pc \in {"backlog", "accepted"} =>
          conn'[c].writer = conn[c].writer /\ conn'[c].pc = conn[c].pc
  BY DEF NoConnection
<1>5. (\A c \in Clients : conn[c].pc \in {"backlog", "accepted"} => conn[c].writer = "open")'
  BY <1>4 DEF Handing
<1>6. Reachable'
  BY <1>1, <1>2 DEF Handing, HandOver, Reachable
<1>7. CleanExit'
  BY <1>1, <1>3 DEF Handing, HandOver, CleanExit, Of, Ending
<1> QED
  BY <1>1, <1>2, <1>3, <1>5, <1>6, <1>7 DEF Handing, HandOver, Of, Ending, Clearing

\* A process that ends, or has no socket yet, has nothing to keep.
LEMMA EarlyHands ==
    ASSUME TypeOK, Handing, NEW s \in Services, NEW r,
           srv' = [srv EXCEPT ![s] = r], UNCHANGED <<waits, outside>>,
           r.pc \in {"off", "failed", "loading", "starting", "locked", "found", "stale",
                     "binding", "failing"},
           UNCHANGED conn \/ conn' = Dropped(Of(s)),
           path' = path \/ (path' = NoFile /\ srv[s].pc \in Locked)
    PROVE  Handing'
<1>1. \A c \in Clients : conn'[c] = conn[c] \/ conn'[c] = NoConnection
  BY DEF Dropped
<1> QED
  BY <1>1, ProcessHands DEF Ending, Clearing

LEMMA ServiceHands ==
    ASSUME TypeOK, Handing, NEW s \in Services,
           Launch(s) \/ Kill(s) \/ Stop(s) \/ ServiceStep(s)
    PROVE  Handing'
<1>0. srv[s] \in ServiceRecord /\ SrvType /\ ConnType
  BY TypeParts DEF SrvType
<1>1. CASE Launch(s)
  <2>1. Process("loading").pc = "loading"
    BY DEF Process
  <2> DEFINE r == Process("loading")
  <2>2. srv' = [srv EXCEPT ![s] = r] /\ UNCHANGED <<conn, path, waits, outside>>
    BY <1>1 DEF Launch
  <2> HIDE DEF r
  <2> QED
    BY <2>1, <2>2, EarlyHands DEF r
<1>2. ASSUME NEW how \in {"off", "failed"}, Ends(s, how)
      PROVE  Handing'
  <2>1. Process(how).pc = how
    BY DEF Process
  <2> DEFINE r == Process(how)
  <2>2. srv' = [srv EXCEPT ![s] = r] /\ conn' = Dropped(Of(s)) /\ UNCHANGED <<path, waits, outside>>
    BY <1>2 DEF Ends
  <2> HIDE DEF r
  <2> QED
    BY <2>1, <2>2, EarlyHands DEF r
<1>3. CASE Kill(s) \/ Refused(s) \/ Exit(s) \/ Ends(s, "off")
  BY <1>2, <1>3 DEF Kill, Refused, Exit
<1>4. CASE Stop(s)
  <2>1. CASE /\ srv' = [srv EXCEPT ![s].stop = TRUE]
             /\ UNCHANGED <<conn, path, waits, outside>>
    <3> DEFINE r == [srv[s] EXCEPT !.stop = TRUE]
    <3>1. srv' = [srv EXCEPT ![s] = r]
      BY <2>1
    <3>2. r.pc = srv[s].pc /\ r.sock = srv[s].sock /\ r.inode = srv[s].inode
          /\ r.joins = srv[s].joins
      BY <1>0, Fields
    <3> HIDE DEF r
    <3> QED
      BY <2>1, <3>1, <3>2, ProcessHands DEF Handing, HandOver, Reachable, CleanExit, Of
  <2> QED
    BY <1>3, <1>4, <2>1 DEF Stop
<1>5. ASSUME NEW from, NEW to \in {"starting", "locked", "found", "stale", "binding", "failing"},
             At(s, from, to),
             UNCHANGED <<conn, waits, outside>>,
             path' = path \/ (path' = NoFile /\ srv[s].pc \in Locked)
      PROVE  Handing'
  <2> DEFINE r == [srv[s] EXCEPT !.pc = to]
  <2>1. srv' = [srv EXCEPT ![s] = r]
    BY <1>5 DEF At
  <2>2. r.pc = to
    BY <1>0, Fields
  <2> HIDE DEF r
  <2> QED
    BY <1>5, <2>1, <2>2, EarlyHands
<1>6. CASE Loaded(s) \/ Lock(s) \/ Look(s) \/ Probe(s) \/ UnlinkStale(s)
  BY <1>3, <1>5, <1>6 DEF Loaded, Lock, Look, Probe, UnlinkStale, At, Locked
<1>7. CASE Bind(s)
  <2>1. ASSUME NEW i \in Inodes \ Used, path' = i, UNCHANGED <<conn, waits, outside>>,
               srv[s].pc = "binding",
               srv' = [srv EXCEPT ![s].pc = "bound", ![s].sock = i]
        PROVE  Handing'
    <3> DEFINE r == [srv[s] EXCEPT !.pc = "bound", !.sock = i]
    <3>1. srv' = [srv EXCEPT ![s] = r]
      BY <1>0, <2>1 DEF SrvType
    <3>2. r.pc = "bound" /\ r.sock = i
      BY <1>0, Fields
    <3>3. \A t \in Services : i # srv[t].inode
      BY <2>1 DEF Used
    <3> HIDE DEF r
    <3> QED
      BY <2>1, <3>1, <3>2, <3>3, ProcessHands DEF Locked, Ending, Clearing
  <2> QED
    BY <1>3, <1>7, <2>1 DEF Bind
<1>8. CASE Record(s)
  <2>1. CASE /\ srv[s].pc = "bound" /\ path # NoFile /\ UNCHANGED <<conn, path, waits, outside>>
             /\ srv' = [srv EXCEPT ![s].pc = "up", ![s].inode = path]
    <3> DEFINE r == [srv[s] EXCEPT !.pc = "up", !.inode = path]
    <3>1. srv' = [srv EXCEPT ![s] = r]
      BY <1>0, <2>1 DEF SrvType
    <3>2. r.pc = "up" /\ r.sock = srv[s].sock /\ r.inode = path
      BY <1>0, Fields
    <3> HIDE DEF r
    <3> QED
      BY <2>1, <3>1, <3>2, ProcessHands, ZenonT(60) DEF Handing, Ending, Clearing
  <2> QED
    BY <1>3, <1>8, <2>1 DEF Record
<1>9. CASE CloseServer(s)
  <2>0. PICK to \in {"waiting", "unbinding"} :
            srv' = [srv EXCEPT ![s].pc = to, ![s].sock = NoFile]
    BY <1>9 DEF CloseServer
  <2> DEFINE r == [srv[s] EXCEPT !.pc = to, !.sock = NoFile]
             lost == {c \in Of(s) : conn[c].pc = "backlog"}
  <2>1. srv' = [srv EXCEPT ![s] = r]
    BY <1>0, <2>0 DEF SrvType
  <2>2. conn' = Dropped(lost) /\ srv[s].pc = "up" /\ UNCHANGED <<path, waits, outside>>
    BY <1>9 DEF CloseServer
  <2>3. r.pc = to /\ r.inode = srv[s].inode
    BY <1>0, Fields
  <2>4. \A c \in Clients : c \in lost <=> conn[c].at = s /\ conn[c].pc = "backlog"
    BY DEF Of
  <2> HIDE DEF r, lost
  <2>5. \A c \in Clients : conn'[c] = IF c \in lost THEN NoConnection ELSE conn[c]
    BY <2>2 DEF Dropped
  <2>6. \A c \in Clients : conn'[c].at = s => conn'[c].pc # "backlog"
    BY <2>4, <2>5 DEF NoConnection
  <2> QED
    BY <2>1, <2>2, <2>3, <2>5, <2>6, ProcessHands DEF Handing, Ending, Clearing
<1>10. CASE WaitedClosed(s)
  <2> DEFINE r == [srv[s] EXCEPT !.pc = "gathering", !.joins = Known(s)]
  <2>1. srv' = [srv EXCEPT ![s] = r] /\ conn' = ClosedWriters(s) /\ srv[s].pc = "waiting"
        /\ (waits => Attached(s) = {}) /\ UNCHANGED <<path, waits, outside>>
    BY <1>0, <1>10 DEF SrvType, WaitedClosed
  <2>2. r.pc = "gathering" /\ r.inode = srv[s].inode /\ r.joins = Known(s)
    BY <1>0, Fields
  <2> HIDE DEF r
  <2>3. \A c \in Clients : \/ conn'[c] = conn[c]
                           \/ /\ conn'[c].at = conn[c].at /\ conn'[c].pc = conn[c].pc
                              /\ conn[c].pc \notin {"backlog", "accepted"}
    BY <1>0, <2>1 DEF ClosedWriters, Known, ConnType, Connection
  <2>4. ASSUME waits, NEW c \in Clients, conn[c].at = s
        PROVE  c \in Known(s)
    <3>1. conn[c].pc # "backlog" /\ (conn[c].pc = "accepted" => conn[c].writer = "open")
      BY <2>1, <2>4 DEF Handing, Of, Ending
    <3>2. c \notin Attached(s)
      BY <2>1, <2>4
    <3> QED
      BY <2>4, <3>1, <3>2 DEF Attached, Known, Of
  <2>5. \A c \in Clients : conn'[c].at = s => conn[c].at = s /\ conn'[c].pc # "backlog"
    BY <2>1, <2>3 DEF Handing, Of, Ending
  <2> QED
    BY <2>1, <2>2, <2>3, <2>4, <2>5, ProcessHands DEF Handing, Ending, Clearing
<1>11. ASSUME NEW from \in Ending \ {"finishing"}, NEW to \in Ending \ {"gathering"}, At(s, from, to),
              path' \in {path, NoFile}, UNCHANGED <<conn, waits, outside>>,
              waits /\ to \in Clearing \union {"finishing"} => Of(s) = {},
              to = "finishing" => path' # srv[s].inode
       PROVE  Handing'
  <2> DEFINE r == [srv[s] EXCEPT !.pc = to]
  <2>1. srv' = [srv EXCEPT ![s] = r] /\ srv[s].pc = from
    BY <1>11 DEF At
  <2>2. r.pc = to /\ r.inode = srv[s].inode
    BY <1>0, Fields
  <2> HIDE DEF r
  <2>3. r.inode # NoFile /\ to \notin {"up", "bound", "gathering"}
    BY <1>11, <2>1, <2>2 DEF Handing, Ending
  <2>4. \A c \in Clients : conn[c].at = s => conn[c].pc # "backlog"
    BY <1>11, <2>1 DEF Handing, Of
  <2>5. path' = path \/ srv[s].pc \in Locked
    BY <1>11, <2>1 DEF Ending, Locked
  <2>6. waits /\ to \in Clearing \union {"finishing"} => \A c \in Clients : conn[c].at # s
    BY <1>11 DEF Of
  <2> QED
    BY <1>11, <2>1, <2>2, <2>3, <2>4, <2>5, <2>6, ProcessHands
<1>12. CASE Unbound(s)
  BY <1>11, <1>12 DEF Unbound, At, Ending, Clearing
<1>13. CASE Gathered(s)
  <2>1. srv[s].pc = "gathering" /\ srv[s].inode # NoFile /\ (waits => Of(s) = {})
    BY <1>13 DEF Gathered, Joined, Handing, Ending
  <2> QED
    BY <1>11, <1>13, <2>1 DEF Gathered, Unlocked, Ending, Clearing
<1>14. CASE Compared(s) \/ Unlinked(s)
  <2>1. srv[s].pc \in Clearing
    BY <1>14 DEF Compared, Unlinked, Unlocked, Raises, At, Clearing
  <2>2. srv[s].inode # NoFile /\ (waits => Of(s) = {})
    BY <2>1 DEF Handing, Clearing, Ending
  <2>3. CASE Raises(s, srv[s].pc) /\ UNCHANGED <<conn, waits, outside>>
    BY <1>5, <2>3 DEF Raises
  <2>4. CASE Compared(s)
    BY <1>11, <2>2, <2>3, <2>4 DEF Compared, Raises, At, Unlocked, Ending, Clearing
  <2>5. CASE Unlinked(s)
    BY <1>11, <2>2, <2>3, <2>5 DEF Unlinked, Raises, At, Unlocked, Ending, Clearing
  <2> QED
    BY <1>14, <2>4, <2>5
<1> QED
  BY <1>1, <1>3, <1>4, <1>6, <1>7, <1>8, <1>9, <1>10, <1>12, <1>13, <1>14 DEF ServiceStep

\* A connection stays where it is, goes, or comes to a service that listens.
LEMMA ClientHands ==
    ASSUME TypeOK, Handing, NEW c \in Clients, ClientStep(c)
    PROVE  Handing'
<1>0. ConnType /\ SrvType
  BY TypeParts, SMTT(40)
<1>1. UNCHANGED <<path, waits, outside>> /\ \A d \in Clients \ {c} : conn'[d] = conn[d]
  BY <1>0, ZenonT(60)
  DEF ClientStep, ClientTask, Accept, Enter, Greeted, DrainFails, Eof, Disowned, Departed,
      Cancelled, TimesOut, TooLong, Connect, Leave, Read, Goes, Dropped, ConnType
<1>2. \A s \in Services : /\ srv'[s].pc = srv[s].pc /\ srv'[s].sock = srv[s].sock
                          /\ srv'[s].inode = srv[s].inode /\ srv'[s].joins = srv[s].joins
  <2>1. ASSUME NEW t \in Services, NEW x \in BOOLEAN, srv' = [srv EXCEPT ![t].owner = x]
        PROVE  \A s \in Services : /\ srv'[s].pc = srv[s].pc /\ srv'[s].sock = srv[s].sock
                                   /\ srv'[s].inode = srv[s].inode /\ srv'[s].joins = srv[s].joins
    <3> DEFINE r == [srv[t] EXCEPT !.owner = x]
    <3>1. srv' = [srv EXCEPT ![t] = r] /\ srv[t] \in ServiceRecord
      BY <1>0, <2>1 DEF SrvType
    <3>2. r.pc = srv[t].pc /\ r.sock = srv[t].sock /\ r.inode = srv[t].inode
          /\ r.joins = srv[t].joins
      BY <3>1, Fields
    <3> HIDE DEF r
    <3> QED
      BY <1>0, <3>1, <3>2 DEF SrvType
  <2>2. CASE Enter(c) \/ Disowned(c)
    BY <2>1, <2>2 DEF Enter, Disowned, Serves
  <2>3. CASE UNCHANGED srv
    BY <2>3
  <2> QED
    BY <2>2, <2>3
    DEF ClientStep, ClientTask, Accept, Greeted, DrainFails, Eof, Departed, Cancelled,
        TimesOut, TooLong, Connect, Leave, Read
<1>3. /\ \/ conn'[c].at = conn[c].at
         \/ conn'[c].at = NoService
         \/ \E s \in Services : conn'[c].at = s /\ Listening(s)
      /\ conn'[c].pc = "backlog" => conn[c].pc = "backlog" \/ Connect(c)
      /\ conn'[c].pc \in {"backlog", "accepted"} => conn'[c].writer = "open"
  <2>1. conn[c] \in Connection
    BY <1>0 DEF ConnType
  <2>2. CASE Departed(c) \/ (Cancelled(c) /\ conn' = Dropped({c}))
    BY <2>2 DEF Departed, Dropped, NoConnection
  <2>3. CASE Connect(c)
    BY <1>0, <2>3 DEF Connect, ConnType, NoConnection
  <2>4. CASE Leave(c) \/ Read(c)
    BY <1>0, <2>1, <2>4 DEF Leave, Read, ConnType, Connection, Handing
  <2>5. CASE TimesOut(c)
    BY <1>0, <2>1, <2>5 DEF TimesOut, ConnType, Connection
  <2>6. ASSUME NEW x, NEW w, Goes(c, x, w), x # "backlog", x = "accepted" => w = "open"
        PROVE  /\ conn'[c].at = conn[c].at /\ conn'[c].pc # "backlog"
               /\ conn'[c].pc = "accepted" => conn'[c].writer = "open"
    BY <1>0, <2>1, <2>6 DEF Goes, ConnType, Connection
  <2>7. CASE \E x \in {"accepted", "refusing", "greeting", "serving", "closing", "leaving"},
                w \in {conn[c].writer, "open", "closing"} :
              Goes(c, x, w) /\ (x = "accepted" => w = "open")
    BY <2>6, <2>7
  <2>8. CASE Enter(c)
    BY <2>7, <2>8 DEF Enter
  <2>9. CASE Accept(c) \/ Greeted(c) \/ DrainFails(c) \/ Eof(c) \/ Disowned(c) \/ TooLong(c)
    BY <2>7, <2>9 DEF Accept, Greeted, DrainFails, Eof, Disowned, TooLong
  <2>10. CASE Cancelled(c)
    BY <2>2, <2>7, <2>10 DEF Cancelled
  <2>11. \/ Accept(c) \/ Greeted(c) \/ DrainFails(c) \/ Eof(c) \/ Disowned(c) \/ TooLong(c)
         \/ Enter(c) \/ Cancelled(c) \/ Departed(c) \/ TimesOut(c) \/ Connect(c)
         \/ Leave(c) \/ Read(c)
    BY DEF ClientStep, ClientTask
  <2> QED
    BY <2>2, <2>3, <2>4, <2>5, <2>8, <2>9, <2>10, <2>11
<1>4. Connect(c) => \E s \in Services : conn'[c].at = s /\ Listening(s)
  BY <1>0 DEF Connect, ConnType, NoConnection
<1>5. \A s \in Services : srv[s].pc \in Ending =>
         \A d \in Clients : conn'[d].at = s =>
             conn[d].at = s /\ (conn'[d].pc = "backlog" => conn[d].pc = "backlog")
  BY <1>1, <1>3, <1>4, ServerAssumption DEF Listening, Ending
<1> QED
  BY <1>1, <1>2, <1>3, <1>5 DEF Handing, HandOver, Reachable, CleanExit, Of, Ending, Clearing

LEMMA InitHands == Init => Handing
<1> SUFFICES ASSUME Init PROVE Handing
  OBVIOUS
<1>1. \A s \in Services : srv[s].pc = "off"
  BY DEF Init, Process
<1>2. \A c \in Clients : conn[c].pc = "none"
  BY DEF Init, NoConnection
<1> QED
  BY <1>1, <1>2 DEF Handing, HandOver, Reachable, CleanExit, Ending, Clearing

LEMMA NextHands == TypeOK /\ Handing /\ [Next]_vars => Handing'
<1> SUFFICES ASSUME TypeOK, Handing, [Next]_vars PROVE Handing'
  OBVIOUS
<1>1. CASE UNCHANGED vars
  BY <1>1 DEF vars, Handing, HandOver, Reachable, CleanExit, Of
<1>2. CASE Outside
  <2>1. outside' # 0 /\ UNCHANGED <<srv, conn, waits>>
    BY <1>2, TypeParts, ServerAssumption DEF Outside, CountType
  <2> QED
    BY <2>1 DEF Handing, HandOver, Reachable, CleanExit, Of
<1> QED
  BY <1>1, <1>2, ServiceHands, ClientHands DEF Next, ClientStep

\* However services are started, stopped, killed and replaced, the path leads
\* to the one that is up (unless somebody else touched it), and one that gives
\* up its lock leaves no socket behind and, where wait_closed() waits, no
\* session of a client that connected at the last moment.
THEOREM HandOverTheorem == Spec => []HandOver
<1>1. TypeOK /\ Handing /\ [Next]_vars => Handing'
  BY NextHands
<1>2. Handing => HandOver
  BY DEF Handing
<1> QED
  BY <1>1, <1>2, InitHands, TypeCorrect, PTL DEF Spec

(***************************************************************************)
(* The socket of another program                                           *)
(***************************************************************************)

\* Outside the window a service that has another inode than the one that is
\* at the path leaves it there, and stays outside.
LEMMA ServiceLeaves ==
    ASSUME TypeOK, Undisturbed, NEW s \in Services,
           Launch(s) \/ Kill(s) \/ Stop(s) \/ ServiceStep(s)
    PROVE  path' = Other /\ srv'[s].pc \notin Window /\ srv'[s].inode # Other
           /\ \A t \in Services \ {s} : srv'[t] = srv[t]
<1>0. srv[s] \in ServiceRecord /\ SrvType /\ path = Other /\ srv[s].inode # Other
      /\ srv[s].pc \notin Window
  BY TypeParts DEF SrvType, Undisturbed
<1>1. Other # NoFile /\ Other # Plain /\ srv[s].sock # Other
  BY <1>0, FS_CardinalityType, ServerAssumption
  DEF Other, Plain, NoFile, Inodes, ServiceRecord
<1>2. ASSUME NEW r, srv' = [srv EXCEPT ![s] = r], r.pc \notin Window, r.inode # Other, path' = path
      PROVE  path' = Other /\ srv'[s].pc \notin Window /\ srv'[s].inode # Other
             /\ \A t \in Services \ {s} : srv'[t] = srv[t]
  BY <1>0, <1>2 DEF SrvType
<1>3. ASSUME NEW how \in {"off", "failed", "loading"}, srv' = [srv EXCEPT ![s] = Process(how)],
             path' = path
      PROVE  path' = Other /\ srv'[s].pc \notin Window /\ srv'[s].inode # Other
             /\ \A t \in Services \ {s} : srv'[t] = srv[t]
  <2> DEFINE r == Process(how)
  <2>1. r.pc = how /\ r.inode = NoFile
    BY DEF Process
  <2>2. srv' = [srv EXCEPT ![s] = r]
    BY <1>3
  <2> HIDE DEF r
  <2> QED
    BY <1>1, <1>2, <1>3, <2>1, <2>2 DEF Window
<1>4. CASE Launch(s) \/ Kill(s) \/ Refused(s) \/ Exit(s) \/ Ends(s, "off")
  BY <1>3, <1>4 DEF Launch, Kill, Refused, Exit, Ends
<1>5. ASSUME NEW from, NEW to \in SrvPlaces \ Window, At(s, from, to), path' = path
      PROVE  path' = Other /\ srv'[s].pc \notin Window /\ srv'[s].inode # Other
             /\ \A t \in Services \ {s} : srv'[t] = srv[t]
  <2> DEFINE r == [srv[s] EXCEPT !.pc = to]
  <2>1. srv' = [srv EXCEPT ![s] = r] /\ r.pc = to /\ r.inode = srv[s].inode
    BY <1>0, <1>5, Fields DEF At
  <2> HIDE DEF r
  <2> QED
    BY <1>0, <1>2, <1>5, <2>1
<1>6. CASE Stop(s)
  <2>1. CASE srv' = [srv EXCEPT ![s].stop = TRUE] /\ path' = path
    <3> DEFINE r == [srv[s] EXCEPT !.stop = TRUE]
    <3>1. srv' = [srv EXCEPT ![s] = r] /\ r.pc = srv[s].pc /\ r.inode = srv[s].inode
      BY <1>0, <2>1, Fields
    <3> HIDE DEF r
    <3> QED
      BY <1>0, <1>2, <2>1, <3>1
  <2> QED
    BY <1>4, <1>6, <2>1 DEF Stop
<1>7. CASE Loaded(s) \/ Lock(s)
  BY <1>4, <1>5, <1>7 DEF Loaded, Lock, SrvPlaces, Window
<1>8. CASE Look(s) \/ Probe(s)
  BY <1>0, <1>1, <1>4, <1>5, <1>8 DEF Look, Probe, Answers, SrvPlaces, Window
<1>9. ~(UnlinkStale(s) \/ Bind(s) \/ Record(s) \/ Unbound(s) \/ Unlinked(s))
  BY <1>0 DEF UnlinkStale, Bind, Record, Unbound, Unlinked, Unlocked, Raises, At, Window
<1>10. CASE CloseServer(s)
  <2>1. srv' = [srv EXCEPT ![s].pc = "waiting", ![s].sock = NoFile] /\ path' = path
    BY <1>0, <1>1, <1>10 DEF CloseServer
  <2> DEFINE r == [srv[s] EXCEPT !.pc = "waiting", !.sock = NoFile]
  <2>2. srv' = [srv EXCEPT ![s] = r]
    BY <1>0, <2>1 DEF SrvType
  <2>3. r.pc = "waiting" /\ r.inode = srv[s].inode
    BY <1>0, Fields
  <2> HIDE DEF r
  <2> QED
    BY <1>0, <1>2, <2>1, <2>2, <2>3 DEF Window
<1>11. CASE WaitedClosed(s)
  <2> DEFINE r == [srv[s] EXCEPT !.pc = "gathering", !.joins = Known(s)]
  <2>1. srv' = [srv EXCEPT ![s] = r] /\ path' = path
    BY <1>0, <1>11 DEF SrvType, WaitedClosed
  <2>2. r.pc = "gathering" /\ r.inode = srv[s].inode
    BY <1>0, Fields
  <2> HIDE DEF r
  <2> QED
    BY <1>0, <1>2, <2>1, <2>2 DEF Window
<1>12. CASE Gathered(s) \/ Compared(s)
  BY <1>0, <1>1, <1>5, <1>12
  DEF Gathered, Compared, Unlocked, Raises, SrvPlaces, Window
<1> QED
  BY <1>4, <1>6, <1>7, <1>8, <1>9, <1>10, <1>11, <1>12 DEF ServiceStep

\* A client moves no process and nothing at the path.
LEMMA ClientLeaves ==
    ASSUME TypeOK, NEW c \in Clients, ClientStep(c)
    PROVE  path' = path
           /\ \A s \in Services : srv'[s].pc = srv[s].pc /\ srv'[s].inode = srv[s].inode
<1>1. path' = path
  BY DEF ClientStep, ClientTask, Accept, Enter, Greeted, DrainFails, Eof, Disowned,
         Departed, Cancelled, TimesOut, TooLong, Connect, Leave, Read, Goes
<1>2. ASSUME NEW t \in Services, NEW x \in BOOLEAN, srv' = [srv EXCEPT ![t].owner = x]
      PROVE  \A s \in Services : srv'[s].pc = srv[s].pc /\ srv'[s].inode = srv[s].inode
  <2> DEFINE r == [srv[t] EXCEPT !.owner = x]
  <2>1. srv' = [srv EXCEPT ![t] = r] /\ srv[t] \in ServiceRecord /\ SrvType
    BY <1>2, TypeParts DEF SrvType
  <2>2. r.pc = srv[t].pc /\ r.inode = srv[t].inode
    BY <2>1, Fields
  <2> HIDE DEF r
  <2> QED
    BY <2>1, <2>2 DEF SrvType
<1>3. CASE Enter(c) \/ Disowned(c)
  BY <1>1, <1>2, <1>3 DEF Enter, Disowned, Serves
<1>4. CASE UNCHANGED srv
  BY <1>1, <1>4
<1> QED
  BY <1>3, <1>4
  DEF ClientStep, ClientTask, Accept, Greeted, DrainFails, Eof, Departed, Cancelled,
      TimesOut, TooLong, Connect, Leave, Read

\* The socket of another program that was at the path while no service stood
\* between a look at the path and what it does there (start() and close() in
\* server.py) stays whatever services do, for any number of services, clients,
\* kills and outside changes.
THEOREM OthersSocketKeptTheorem == Spec => OthersSocketKept
<1>1. TypeOK /\ [Next]_vars => [Undisturbed /\ outside' = outside => Undisturbed']_vars
  <2> SUFFICES ASSUME TypeOK, Next, Undisturbed, outside' = outside
               PROVE  Undisturbed'
    OBVIOUS
  <2>1. ~Outside
    BY TypeParts, ServerAssumption DEF Outside, CountType
  <2>2. ASSUME NEW s \in Services, Launch(s) \/ Kill(s) \/ Stop(s) \/ ServiceStep(s)
        PROVE  Undisturbed'
    BY <2>2, ServiceLeaves DEF Undisturbed
  <2>3. ASSUME NEW c \in Clients, ClientStep(c)
        PROVE  Undisturbed'
    BY <2>3, ClientLeaves DEF Undisturbed
  <2> QED
    BY <2>1, <2>2, <2>3 DEF Next, ClientStep
<1> QED
  BY <1>1, TypeCorrect, PTL DEF Spec, OthersSocketKept
=============================================================================
