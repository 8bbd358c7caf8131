-------------------------- MODULE VoiceInputProofs --------------------------
(***************************************************************************)
(* Proofs about the Fcitx5 add-on, for any number of contexts and sessions *)
(* and any lines of the service.                                           *)
(*                                                                         *)
(* Between two events the add-on is in one of two situations: it is free,  *)
(* or it runs a session of its bound context.  Inside an event it is       *)
(* engaged: the client may interrupt any of its calls, and what is left    *)
(* when the interrupted handler goes on is an add-on that is free.  Each   *)
(* operator of the model has one lemma that says so.                       *)
(***************************************************************************)
EXTENDS VoiceInput, SequenceTheorems, TLAPS

SessionRecord ==
    [phase : SessionPhases, id : Nat, context : Contexts \cup {NoContext},
     continuous : BOOLEAN, streaming : BOOLEAN, preview : Nat,
     segment : Nat, seq : Nat, pending : Seq(Nat), error : BOOLEAN]

Requests == {"start", "stop", "cancel"}

Panels == {"clear", "status", "preedit", "candidate", "composing"}

Commit == [context : Contexts, id : Nat, segment : Nat, focused : BOOLEAN]

AddonRecord ==
    [s : SessionRecord,
     bound : Contexts \cup {NoContext}, holdContext : Contexts \cup {NoContext},
     holdSession : BOOLEAN, next : Nat, link : {"closed", "connecting", "open"},
     output : Seq(Requests), handshake : BOOLEAN, sent : Seq(Requests),
     focus : Contexts \cup {NoContext}, panel : [Contexts -> Panels],
     typed : Seq(Commit)]

Ghosts == {"preedit", "candidate"}

-----------------------------------------------------------------------------
(* The inductive invariant, of an add-on p, the contexts A that live, those *)
(* that take a password S, and whether the keys are held, h                *)

\* A text of an earlier session than i, or of an earlier segment than g of it.
Before(t, i, c, g) == t.id < i \/ (t.id = i /\ t.context = c /\ t.segment < g)

\* What was typed went to its context, in order, and is of sessions begun.
Wrote(p) ==
    /\ \A k \in DOMAIN p.typed :
         p.typed[k].focused /\ p.typed[k].segment >= 1 /\ p.typed[k].id <= p.next
    /\ \A k \in DOMAIN p.typed : \A j \in 1 .. k - 1 :
         Before(p.typed[j], p.typed[k].id, p.typed[k].context, p.typed[k].segment)

\* A text with these numbers would be the next one.
Follows(p, i, c, g) == \A k \in DOMAIN p.typed : Before(p.typed[k], i, c, g)

\* The add-on outside its bound context, at any point of a handler.
Sound(p, A) ==
    /\ p \in AddonRecord /\ Wrote(p)
    /\ p.focus \in A \cup {NoContext}
    /\ \A c \in A : c # p.bound => p.panel[c] \notin Ghosts

\* A handler works on the bound context c.
Engaged(p, A, c) ==
    /\ Sound(p, A)
    /\ c # NoContext /\ p.bound = c /\ p.holdContext = NoContext /\ ~p.s.error

\* No session; perhaps a hold that is pending, or a connection that is idle.
Free(p, A, h) ==
    /\ Sound(p, A)
    /\ p.bound = NoContext /\ p.s = Blank
    /\ p.holdContext # NoContext => h /\ p.holdContext = p.focus
    /\ p.output = <<>> /\ p.sent = <<>>

\* The requests that the session has made so far.
Asked(s, requests) ==
    CASE s.phase \in {"idle", "connecting", "preview"} -> requests = <<>>
      [] s.phase \in {"starting", "recording"} -> requests = <<"start">>
      [] s.phase \in {"stopping", "transcribing"} ->
           requests \in {<<"start">>, <<"start", "stop">>}

\* The numbers and flags of a session that goes on.
Coherent(s) ==
    /\ s.phase # "idle" /\ s.pending = <<>> /\ ~s.error
    /\ s.segment >= 1 /\ (~s.streaming => s.segment = 1)
    /\ s.phase = "preview" => ~s.streaming
    /\ s.phase \in Early => s.preview = 0 /\ s.segment = 1

\* A session of the bound context, up to what its panel shows.
Active(p, A, S, h) ==
    /\ Engaged(p, A, p.bound)
    /\ p.focus = p.bound /\ p.bound \notin S
    /\ Coherent(p.s) /\ p.s.context = p.bound /\ p.s.id <= p.next
    /\ p.s.continuous /\ p.s.phase \in Early \cup {"recording"} => h /\ p.holdSession
    /\ p.s.phase \in Early => p.handshake /\ p.link # "closed"
    /\ Asked(p.s, p.sent \o p.output)
    /\ Follows(p, p.s.id, p.bound, p.s.segment)

Running(p, A, S, h) ==
    Active(p, A, S, h) /\ (p.panel[p.bound] \in Ghosts => p.s.phase \notin Early)

Fit(p, A, S, h) == Free(p, A, h) \/ Running(p, A, S, h)

IInv ==
    /\ secret \subseteq Contexts /\ alive \subseteq Contexts /\ held \in BOOLEAN
    /\ Fit(addon, alive, secret, held)

-----------------------------------------------------------------------------
(* The helpers of the handlers, field by field                             *)

LEMMA BlankTyped ==
    /\ Blank \in SessionRecord
    /\ Blank.phase = "idle" /\ ~Blank.error /\ Blank.context = NoContext
PROOF
<1>1. Blank \in SessionRecord
  BY DEF SessionRecord, Blank, SessionPhases, NoSession
<1>2. Blank.phase = "idle" /\ ~Blank.error /\ Blank.context = NoContext
  BY DEF Blank
<1> QED BY <1>1, <1>2

\* reset() leaves a session that never was, if no error was noted.
LEMMA ResetIsBlank ==
    ASSUME NEW x \in SessionRecord, ~x.error
    PROVE  Reset(x) = Blank
PROOF
<1>1. x.error = FALSE
  BY DEF SessionRecord
<1>2. [Blank EXCEPT !.error = FALSE] = Blank
  BY BlankTyped DEF SessionRecord
<1> QED BY <1>1, <1>2 DEF Reset

\* The two records agree outside the session, its transport and its owner.
Alike(p, q) ==
    q.next = p.next /\ q.typed = p.typed

LEMMA ClosedFields ==
    ASSUME NEW p \in AddonRecord, NEW q, q = CloseTransport(p)
    PROVE  /\ q \in AddonRecord
           /\ q.link = "closed" /\ q.output = <<>> /\ q.sent = <<>> /\ ~q.handshake
           /\ q.s = p.s /\ q.bound = p.bound /\ q.holdContext = p.holdContext
           /\ q.holdSession = p.holdSession /\ q.focus = p.focus /\ q.panel = p.panel
           /\ Alike(p, q)
PROOF
<1>1. <<>> \in Seq(Requests)
  OBVIOUS
<1>2. q \in AddonRecord
  BY <1>1 DEF AddonRecord, CloseTransport
<1> QED BY <1>2 DEF AddonRecord, CloseTransport, Alike

LEMMA EndedFields ==
    ASSUME NEW p \in AddonRecord, ~p.s.error, NEW q, q = Ended(p)
    PROVE  /\ q \in AddonRecord
           /\ q.link = "closed" /\ q.output = <<>> /\ q.sent = <<>> /\ ~q.handshake
           /\ q.s = Blank /\ q.bound = p.bound /\ q.holdContext = p.holdContext
           /\ ~q.holdSession /\ q.focus = p.focus /\ q.panel = p.panel
           /\ Alike(p, q)
PROOF
<1> DEFINE r == CloseTransport(p)
<1>1. /\ r \in AddonRecord
      /\ r.link = "closed" /\ r.output = <<>> /\ r.sent = <<>> /\ ~r.handshake
      /\ r.s = p.s /\ r.bound = p.bound /\ r.holdContext = p.holdContext
      /\ r.holdSession = p.holdSession /\ r.focus = p.focus /\ r.panel = p.panel
      /\ Alike(p, r)
  BY ClosedFields
<1>2. r.s \in SessionRecord
  BY <1>1 DEF AddonRecord
<1>3. Reset(r.s) = Blank
  BY <1>1, <1>2, ResetIsBlank
<1>4. q = [r EXCEPT !.s = Blank, !.holdSession = FALSE]
  BY <1>3 DEF Ended
<1> HIDE DEF r
<1> QED BY <1>1, <1>4, BlankTyped, ZenonT(60) DEF AddonRecord, Alike

LEMMA UnboundFields ==
    ASSUME NEW p \in AddonRecord, NEW q, q = Unbound(p)
    PROVE  /\ q \in AddonRecord /\ q.bound = NoContext
           /\ q.link = p.link /\ q.output = p.output /\ q.sent = p.sent
           /\ q.handshake = p.handshake
           /\ q.s = p.s /\ q.holdContext = p.holdContext
           /\ q.holdSession = p.holdSession /\ q.focus = p.focus /\ q.panel = p.panel
           /\ Alike(p, q)
BY DEF AddonRecord, Unbound, Alike

LEMMA LeftFields ==
    ASSUME NEW p \in AddonRecord, NEW b \in BOOLEAN, NEW q, q = Left(p, b)
    PROVE  /\ q \in AddonRecord /\ q.focus = IF b THEN NoContext ELSE p.focus
           /\ q.link = p.link /\ q.output = p.output /\ q.sent = p.sent
           /\ q.handshake = p.handshake
           /\ q.s = p.s /\ q.bound = p.bound /\ q.holdContext = p.holdContext
           /\ q.holdSession = p.holdSession /\ q.panel = p.panel
           /\ Alike(p, q)
BY DEF AddonRecord, Left, Alike

LEMMA PanelFields ==
    ASSUME NEW p \in AddonRecord, NEW c \in Contexts, NEW v \in Panels,
           NEW q, q = [p EXCEPT !.panel[c] = v]
    PROVE  /\ q \in AddonRecord
           /\ q.panel[c] = v /\ \A d \in Contexts : d # c => q.panel[d] = p.panel[d]
           /\ q.link = p.link /\ q.output = p.output /\ q.sent = p.sent
           /\ q.handshake = p.handshake
           /\ q.s = p.s /\ q.bound = p.bound /\ q.holdContext = p.holdContext
           /\ q.holdSession = p.holdSession /\ q.focus = p.focus
           /\ Alike(p, q)
BY DEF AddonRecord, Alike

LEMMA HoldClearedFields ==
    ASSUME NEW p \in AddonRecord, NEW q, q = HoldCleared(p)
    PROVE  /\ q \in AddonRecord /\ q.holdContext = NoContext
           /\ q.link = p.link /\ q.output = p.output /\ q.sent = p.sent
           /\ q.handshake = p.handshake
           /\ q.s = p.s /\ q.bound = p.bound
           /\ q.holdSession = p.holdSession /\ q.focus = p.focus /\ q.panel = p.panel
           /\ Alike(p, q)
BY DEF AddonRecord, HoldCleared, Alike

\* Sound looks only at these fields.
LEMMA SoundMoves ==
    ASSUME NEW A, NEW p, Sound(p, A), NEW q \in AddonRecord, Alike(p, q),
           q.focus \in A \cup {NoContext},
           \A c \in A : c # q.bound => q.panel[c] \notin Ghosts
    PROVE  Sound(q, A)
BY DEF Sound, Wrote, Alike

-----------------------------------------------------------------------------
(* A client that interrupts, and the user interface                        *)

\* However the engaged add-on is interrupted, it is free afterwards.
LEMMA CancelledIsFree ==
    ASSUME NEW A \in SUBSET Contexts, NEW h,
           NEW p, NEW c, Engaged(p, A, c), NEW b \in BOOLEAN,
           NEW q, q = CancelledInside(Left(p, b), c)
    PROVE  Free(q, A, h)
PROOF
<1> DEFINE l == Left(p, b)  e == Ended(l)  v == [e EXCEPT !.panel[c] = "clear"]
<1>1. p \in AddonRecord /\ c \in Contexts /\ c # NoContext
  BY DEF Engaged, Sound, AddonRecord
<1>2. /\ l \in AddonRecord /\ l.s = p.s /\ l.bound = c /\ l.holdContext = NoContext
      /\ l.panel = p.panel /\ l.focus \in {p.focus, NoContext} /\ Alike(p, l)
  BY <1>1, LeftFields DEF Engaged
<1>3. ~l.s.error
  BY <1>2 DEF Engaged
<1>4. q = Unbound(v)
  BY <1>1, <1>2 DEF CancelledInside, HoldCancelled
<1> HIDE DEF l
<1>5. /\ e \in AddonRecord /\ e.output = <<>> /\ e.sent = <<>> /\ e.s = Blank
      /\ e.holdContext = NoContext /\ e.focus = l.focus /\ e.panel = p.panel /\ Alike(l, e)
  BY <1>2, <1>3, EndedFields
<1> HIDE DEF e
<1>6. /\ v \in AddonRecord /\ v.output = <<>> /\ v.sent = <<>> /\ v.s = Blank
      /\ v.holdContext = NoContext /\ v.focus = l.focus
      /\ v.panel[c] = "clear" /\ \A d \in Contexts : d # c => v.panel[d] = p.panel[d]
      /\ Alike(e, v)
  BY <1>1, <1>5, PanelFields DEF Panels
<1> HIDE DEF v
<1>7. /\ q \in AddonRecord /\ q.output = <<>> /\ q.sent = <<>> /\ q.s = Blank
      /\ q.holdContext = NoContext /\ q.focus = l.focus /\ q.panel = v.panel
      /\ q.bound = NoContext /\ Alike(v, q)
  BY <1>4, <1>6, UnboundFields
<1>8. Alike(p, q)
  BY <1>2, <1>5, <1>6, <1>7 DEF Alike
<1>9. \A d \in A : q.panel[d] \notin Ghosts
  BY <1>6, <1>7 DEF Engaged, Sound, Ghosts
<1>10. q.focus \in A \cup {NoContext}
  BY <1>2, <1>7 DEF Engaged, Sound
<1>11. Sound(q, A)
  BY <1>7, <1>8, <1>9, <1>10, SoundMoves DEF Engaged
<1> QED BY <1>7, <1>11 DEF Free

LEMMA UiCallOutcome ==
    ASSUME NEW A \in SUBSET Contexts, NEW h,
           NEW p, NEW c, Engaged(p, A, c), NEW q \in UiCall(p, c)
    PROVE  q = p \/ Free(q, A, h)
BY CancelledIsFree DEF UiCall

\* The second of two calls happens only if the first was not interrupted.
LEMMA PublishedOutcome ==
    ASSUME NEW A \in SUBSET Contexts, NEW h,
           NEW p, NEW c, Engaged(p, A, c), NEW q \in Published(p, c)
    PROVE  q = p \/ Free(q, A, h)
PROOF
<1>1. PICK r \in UiCall(p, c) : q \in IF Shows(r, c) THEN UiCall(r, c) ELSE {r}
  BY DEF Published
<1>2. r = p \/ Free(r, A, h)
  BY UiCallOutcome
<1>3. CASE r = p
  BY <1>1, <1>3, UiCallOutcome
<1>4. CASE Free(r, A, h)
  BY <1>1, <1>4 DEF Free, Shows
<1> QED BY <1>2, <1>3, <1>4

\* A panel of the bound context that shows something else.
LEMMA PanelEngaged ==
    ASSUME NEW A \in SUBSET Contexts,
           NEW p, NEW c, Engaged(p, A, c), NEW v \in Panels,
           NEW q, q = [p EXCEPT !.panel[c] = v]
    PROVE  Engaged(q, A, c)
PROOF
<1>1. p \in AddonRecord /\ c \in Contexts
  BY DEF Engaged, Sound, AddonRecord
<1>2. /\ q \in AddonRecord /\ \A d \in Contexts : d # c => q.panel[d] = p.panel[d]
      /\ q.s = p.s /\ q.bound = p.bound /\ q.holdContext = p.holdContext
      /\ q.focus = p.focus /\ Alike(p, q)
  BY <1>1, PanelFields
<1>3. \A d \in A : d # q.bound => q.panel[d] \notin Ghosts
  BY <1>2 DEF Engaged, Sound
<1>4. Sound(q, A)
  BY <1>2, <1>3, SoundMoves DEF Engaged, Sound
<1> QED BY <1>2, <1>4 DEF Engaged

LEMMA ClearUiOutcome ==
    ASSUME NEW A \in SUBSET Contexts, NEW h,
           NEW p, NEW c, Engaged(p, A, c), NEW q \in ClearUi(p, c)
    PROVE  q = [p EXCEPT !.panel[c] = "clear"] \/ Free(q, A, h)
PROOF
<1> DEFINE r == [p EXCEPT !.panel[c] = "clear"]
<1>1. Engaged(r, A, c)
  BY PanelEngaged DEF Panels
<1>2. q \in PublishedIfFocused(r, c)
  BY DEF ClearUi, Engaged
<1> HIDE DEF r
<1>3. q = r \/ Free(q, A, h)
  BY <1>1, <1>2, PublishedOutcome DEF PublishedIfFocused
<1> QED BY <1>3 DEF r

LEMMA ShowStatusOutcome ==
    ASSUME NEW A \in SUBSET Contexts, NEW h,
           NEW p, NEW c, Engaged(p, A, c), p.focus = c, NEW q \in ShowStatus(p, c)
    PROVE  q = [p EXCEPT !.panel[c] = "status"] \/ Free(q, A, h)
PROOF
<1> DEFINE r == [p EXCEPT !.panel[c] = "status"]
<1>1. Engaged(r, A, c)
  BY PanelEngaged DEF Panels
<1>2. q \in Published(r, c)
  BY DEF ShowStatus, Shows, Engaged
<1> HIDE DEF r
<1>3. q = r \/ Free(q, A, h)
  BY <1>1, <1>2, PublishedOutcome
<1> QED BY <1>3 DEF r

LEMMA DrawnPanel == \A s \in SessionRecord : Drawn(s) \in Panels
BY DEF Drawn, Panels

LEMMA UpdateUiOutcome ==
    ASSUME NEW A \in SUBSET Contexts, NEW h,
           NEW p, NEW c, Engaged(p, A, c), p.focus = c, NEW q \in UpdateUi(p, c)
    PROVE  q = [p EXCEPT !.panel[c] = Drawn(p.s)] \/ Free(q, A, h)
PROOF
<1> DEFINE r == [p EXCEPT !.panel[c] = Drawn(p.s)]
<1>1. p.s \in SessionRecord
  BY DEF Engaged, Sound, AddonRecord
<1>2. Engaged(r, A, c)
  BY <1>1, DrawnPanel, PanelEngaged
<1>3. q \in IF p.s.phase = "idle" THEN {r} ELSE Published(r, c)
  BY DEF UpdateUi, Shows, Engaged
<1> HIDE DEF r
<1>4. q = r \/ Free(q, A, h)
  BY <1>2, <1>3, PublishedOutcome
<1> QED BY <1>4 DEF r

-----------------------------------------------------------------------------
(* What leaves the add-on free                                             *)

\* Once the session is over and its context given up, nothing of it is left.
LEMMA GivenUp ==
    ASSUME NEW A \in SUBSET Contexts, NEW h,
           NEW p, NEW c, Engaged(p, A, c),
           NEW q \in AddonRecord, Alike(p, q), q.focus = p.focus,
           q.bound = NoContext, q.holdContext = NoContext,
           q.s = Blank, q.output = <<>>, q.sent = <<>>,
           q.panel[c] \notin Ghosts \/ c \notin A,
           \A d \in Contexts : d # c => q.panel[d] = p.panel[d]
    PROVE  Free(q, A, h)
PROOF
<1>1. \A d \in A : q.panel[d] \notin Ghosts
  BY DEF Engaged, Sound
<1>2. Sound(q, A)
  BY <1>1, SoundMoves DEF Engaged, Sound
<1> QED BY <1>2 DEF Free

LEMMA UnboundGivenUp ==
    ASSUME NEW A \in SUBSET Contexts, NEW h,
           NEW p, NEW c, Engaged(p, A, c), NEW v \in {"clear", "status"},
           p.s = Blank, p.output = <<>>, p.sent = <<>>,
           NEW q, q = Unbound([p EXCEPT !.panel[c] = v])
    PROVE  Free(q, A, h)
PROOF
<1> DEFINE r == [p EXCEPT !.panel[c] = v]
<1>1. p \in AddonRecord /\ c \in Contexts
  BY DEF Engaged, Sound, AddonRecord
<1>2. /\ r \in AddonRecord /\ r.panel[c] = v
      /\ \A d \in Contexts : d # c => r.panel[d] = p.panel[d]
      /\ r.s = Blank /\ r.holdContext = NoContext /\ r.output = <<>> /\ r.sent = <<>>
      /\ r.focus = p.focus /\ Alike(p, r)
  BY <1>1, PanelFields DEF Panels, Engaged
<1>3. q = Unbound(r)
  OBVIOUS
<1> HIDE DEF r
<1>4. /\ q \in AddonRecord /\ q.bound = NoContext /\ q.panel = r.panel
      /\ q.s = Blank /\ q.holdContext = NoContext /\ q.output = <<>> /\ q.sent = <<>>
      /\ q.focus = p.focus /\ Alike(r, q)
  BY <1>2, <1>3, UnboundFields
<1>5. Alike(p, q) /\ q.panel[c] \notin Ghosts
  BY <1>2, <1>4 DEF Alike, Ghosts
<1> QED BY <1>2, <1>4, <1>5, GivenUp

LEMMA UnboundFree ==
    ASSUME NEW A, NEW h, NEW p, Free(p, A, h)
    PROVE  Unbound(p) = p
BY DEF Free, Sound, Unbound, AddonRecord

LEMMA EndedEngaged ==
    ASSUME NEW A \in SUBSET Contexts, NEW p, NEW c, Engaged(p, A, c),
           NEW q, q = Ended(p)
    PROVE  /\ Engaged(q, A, c) /\ q.s = Blank /\ q.output = <<>> /\ q.sent = <<>>
           /\ q.focus = p.focus /\ q.link = "closed"
PROOF
<1>1. p \in AddonRecord /\ ~p.s.error
  BY DEF Engaged, Sound
<1>2. /\ q \in AddonRecord /\ q.output = <<>> /\ q.sent = <<>> /\ q.link = "closed"
      /\ q.s = Blank /\ q.bound = p.bound /\ q.holdContext = p.holdContext
      /\ q.focus = p.focus /\ q.panel = p.panel /\ Alike(p, q)
  BY <1>1, EndedFields
<1>3. Sound(q, A)
  BY <1>2, SoundMoves DEF Engaged, Sound
<1> QED BY <1>2, <1>3, BlankTyped DEF Engaged

\* failTransport() with or without a session
LEMMA FailedIsFree ==
    ASSUME NEW A \in SUBSET Contexts, NEW h,
           NEW p, (Engaged(p, A, p.bound) /\ p.focus = p.bound) \/ Free(p, A, h),
           NEW q \in FailTransport(p)
    PROVE  Free(q, A, h)
PROOF
<1> DEFINE e == Ended(p)
<1>1. PICK r \in ShowStatus(e, p.bound) : q = Unbound(r)
  BY DEF FailTransport
<1>2. CASE Engaged(p, A, p.bound) /\ p.focus = p.bound
  <2>1. /\ Engaged(e, A, p.bound) /\ e.s = Blank /\ e.output = <<>> /\ e.sent = <<>>
        /\ e.focus = p.bound
    BY <1>2, EndedEngaged
  <2> HIDE DEF e
  <2>2. r = [e EXCEPT !.panel[p.bound] = "status"] \/ Free(r, A, h)
    BY <2>1, ShowStatusOutcome
  <2> QED BY <1>1, <2>1, <2>2, UnboundGivenUp, UnboundFree
<1>3. CASE Free(p, A, h)
  <2>1. p \in AddonRecord /\ p.bound = NoContext /\ ~p.s.error
    BY <1>3, BlankTyped DEF Free, Sound
  <2>2. /\ e \in AddonRecord /\ e.output = <<>> /\ e.sent = <<>> /\ e.s = Blank
        /\ e.bound = NoContext /\ e.holdContext = p.holdContext /\ e.focus = p.focus
        /\ e.panel = p.panel /\ Alike(p, e)
    BY <2>1, EndedFields
  <2>3. r = e
    BY <1>1, <2>1 DEF ShowStatus, Shows
  <2> HIDE DEF e
  <2>4. Sound(e, A)
    BY <1>3, <2>2, SoundMoves DEF Free, Sound
  <2>5. Free(e, A, h)
    BY <1>3, <2>2, <2>4 DEF Free
  <2> QED BY <1>1, <2>3, <2>5, UnboundFree
<1> QED BY <1>2, <1>3

\* cancelFor() of the bound context; its panel stays when it is gone
LEMMA CancelBound ==
    ASSUME NEW A \in SUBSET Contexts, NEW h,
           NEW p, NEW c, Engaged(p, A, c), NEW ui \in BOOLEAN, ui \/ c \notin A,
           NEW q \in CancelFor(p, c, ui)
    PROVE  Free(q, A, h)
PROOF
<1> DEFINE e == Ended(p)
<1>1. HoldCancelled(p, c) = p
  BY DEF HoldCancelled, Engaged
<1>2. PICK r \in IF ui THEN ClearUi(e, c) ELSE {e} : q = Unbound(r)
  BY <1>1 DEF CancelFor, Engaged
<1>3. Engaged(e, A, c) /\ e.s = Blank /\ e.output = <<>> /\ e.sent = <<>>
  BY EndedEngaged
<1> HIDE DEF e
<1>4. CASE ui
  <2>1. r = [e EXCEPT !.panel[c] = "clear"] \/ Free(r, A, h)
    BY <1>2, <1>3, <1>4, ClearUiOutcome
  <2> QED BY <1>2, <1>3, <2>1, UnboundGivenUp, UnboundFree
<1>5. CASE ~ui
  <2>1. r = e /\ e \in AddonRecord
    BY <1>2, <1>3, <1>5 DEF Engaged, Sound
  <2>2. /\ q \in AddonRecord /\ q.output = <<>> /\ q.sent = <<>> /\ q.s = Blank
        /\ q.bound = NoContext /\ q.holdContext = NoContext /\ q.focus = e.focus
        /\ q.panel = e.panel /\ Alike(e, q)
    BY <1>2, <1>3, <2>1, UnboundFields DEF Engaged
  <2> QED BY <1>3, <1>5, <2>2, GivenUp
<1> QED BY <1>4, <1>5

-----------------------------------------------------------------------------
(* Text and requests                                                       *)

\* The text of segment g of session i is typed into c.
Commitment(c, i, g) == [context |-> c, id |-> i, segment |-> g, focused |-> TRUE]

Typing(p, c, i, g) == [p EXCEPT !.typed = Append(@, Commitment(c, i, g))]

\* The bound context has the focus, and text i, g is the next one for it.
Awaits(p, A, c, i, g) ==
    /\ Engaged(p, A, c) /\ p.focus = c
    /\ i \in Nat /\ i <= p.next /\ g \in Nat /\ g >= 1 /\ Follows(p, i, c, g)

\* The text that is committed is the next one, and reaches its context.
LEMMA CommitOutcome ==
    ASSUME NEW A \in SUBSET Contexts, NEW h,
           NEW p, NEW c, NEW i, NEW g, Awaits(p, A, c, i, g),
           NEW q \in CommitString(p, c, i, g)
    PROVE  Free(q, A, h) \/ (q = Typing(p, c, i, g) /\ Engaged(q, A, c))
PROOF
<1>0. /\ Engaged(p, A, c) /\ p.focus = c
      /\ i \in Nat /\ i <= p.next /\ g \in Nat /\ g >= 1 /\ Follows(p, i, c, g)
  BY DEF Awaits
<1> DEFINE t == Commitment(c, i, g)  r == [p EXCEPT !.typed = Append(@, t)]
<1>1. p \in AddonRecord /\ c \in Contexts /\ p.next \in Nat /\ p.typed \in Seq(Commit)
  BY <1>0 DEF Engaged, Sound, AddonRecord
<1>2. t \in Commit /\ t.focused /\ t.segment = g /\ t.id = i /\ t.context = c
  BY <1>0, <1>1 DEF Commit, Commitment
<1> HIDE DEF t
<1>3. /\ Append(p.typed, t) \in Seq(Commit)
      /\ DOMAIN Append(p.typed, t) = 1 .. Len(p.typed) + 1
      /\ DOMAIN p.typed = 1 .. Len(p.typed) /\ Len(p.typed) \in Nat
      /\ \A k \in 1 .. Len(p.typed) : Append(p.typed, t)[k] = p.typed[k]
      /\ Append(p.typed, t)[Len(p.typed) + 1] = t
  BY <1>1, <1>2
<1>4. /\ r \in AddonRecord /\ r.typed = Append(p.typed, t)
      /\ r.s = p.s /\ r.bound = p.bound /\ r.holdContext = p.holdContext
      /\ r.focus = p.focus /\ r.panel = p.panel /\ r.next = p.next
  BY <1>1, <1>3 DEF AddonRecord
<1>5. (p.bound = c /\ p.focus = c) = TRUE
  BY <1>0 DEF Engaged
<1>6. [context |-> c, id |-> i, segment |-> g, focused |-> p.bound = c /\ p.focus = c] = t
  BY <1>5 DEF Commitment, t
<1>7. q = r \/ \E b \in BOOLEAN : q \in CancelFor(Left(r, b), c, TRUE)
  <2>1. [p EXCEPT !.typed = Append(@,
           [context |-> c, id |-> i, segment |-> g,
            focused |-> p.bound = c /\ p.focus = c])] = r
    BY <1>6
  <2> HIDE DEF r
  <2> QED BY <2>1 DEF CommitString
<1> HIDE DEF r
<1>8. Wrote(r)
  <2>1. \A k \in DOMAIN r.typed : k \in DOMAIN p.typed \/ k = Len(p.typed) + 1
    BY <1>3, <1>4
  <2>2. \A k \in DOMAIN r.typed :
          r.typed[k].focused /\ r.typed[k].segment >= 1 /\ r.typed[k].id <= r.next
    BY <1>0, <1>1, <1>2, <1>3, <1>4, <2>1 DEF Engaged, Sound, Wrote
  <2>3. \A k \in DOMAIN p.typed : Before(p.typed[k], t.id, t.context, t.segment)
    BY <1>0, <1>2 DEF Follows
  <2>4. \A k \in DOMAIN p.typed : \A j \in 1 .. k - 1 :
          Before(r.typed[j], r.typed[k].id, r.typed[k].context, r.typed[k].segment)
    BY <1>0, <1>3, <1>4 DEF Engaged, Sound, Wrote
  <2>5. \A j \in 1 .. Len(p.typed) : Before(r.typed[j], t.id, t.context, t.segment)
    BY <1>3, <1>4, <2>3
  <2>6. \A k \in DOMAIN r.typed : \A j \in 1 .. k - 1 :
          Before(r.typed[j], r.typed[k].id, r.typed[k].context, r.typed[k].segment)
    BY <1>3, <1>4, <2>1, <2>4, <2>5
  <2> QED BY <2>2, <2>6 DEF Wrote
<1>9. Sound(r, A)
  BY <1>0, <1>4, <1>8 DEF Engaged, Sound
<1>10. Engaged(r, A, c)
  BY <1>0, <1>4, <1>9 DEF Engaged
<1>11. ASSUME NEW b \in BOOLEAN, q \in CancelFor(Left(r, b), c, TRUE)
       PROVE  Free(q, A, h)
  <2> DEFINE l == Left(r, b)
  <2>1. /\ l \in AddonRecord /\ l.focus \in {r.focus, NoContext}
        /\ l.s = r.s /\ l.bound = r.bound /\ l.holdContext = r.holdContext
        /\ l.panel = r.panel /\ Alike(r, l)
    BY <1>4, LeftFields
  <2> HIDE DEF l
  <2>2. Sound(l, A)
    BY <1>9, <2>1, SoundMoves DEF Sound
  <2>3. Engaged(l, A, c)
    BY <1>10, <2>1, <2>2 DEF Engaged
  <2> QED BY <1>11, <2>3, CancelBound DEF l
<1> QED BY <1>7, <1>10, <1>11 DEF r, t, Typing

\* Taking the head of what waits and adding it to what was sent.
LEMMA Joined ==
    \A a, b \in Seq(Requests) : \A k \in 0 .. Len(b) :
        /\ a \o SubSeq(b, 1, k) \in Seq(Requests)
        /\ SubSeq(b, k + 1, Len(b)) \in Seq(Requests)
        /\ (a \o SubSeq(b, 1, k)) \o SubSeq(b, k + 1, Len(b)) = a \o b
PROOF
<1> TAKE a, b \in Seq(Requests)
<1> TAKE k \in 0 .. Len(b)
<1> DEFINE u == SubSeq(b, 1, k)  v == SubSeq(b, k + 1, Len(b))
<1>1. Len(b) \in Nat /\ 1 \in 1 .. Len(b) + 1 /\ k \in 1 - 1 .. Len(b) /\ Len(b) \in k .. Len(b)
  OBVIOUS
<1>2. u \o v = SubSeq(b, 1, Len(b))
  BY <1>1, ConcatAdjacentSubSeq
<1>3. SubSeq(b, 1, Len(b)) = b
  BY SubSeqFull
<1>4. u \in Seq(Requests) /\ v \in Seq(Requests)
  OBVIOUS
<1> HIDE DEF u, v
<1>5. a \o u \in Seq(Requests) /\ (a \o u) \o v = a \o (u \o v)
  BY <1>4, ConcatAssociative, SMTT(30)
<1> QED BY <1>2, <1>3, <1>4, <1>5 DEF u, v

LEMMA Lengthened ==
    \A a, b \in Seq(Requests) : \A x \in Requests :
        Append(b, x) \in Seq(Requests) /\ a \o Append(b, x) = Append(a \o b, x)
PROOF
<1> TAKE a, b \in Seq(Requests)
<1> TAKE x \in Requests
<1>1. Append(b, x) \in Seq(Requests) /\ a \o b \in Seq(Requests) /\ <<x>> \in Seq(Requests)
  OBVIOUS
<1>2. Append(b, x) = b \o <<x>> /\ Append(a \o b, x) = (a \o b) \o <<x>>
  BY <1>1, AppendIsConcat
<1>3. (a \o b) \o <<x>> = a \o (b \o <<x>>)
  BY <1>1, ConcatAssociative
<1> QED BY <1>1, <1>2, <1>3

LEMMA NothingJoined ==
    ASSUME NEW S, NEW a \in Seq(S), NEW b \in Seq(S), a \o b = <<>>
    PROVE  a = <<>> /\ b = <<>>
OBVIOUS

\* Only the requests under way differ, and requests is what they are in q.
Sends(p, q, requests) ==
    /\ q \in AddonRecord /\ q.sent \o q.output = requests
    /\ q.s = p.s /\ q.bound = p.bound /\ q.holdContext = p.holdContext
    /\ q.holdSession = p.holdSession /\ q.focus = p.focus /\ q.panel = p.panel
    /\ q.link = p.link /\ q.handshake = p.handshake /\ Alike(p, q)

\* flush() loses no request, unless it gives the session up.
LEMMA FlushOutcome ==
    ASSUME NEW A \in SUBSET Contexts, NEW h,
           NEW p, (Engaged(p, A, p.bound) /\ p.focus = p.bound) \/ Free(p, A, h),
           NEW q \in Flush(p)
    PROVE  Free(q, A, h) \/ Sends(p, q, p.sent \o p.output)
PROOF
<1>1. p \in AddonRecord /\ p.sent \in Seq(Requests) /\ p.output \in Seq(Requests)
  BY DEF Engaged, Free, Sound, AddonRecord
<1>2. CASE q \in FailTransport(p)
  BY <1>2, FailedIsFree
<1>3. ASSUME NEW k \in 0 .. Len(p.output),
             q = [p EXCEPT !.sent = @ \o SubSeq(p.output, 1, k),
                           !.output = SubSeq(@, k + 1, Len(@))]
      PROVE  Sends(p, q, p.sent \o p.output)
  <2> DEFINE a == p.sent \o SubSeq(p.output, 1, k)
             b == SubSeq(p.output, k + 1, Len(p.output))
  <2>1. a \in Seq(Requests) /\ b \in Seq(Requests) /\ a \o b = p.sent \o p.output
    BY <1>1, Joined
  <2>2. q = [p EXCEPT !.sent = a, !.output = b]
    BY <1>3
  <2> HIDE DEF a, b
  <2> QED BY <1>1, <2>1, <2>2 DEF Sends, AddonRecord, Alike
<1> QED BY <1>2, <1>3 DEF Flush

LEMMA QueueOutcome ==
    ASSUME NEW A \in SUBSET Contexts, NEW h,
           NEW p, Engaged(p, A, p.bound), p.focus = p.bound, NEW request \in Requests,
           NEW q \in Queue(p, request)
    PROVE  Free(q, A, h) \/ Sends(p, q, Append(p.sent \o p.output, request))
PROOF
<1> DEFINE r == [p EXCEPT !.output = Append(@, request)]
           all == Append(p.sent \o p.output, request)
<1>1. p \in AddonRecord /\ p.sent \in Seq(Requests) /\ p.output \in Seq(Requests)
  BY DEF Engaged, Sound, AddonRecord
<1>2. Append(p.output, request) \in Seq(Requests) /\ p.sent \o Append(p.output, request) = all
  BY <1>1, Lengthened
<1>3. Sends(p, r, all)
  <2>1. r.sent \o r.output = all
    BY <1>1, <1>2 DEF AddonRecord
  <2> HIDE DEF all
  <2> QED BY <1>1, <1>2, <2>1 DEF Sends, AddonRecord, Alike
<1>4. q \in IF r.link = "open" THEN Flush(r) ELSE {r}
  BY DEF Queue
<1> HIDE DEF r, all
<1>5. Sound(r, A)
  BY <1>3, SoundMoves DEF Sends, Engaged, Sound
<1>6. Engaged(r, A, r.bound) /\ r.focus = r.bound
  BY <1>3, <1>5 DEF Sends, Engaged
<1>7. Free(q, A, h) \/ Sends(r, q, r.sent \o r.output) \/ q = r
  BY <1>4, <1>6, FlushOutcome
<1>8. Sends(r, q, r.sent \o r.output) => Sends(p, q, all)
  BY <1>3 DEF Sends, Alike
<1> QED BY <1>3, <1>7, <1>8 DEF all

-----------------------------------------------------------------------------
(* A session that goes on                                                  *)

LEMMA ActiveBound ==
    ASSUME NEW A \in SUBSET Contexts, NEW S, NEW h,
           NEW p, Active(p, A, S, h)
    PROVE  /\ Engaged(p, A, p.bound) /\ p.focus = p.bound
           /\ p \in AddonRecord /\ p.s \in SessionRecord
           /\ p.bound \in Contexts /\ p.bound # NoContext
           /\ p.sent \in Seq(Requests) /\ p.output \in Seq(Requests)
PROOF
<1>1. Engaged(p, A, p.bound) /\ p.focus = p.bound /\ p \in AddonRecord
  BY DEF Active, Engaged, Sound
<1>2. p.bound # NoContext
  BY <1>1 DEF Engaged
<1> QED BY <1>1, <1>2 DEF AddonRecord

\* The session stays as it is, the add-on changes where that does not matter.
LEMMA ActiveMoves ==
    ASSUME NEW A \in SUBSET Contexts, NEW S, NEW h,
           NEW p, Active(p, A, S, h),
           NEW q \in AddonRecord, Alike(p, q),
           q.s = p.s, q.bound = p.bound, q.focus = p.focus,
           q.holdContext = p.holdContext, q.holdSession = p.holdSession,
           \/ p.s.phase \notin Early
           \/ q.handshake = p.handshake /\ q.link \in {p.link, "open"},
           q.sent \o q.output = p.sent \o p.output,
           \A d \in Contexts : d # p.bound => q.panel[d] = p.panel[d]
    PROVE  Active(q, A, S, h)
PROOF
<1>1. \A d \in A : d # q.bound => q.panel[d] \notin Ghosts
  BY DEF Active, Engaged, Sound
<1>2. Sound(q, A)
  BY <1>1, SoundMoves DEF Active, Engaged, Sound
<1>3. Engaged(q, A, q.bound)
  BY <1>2 DEF Active, Engaged
<1> QED BY <1>3 DEF Active, Alike, Follows

\* updateUi() shows a session that goes on, and it still does, or the client
\* has ended it.
LEMMA UpdateUiFits ==
    ASSUME NEW A \in SUBSET Contexts, NEW S, NEW h,
           NEW p, Active(p, A, S, h), NEW c, c = p.bound, NEW q \in UpdateUi(p, c)
    PROVE  Free(q, A, h) \/ (Running(q, A, S, h) /\ q.s = p.s)
PROOF
<1> DEFINE v == Drawn(p.s)  r == [p EXCEPT !.panel[c] = v]
<1>1. /\ Engaged(p, A, c) /\ p.focus = c /\ p.bound = c
      /\ p \in AddonRecord /\ p.s \in SessionRecord /\ c \in Contexts
  BY ActiveBound
<1>2. q = r \/ Free(q, A, h)
  BY <1>1, UpdateUiOutcome
<1>3. v \in Panels /\ (p.s.phase \in Early => v \notin Ghosts)
  <2>1. v \in Panels
    BY <1>1, DrawnPanel
  <2>2. p.s.phase \in Early => v \notin Ghosts
    BY DEF Active, Coherent, Early, Drawn, Ghosts
  <2> QED BY <2>1, <2>2
<1> HIDE DEF v
<1>4. /\ r \in AddonRecord /\ r.panel[c] = v
      /\ \A d \in Contexts : d # c => r.panel[d] = p.panel[d]
      /\ r.link = p.link /\ r.output = p.output /\ r.sent = p.sent
      /\ r.handshake = p.handshake
      /\ r.s = p.s /\ r.bound = c /\ r.holdContext = p.holdContext
      /\ r.holdSession = p.holdSession /\ r.focus = p.focus
      /\ Alike(p, r)
  BY <1>1, <1>3 DEF AddonRecord, Alike
<1> HIDE DEF r
<1>5. Active(r, A, S, h)
  BY <1>4, ActiveMoves
<1>6. Running(r, A, S, h)
  BY <1>1, <1>3, <1>4, <1>5 DEF Running
<1> QED BY <1>2, <1>4, <1>6 DEF r, v

\* The end of handleLine for a session that goes on.  In a preview the
\* connection is closed before that counts.
LEMMA SettledFits ==
    ASSUME NEW A \in SUBSET Contexts, NEW S, NEW h,
           NEW p, NEW c, p.bound = c,
           p.s.phase # "preview" => Active(p, A, S, h),
           p.s.phase = "preview" => Active(CloseTransport(p), A, S, h) /\ p \in AddonRecord,
           NEW q \in Settled(p, c)
    PROVE  Fit(q, A, S, h)
PROOF
<1>1. CASE p.s.phase = "preview"
  <2> DEFINE r == CloseTransport(p)
  <2>1. q \in UpdateUi(r, c)
    BY <1>1 DEF Settled
  <2>2. r.bound = c
    BY <1>1, ClosedFields
  <2> HIDE DEF r
  <2> QED BY <1>1, <2>1, <2>2, UpdateUiFits DEF Fit, r
<1>2. CASE p.s.phase = "recording"
  <2> DEFINE r == [p EXCEPT !.handshake = FALSE]
  <2>1. r.s.phase = "recording" /\ p \in AddonRecord
    BY <1>2, ActiveBound DEF AddonRecord
  <2>2. q \in UpdateUi(r, c)
    BY <1>2, <2>1 DEF Settled
  <2>3. /\ r \in AddonRecord /\ r.link = p.link /\ r.output = p.output /\ r.sent = p.sent
        /\ r.s = p.s /\ r.bound = p.bound /\ r.holdContext = p.holdContext
        /\ r.holdSession = p.holdSession /\ r.focus = p.focus /\ r.panel = p.panel
        /\ Alike(p, r)
    BY <2>1 DEF AddonRecord, Alike
  <2> HIDE DEF r
  <2>4. Active(r, A, S, h)
    BY <1>2, <2>3, ActiveMoves DEF Early
  <2> QED BY <2>2, <2>3, <2>4, UpdateUiFits DEF Fit
<1>3. CASE p.s.phase \notin {"preview", "recording"}
  <2>1. p.s.phase # "idle"
    BY <1>3 DEF Active, Coherent
  <2>2. q \in UpdateUi(p, c)
    BY <1>3, <2>1 DEF Settled
  <2> QED BY <1>3, <2>2, UpdateUiFits DEF Fit
<1> QED BY <1>1, <1>2, <1>3

\* The end of handleLine for a session that is over, with an error or not.
LEMMA SettledOver ==
    ASSUME NEW A \in SUBSET Contexts, NEW h,
           NEW p, NEW c, Sound(p, A), p.bound = c, c # NoContext, p.focus = c,
           p.holdContext = NoContext,
           p.s = Blank \/ p.s = [Blank EXCEPT !.error = TRUE],
           NEW q \in Settled(p, c)
    PROVE  Free(q, A, h)
PROOF
<1> DEFINE w == [p EXCEPT !.handshake = FALSE]
           x == [w EXCEPT !.holdSession = FALSE, !.s.error = FALSE]
           e == CloseTransport(x)
<1>1. p \in AddonRecord /\ p.s.phase = "idle"
  BY BlankTyped DEF Sound, SessionRecord
<1>2. /\ w \in AddonRecord /\ w.s = p.s /\ w.bound = c /\ w.holdContext = NoContext
      /\ w.focus = c /\ w.panel = p.panel /\ Alike(p, w)
  BY <1>1 DEF AddonRecord, Alike
<1>3. \E r \in IF w.s.error THEN ShowStatus(e, c) ELSE ClearUi(e, c) : q = Unbound(r)
  BY <1>1, <1>2 DEF Settled
<1> HIDE DEF w
<1>4. [w.s EXCEPT !.error = FALSE] = Blank
  BY <1>2, BlankTyped DEF SessionRecord
<1>5. /\ x \in AddonRecord /\ x.s = Blank /\ x.bound = c /\ x.holdContext = NoContext
      /\ x.focus = c /\ x.panel = p.panel /\ Alike(p, x)
  <2>1. x = [w EXCEPT !.holdSession = FALSE, !.s = Blank]
    BY <1>2, <1>4 DEF AddonRecord
  <2> HIDE DEF x
  <2> QED BY <1>2, <2>1, BlankTyped DEF AddonRecord, Alike
<1> HIDE DEF x
<1>6. /\ e \in AddonRecord /\ e.output = <<>> /\ e.sent = <<>>
      /\ e.s = Blank /\ e.bound = c /\ e.holdContext = NoContext
      /\ e.focus = c /\ e.panel = p.panel /\ Alike(x, e)
  BY <1>5, ClosedFields
<1> HIDE DEF e
<1>7. Alike(p, e)
  BY <1>5, <1>6 DEF Alike
<1>8. Sound(e, A)
  BY <1>6, <1>7, SoundMoves DEF Sound
<1>9. Engaged(e, A, c)
  BY <1>6, <1>8, BlankTyped DEF Engaged
<1>10. PICK r \in ShowStatus(e, c) \cup ClearUi(e, c) : q = Unbound(r)
  BY <1>3
<1>11. \/ r = [e EXCEPT !.panel[c] = "status"] \/ r = [e EXCEPT !.panel[c] = "clear"]
       \/ Free(r, A, h)
  BY <1>6, <1>9, <1>10, ShowStatusOutcome, ClearUiOutcome
<1>12. CASE Free(r, A, h)
  BY <1>10, <1>12, UnboundFree
<1>13. CASE r = [e EXCEPT !.panel[c] = "status"] \/ r = [e EXCEPT !.panel[c] = "clear"]
  BY <1>6, <1>9, <1>10, <1>13, UnboundGivenUp
<1> QED BY <1>11, <1>12, <1>13

-----------------------------------------------------------------------------
(* A line of the service                                                   *)

Message ==
    [type : {"ready", "busy", "error", "recording", "transcribing", "result",
             "partial", "final", "finished", "cancelled"},
     id : Nat, protocol : Nat, segment : Nat, seq : Nat, text : Nat, valid : BOOLEAN]

\* A line lets the session s go on as y.
Advances(s, y) ==
    /\ Coherent(y)
    /\ y.id = s.id /\ y.context = s.context /\ y.continuous = s.continuous
    /\ y.segment = s.segment
    /\ \/ y.phase = "recording" /\ s.phase = "starting"
       \/ y.phase = "transcribing" /\ s.phase \in {"recording", "stopping"}
       \/ y.phase = "preview"
       \/ y.phase = s.phase /\ s.phase \in Hearing

\* A final of segment g is pending.
Finals(s, y, g) ==
    /\ g = s.segment /\ y.segment = g + 1
    /\ y.pending # <<>> /\ Coherent([y EXCEPT !.pending = <<>>])
    /\ y.id = s.id /\ y.context = s.context /\ y.continuous = s.continuous
    /\ y.phase = s.phase /\ s.phase \in Hearing

LEMMA TextedCases ==
    ASSUME NEW s \in SessionRecord, Coherent(s), s.streaming, s.phase \in Hearing,
           NEW m \in Message, m.type \in {"partial", "final"},
           NEW y, y = Texted(s, m)
    PROVE  /\ y \in SessionRecord
           /\ y = s \/ Advances(s, y) \/ Finals(s, y, m.segment)
PROOF
<1>1. CASE ~ExpectedText(s, m)
  BY <1>1 DEF Texted
<1>2. CASE ExpectedText(s, m) /\ m.type = "partial"
  <2>1. y = [s EXCEPT !.seq = m.seq, !.preview = m.text]
    BY <1>2 DEF Texted
  <2> QED BY <2>1 DEF SessionRecord, Message, Advances, Coherent, Hearing, Early
<1>3. CASE ExpectedText(s, m) /\ m.type # "partial"
  <2>1. <<m.text>> \in Seq(Nat) /\ <<m.text>> # <<>> /\ s.segment + 1 \in Nat
    BY DEF SessionRecord, Message
  <2> DEFINE n == s.segment + 1  x == <<m.text>>
  <2>2. y = [s EXCEPT !.seq = m.seq, !.preview = 0, !.pending = x, !.segment = n]
    BY <1>3 DEF Texted
  <2>3. m.segment = s.segment
    BY <1>3 DEF ExpectedText
  <2> HIDE DEF n, x
  <2>4. y \in SessionRecord
    <3>1. x \in Seq(Nat) /\ n \in Nat
      BY <2>1 DEF n, x
    <3>2. m.seq \in Nat /\ 0 \in Nat
      BY DEF Message
    <3> QED BY <2>2, <3>1, <3>2 DEF SessionRecord
  <2>5. /\ y.segment = n /\ y.pending = x
        /\ y.id = s.id /\ y.context = s.context /\ y.continuous = s.continuous
        /\ y.phase = s.phase /\ y.streaming = s.streaming /\ y.error = s.error
        /\ y.preview = 0
    BY <2>2 DEF SessionRecord
  <2>6. s.segment + 1 >= 1
    BY DEF SessionRecord
  <2>7. Coherent([y EXCEPT !.pending = <<>>])
    BY <2>4, <2>5, <2>6 DEF Coherent, SessionRecord, Hearing, Early, n
  <2> QED BY <2>1, <2>3, <2>4, <2>5, <2>7 DEF Finals, n, x
<1> QED BY <1>1, <1>2, <1>3

\* What a line does to a session, other than the `ready' that is due.
LEMMA HeardCases ==
    ASSUME NEW s \in SessionRecord, Coherent(s), NEW m \in Message,
           NEW y, y = Heard(s, m)
    PROVE  /\ y \in SessionRecord
           /\ \/ y = s \/ y = Blank \/ y = [Blank EXCEPT !.error = TRUE]
              \/ Advances(s, y) \/ Finals(s, y, m.segment)
PROOF
<1>1. ~s.error /\ s.phase # "idle"
  BY DEF Coherent
<1>2. Reset(s) = Blank
  BY <1>1, ResetIsBlank
<1>3. Failed(s) = [Blank EXCEPT !.error = TRUE]
  BY DEF Failed, Reset, SessionRecord
<1>4. Blank \in SessionRecord /\ [Blank EXCEPT !.error = TRUE] \in SessionRecord
  BY BlankTyped DEF SessionRecord
<1>5. CASE m.type \in {"error", "busy"} /\ s.phase \in Early
  BY <1>3, <1>4, <1>5 DEF Heard, Refused
<1>6. CASE /\ ~(m.type \in {"error", "busy"} /\ s.phase \in Early)
           /\ ~(m.id = s.id /\ s.phase # "idle" /\ m.type # "ready")
  BY <1>6 DEF Heard
<1>7. CASE /\ ~(m.type \in {"error", "busy"} /\ s.phase \in Early)
           /\ m.id = s.id /\ s.phase # "idle" /\ m.type # "ready"
  <2>1. y = Informed(s, m)
    BY <1>7 DEF Heard
  <2>2. CASE m.type = "recording"
    <3>1. y = s \/ (s.phase = "starting" /\ y = [s EXCEPT !.phase = "recording"])
      BY <2>1, <2>2 DEF Informed
    <3> QED BY <3>1 DEF SessionRecord, SessionPhases, Advances, Coherent, Early
  <2>3. CASE m.type = "transcribing"
    <3>1. y = s \/ (/\ s.phase \in {"recording", "stopping"}
                    /\ y = [s EXCEPT !.phase = "transcribing"])
      BY <2>1, <2>3 DEF Informed
    <3> QED BY <3>1 DEF SessionRecord, SessionPhases, Advances, Coherent, Early
  <2>4. CASE m.type = "result"
    <3>1. y = s \/ (/\ ~s.streaming /\ s.phase = "transcribing"
                    /\ y = [s EXCEPT !.phase = "preview", !.preview = m.text])
      BY <2>1, <2>4 DEF Informed
    <3> QED BY <3>1, ZenonT(60) DEF SessionRecord, SessionPhases, Advances, Coherent, Early, Message
  <2>5. CASE m.type \in {"partial", "final"}
    <3>1. y = s \/ (s.streaming /\ s.phase \in Hearing /\ y = Texted(s, m))
      BY <2>1, <2>5 DEF Informed
    <3> QED BY <2>5, <3>1, TextedCases
  <2>6. CASE m.type \in {"finished", "cancelled"}
    <3>1. y = s \/ y = Blank
      BY <1>2, <2>1, <2>6 DEF Informed
    <3> QED BY <1>4, <3>1
  <2>7. CASE m.type \in {"error", "busy"}
    <3>1. y = s \/ y = [Blank EXCEPT !.error = TRUE]
      BY <1>3, <2>1, <2>7 DEF Informed
    <3> QED BY <1>4, <3>1
  <2> QED BY <1>7, <2>2, <2>3, <2>4, <2>5, <2>6, <2>7 DEF Message
<1> QED BY <1>5, <1>6, <1>7

\* A final commits its text unless the client has ended the session meanwhile.
LEMMA CommittedFits ==
    ASSUME NEW A \in SUBSET Contexts, NEW S, NEW h,
           NEW p, Active(p, A, S, h), NEW c, c = p.bound,
           NEW g \in Nat, NEW y \in SessionRecord, Finals(p.s, y, g),
           NEW w, w = [p EXCEPT !.s = y],
           NEW q \in Committed(w, c, g)
    PROVE  Fit(q, A, S, h)
PROOF
<1> DEFINE z == [y EXCEPT !.pending = <<>>]
           u == [w EXCEPT !.s.pending = <<>>]
           v == [u EXCEPT !.panel[c] = "clear"]
           text == y.pending[1]
           i == y.id
           t == Commitment(c, i, g)
           x == Typing(v, c, i, g)
<1>1. /\ Engaged(p, A, c) /\ p.focus = c /\ p.bound = c /\ p \in AddonRecord
      /\ c \in Contexts /\ c # NoContext /\ p.holdContext = NoContext
  BY ActiveBound DEF Engaged
<1>2. /\ Coherent(z) /\ z.id = p.s.id /\ z.context = c /\ z.continuous = p.s.continuous
      /\ z.segment = g + 1 /\ z.phase = p.s.phase /\ p.s.phase \in Hearing
      /\ g = p.s.segment /\ z \in SessionRecord /\ i = p.s.id
  <2>1. <<>> \in Seq(Nat)
    OBVIOUS
  <2> QED BY <1>1, <2>1 DEF Finals, SessionRecord, Active
<1>3. w \in AddonRecord /\ w.s = y
  BY <1>1 DEF AddonRecord
<1>4. u = [p EXCEPT !.s = z]
  BY <1>1, <1>3 DEF AddonRecord
<1>5. Follows(p, i, c, g)
  BY <1>1, <1>2 DEF Active
<1>6. q \in UNION {IF ~Still(r, c) THEN {r}
                   ELSE IF text = 0 THEN Settled(r, c)
                   ELSE UNION {IF e.bound = c /\ ActiveFor(e.s, c) THEN Settled(e, c) ELSE {e}
                               : e \in CommitString(r, c, i, g)}
                   : r \in ClearUi(u, c)}
  BY <1>3 DEF Committed
<1> HIDE DEF z, u, text, i
<1>7. /\ u \in AddonRecord /\ u.s = z
      /\ u.link = p.link /\ u.output = p.output /\ u.sent = p.sent
      /\ u.handshake = p.handshake /\ u.bound = c /\ u.holdContext = NoContext
      /\ u.holdSession = p.holdSession /\ u.focus = c /\ u.panel = p.panel
      /\ Alike(p, u)
  BY <1>1, <1>2, <1>4 DEF AddonRecord, Alike
<1>8. Active(u, A, S, h)
  <2>1. Sound(u, A)
    BY <1>1, <1>7, SoundMoves DEF Engaged, Sound
  <2>2. Engaged(u, A, c)
    BY <1>1, <1>2, <1>7, <2>1 DEF Engaged, Coherent
  <2>3. \A k \in DOMAIN p.typed : p.typed[k] \in Commit
    BY <1>1 DEF AddonRecord
  <2>4. Follows(u, i, c, g + 1)
    BY <1>5, <1>7, <2>3 DEF Follows, Before, Alike, Commit
  <2>5. z.phase \notin Early
    BY <1>2 DEF Hearing, Early
  <2>6. Asked(z, u.sent \o u.output)
    BY <1>2, <1>7 DEF Active, Asked, Hearing
  <2>7. u.s.continuous /\ u.s.phase \in Early \cup {"recording"} => h /\ u.holdSession
    BY <1>2, <1>7 DEF Active
  <2>8. u.s.id <= u.next /\ u.bound \notin S
    BY <1>1, <1>2, <1>7 DEF Active, Alike
  <2> QED BY <1>2, <1>7, <2>2, <2>4, <2>5, <2>6, <2>7, <2>8 DEF Active
<1>9. PICK r \in ClearUi(u, c) :
        q \in IF ~Still(r, c) THEN {r}
              ELSE IF text = 0 THEN Settled(r, c)
              ELSE UNION {IF e.bound = c /\ ActiveFor(e.s, c) THEN Settled(e, c) ELSE {e}
                          : e \in CommitString(r, c, i, g)}
  BY <1>6
<1>10. r = v \/ Free(r, A, h)
  BY <1>7, <1>8, ActiveBound, ClearUiOutcome
<1>11. CASE Free(r, A, h)
  BY <1>1, <1>9, <1>11 DEF Still, Shows, Free, Fit
<1>12. CASE r = v
  <2>1. /\ v \in AddonRecord /\ v.s = z
        /\ \A d \in Contexts : d # c => v.panel[d] = u.panel[d]
        /\ v.link = u.link /\ v.output = u.output /\ v.sent = u.sent
        /\ v.handshake = u.handshake /\ v.bound = c /\ v.holdContext = NoContext
        /\ v.holdSession = u.holdSession /\ v.focus = c /\ Alike(u, v)
    BY <1>1, <1>7, PanelFields DEF Panels
  <2> HIDE DEF v
  <2>2. Active(v, A, S, h)
    <3>1. v.sent \o v.output = u.sent \o u.output /\ v.s = u.s /\ v.bound = u.bound
      BY <1>7, <2>1
    <3>2. v.focus = u.focus /\ v.holdContext = u.holdContext
      BY <1>7, <2>1
    <3>3. \A d \in Contexts : d # u.bound => v.panel[d] = u.panel[d]
      BY <1>7, <2>1
    <3> QED BY <1>8, <2>1, <3>1, <3>2, <3>3, ActiveMoves
  <2>3. z.phase \notin {"preview", "idle"}
    BY <1>2 DEF Hearing
  <2>4. Still(v, c)
    BY <1>1, <1>2, <2>1, <2>3 DEF Still, Shows, ActiveFor
  <2>5. CASE text = 0
    <3>1. q \in Settled(v, c)
      BY <1>9, <1>12, <2>4, <2>5
    <3> QED BY <2>1, <2>2, <2>3, <3>1, SettledFits
  <2>6. CASE text # 0
    <3>1. PICK e \in CommitString(v, c, i, g) :
            q \in IF e.bound = c /\ ActiveFor(e.s, c) THEN Settled(e, c) ELSE {e}
      BY <1>9, <1>12, <2>4, <2>6
    <3>2. Engaged(v, A, c)
      BY <2>1, <2>2, ActiveBound
    <3>3. Follows(v, i, c, g) /\ i \in Nat /\ i <= v.next /\ g >= 1
      <4>1. v.typed = p.typed /\ v.next = p.next
        BY <1>7, <2>1 DEF Alike
      <4>2. p.next \in Nat /\ i \in Nat /\ i <= p.next /\ p.s.segment >= 1
        BY <1>1, <1>2 DEF AddonRecord, SessionRecord, Active, Coherent
      <4> QED BY <1>2, <1>5, <4>1, <4>2 DEF Follows
    <3>4. Free(e, A, h) \/ (e = x /\ Engaged(e, A, c))
      <4>1. Awaits(v, A, c, i, g)
        BY <2>1, <3>2, <3>3 DEF Awaits
      <4> QED BY <3>1, <4>1, CommitOutcome
    <3>5. CASE Free(e, A, h)
      BY <1>1, <3>1, <3>5 DEF Free, Fit
    <3>6. CASE e = x /\ Engaged(e, A, c)
      <4>1. v.typed \in Seq(Commit) /\ t \in Commit
        BY <1>1, <2>1, <3>3 DEF AddonRecord, SessionRecord, Commit, Commitment
      <4>2. /\ e \in AddonRecord /\ e.s = z /\ e.bound = c /\ e.focus = c
            /\ e.sent = v.sent /\ e.output = v.output /\ e.holdSession = v.holdSession
            /\ e.handshake = v.handshake /\ e.link = v.link /\ e.next = v.next
            /\ e.typed = Append(v.typed, t)
        BY <2>1, <3>6 DEF Engaged, Sound, AddonRecord, Typing
      <4>3. Follows(e, i, c, g + 1)
        <5>1. \A k \in DOMAIN e.typed :
                \/ k \in DOMAIN v.typed /\ e.typed[k] = v.typed[k]
                \/ e.typed[k] = t
          BY <4>1, <4>2
        <5>2. \A k \in DOMAIN v.typed : Before(v.typed[k], i, c, g) /\ v.typed[k] \in Commit
          BY <3>3, <4>1 DEF Follows
        <5>3. \A k \in DOMAIN v.typed : Before(v.typed[k], i, c, g + 1)
          BY <5>2 DEF Before, Commit
        <5>4. Before(t, i, c, g + 1)
          BY SMTT(40) DEF Before, Commitment
        <5> QED BY <5>1, <5>3, <5>4 DEF Follows
      <4>4. Active(e, A, S, h)
        BY <1>2, <2>1, <2>2, <3>6, <4>2, <4>3 DEF Active
      <4>5. e.s.phase \notin {"idle", "preview"} /\ ActiveFor(e.s, c)
        BY <1>1, <1>2, <2>3, <4>2 DEF ActiveFor
      <4> QED BY <3>1, <4>2, <4>4, <4>5, SettledFits
    <3> QED BY <3>4, <3>5, <3>6
  <2> QED BY <2>5, <2>6
<1> QED BY <1>10, <1>11, <1>12

\* A line that lets the session go on
LEMMA AdvancedFits ==
    ASSUME NEW A \in SUBSET Contexts, NEW S, NEW h,
           NEW p, Active(p, A, S, h), NEW c, c = p.bound,
           NEW y \in SessionRecord, y = p.s \/ Advances(p.s, y),
           NEW w, w = [p EXCEPT !.s = y],
           NEW q \in Settled(w, c)
    PROVE  Fit(q, A, S, h)
PROOF
<1>1. /\ Engaged(p, A, c) /\ p.focus = c /\ p.bound = c /\ p \in AddonRecord
      /\ c \in Contexts /\ c # NoContext /\ p.holdContext = NoContext
      /\ p.sent \in Seq(Requests) /\ p.output \in Seq(Requests)
  BY ActiveBound DEF Engaged
<1>2. /\ w \in AddonRecord /\ w.s = y
      /\ w.link = p.link /\ w.output = p.output /\ w.sent = p.sent
      /\ w.handshake = p.handshake /\ w.bound = c /\ w.holdContext = NoContext
      /\ w.holdSession = p.holdSession /\ w.focus = c /\ w.panel = p.panel
      /\ Alike(p, w)
  BY <1>1 DEF AddonRecord, Alike
<1>3. /\ Coherent(y) /\ y.context = c /\ y.id = p.s.id /\ y.segment = p.s.segment
      /\ y.continuous = p.s.continuous
  BY <1>1 DEF Active, Advances
<1>4. Sound(w, A)
  <2>1. Sound(p, A) /\ w.focus \in A \cup {NoContext}
    BY <1>1, <1>2 DEF Engaged, Sound
  <2>2. \A d \in A : d # w.bound => w.panel[d] \notin Ghosts
    BY <1>1, <1>2, <2>1 DEF Sound
  <2> QED BY <1>2, <2>1, <2>2, SoundMoves
<1>5. Engaged(w, A, c)
  BY <1>1, <1>2, <1>3, <1>4 DEF Engaged, Coherent
<1>6. Follows(w, y.id, c, y.segment) /\ y.id <= w.next /\ c \notin S
  BY <1>1, <1>2, <1>3 DEF Active, Follows, Alike
<1>7. CASE y.phase # "preview"
  <2>1. Asked(y, w.sent \o w.output)
    BY <1>2, <1>7 DEF Active, Asked, Advances, Hearing
  <2>2. y.phase \in Early => w.handshake /\ w.link # "closed"
    BY <1>2, <1>7 DEF Active, Advances, Hearing, Early
  <2>3. y.continuous /\ y.phase \in Early \cup {"recording"} => h /\ w.holdSession
    BY <1>2, <1>3, <1>7 DEF Active, Advances, Hearing, Early
  <2>4. Active(w, A, S, h)
    BY <1>2, <1>3, <1>5, <1>6, <2>1, <2>2, <2>3 DEF Active
  <2> QED BY <1>2, <1>7, <2>4, SettledFits
<1>8. CASE y.phase = "preview"
  <2> DEFINE e == CloseTransport(w)
  <2>1. /\ e \in AddonRecord /\ e.output = <<>> /\ e.sent = <<>> /\ e.s = y
        /\ e.bound = c /\ e.holdContext = NoContext /\ e.focus = c
        /\ e.panel = w.panel /\ Alike(w, e)
    <3>1. w \in AddonRecord /\ w.s = y /\ w.bound = c /\ w.holdContext = NoContext /\ w.focus = c
      BY <1>2
    <3> QED BY <3>1, ClosedFields
  <2> HIDE DEF e
  <2>2. Sound(e, A)
    BY <1>4, <2>1, <1>2, SoundMoves DEF Sound
  <2>3. Engaged(e, A, c)
    BY <1>1, <1>3, <2>1, <2>2 DEF Engaged, Coherent
  <2>4. e.sent \o e.output = <<>>
    BY <2>1
  <2>5. Follows(e, y.id, c, y.segment) /\ y.id <= e.next
    BY <1>6, <2>1 DEF Follows, Alike
  <2>6. Active(e, A, S, h)
    BY <1>3, <1>6, <1>8, <2>1, <2>3, <2>4, <2>5 DEF Active, Asked, Early
  <2> QED BY <1>2, <1>8, <2>6, SettledFits DEF e
<1> QED BY <1>7, <1>8

\* handleLine, whatever the line
LEMMA HandleLineFits ==
    ASSUME NEW A \in SUBSET Contexts, NEW S, NEW h,
           NEW p, Fit(p, A, S, h), NEW m \in Message, NEW q \in HandleLine(p, m),
           p.link # "closed"
    PROVE  Fit(q, A, S, h)
PROOF
<1>1. CASE Free(p, A, h)
  <2>1. p.bound = NoContext /\ ~Still(p, p.bound) /\ p \in AddonRecord
    BY <1>1 DEF Free, Still, Shows, Sound
  <2>2. HoldCancelled(p, NoContext) = p
    BY <2>1 DEF HoldCancelled, HoldCleared, AddonRecord
  <2>3. q = p
    BY <2>1, <2>2 DEF HandleLine, CancelFor
  <2> QED BY <1>1, <2>3 DEF Fit
<1>2. CASE Running(p, A, S, h)
  <2> DEFINE c == p.bound
  <2>1. Active(p, A, S, h)
    BY <1>2 DEF Running
  <2>2. /\ Engaged(p, A, c) /\ p.focus = c /\ p \in AddonRecord /\ p.s \in SessionRecord
        /\ c \in Contexts /\ c # NoContext /\ p.holdContext = NoContext
        /\ p.sent \in Seq(Requests) /\ p.output \in Seq(Requests)
    BY <2>1, ActiveBound DEF Engaged
  <2>3. Still(p, c) /\ Coherent(p.s) /\ p.s.context = c
    BY <2>1, <2>2 DEF Still, Shows, ActiveFor, Active, Coherent
  <2>4. CASE ~Welcomes(p.s, m)
    <3> DEFINE y == Heard(p.s, m)  w == [p EXCEPT !.s = y]
    <3>1. q \in Understood(w, c, m.segment)
      BY <2>3, <2>4 DEF HandleLine
    <3>2. /\ y \in SessionRecord
          /\ \/ y = p.s \/ y = Blank \/ y = [Blank EXCEPT !.error = TRUE]
             \/ Advances(p.s, y) \/ Finals(p.s, y, m.segment)
      BY <2>2, <2>3, HeardCases
    <3> HIDE DEF y, c
    <3>3. /\ w \in AddonRecord /\ w.s = y /\ w.bound = c /\ w.holdContext = NoContext
          /\ w.focus = c /\ w.panel = p.panel /\ Alike(p, w)
      BY <2>2, <3>2 DEF AddonRecord, Alike, c
    <3>4. CASE Finals(p.s, y, m.segment)
      <4>1. q \in Committed(w, c, m.segment)
        BY <3>1, <3>3, <3>4 DEF Understood, Finals
      <4>2. m.segment \in Nat
        BY DEF Message
      <4> QED BY <2>1, <3>2, <3>4, <4>1, <4>2, CommittedFits DEF c
    <3>5. CASE y = p.s \/ Advances(p.s, y)
      <4>1. y.pending = <<>>
        BY <2>3, <3>5 DEF Advances, Coherent
      <4>2. q \in Settled(w, c)
        BY <3>1, <3>3, <4>1 DEF Understood
      <4> QED BY <2>1, <3>2, <3>5, <4>2, AdvancedFits DEF c
    <3>6. CASE y = Blank \/ y = [Blank EXCEPT !.error = TRUE]
      <4>1. y.pending = <<>>
        BY <3>6 DEF Blank
      <4>2. q \in Settled(w, c)
        BY <3>1, <3>3, <4>1 DEF Understood
      <4>3. \A d \in A : d # w.bound => w.panel[d] \notin Ghosts
        BY <2>2, <3>3 DEF Engaged, Sound
      <4>4. Sound(p, A) /\ w.focus \in A \cup {NoContext}
        BY <2>2, <3>3 DEF Engaged, Sound
      <4>5. Sound(w, A)
        BY <3>3, <4>3, <4>4, SoundMoves
      <4> HIDE DEF w
      <4>6. Free(q, A, h)
        BY <2>2, <3>3, <3>6, <4>2, <4>5, SettledOver
      <4> QED BY <4>6 DEF Fit
    <3> QED BY <3>2, <3>4, <3>5, <3>6
  <2>5. CASE Welcomes(p.s, m)
    <3> DEFINE y == Welcomed(p.s, m)  w == [p EXCEPT !.s = y]
    <3>1. PICK r \in Queue(w, "start") :
            q \in IF r.bound = c THEN Understood(r, c, m.segment) ELSE {r}
      BY <2>3, <2>5 DEF HandleLine
    <3>2. /\ p.s.phase = "connecting"
          /\ y = [p.s EXCEPT !.streaming = (m.protocol = 2), !.phase = "starting"]
      BY <2>5 DEF Welcomes, Welcomed
    <3>3. /\ y \in SessionRecord /\ Coherent(y) /\ y.phase = "starting" /\ y.pending = <<>>
          /\ y.id = p.s.id /\ y.context = c /\ y.segment = p.s.segment
          /\ y.continuous = p.s.continuous
      <4>1. (m.protocol = 2) \in BOOLEAN
        OBVIOUS
      <4> QED BY <2>2, <2>3, <3>2, <4>1 DEF SessionRecord, SessionPhases, Coherent, Early
    <3> HIDE DEF y, c
    <3>4. /\ w \in AddonRecord /\ w.s = y
          /\ w.link = p.link /\ w.output = p.output /\ w.sent = p.sent
          /\ w.handshake = p.handshake /\ w.bound = c /\ w.holdContext = NoContext
          /\ w.holdSession = p.holdSession /\ w.focus = c /\ w.panel = p.panel
          /\ Alike(p, w)
      BY <2>2, <3>3 DEF AddonRecord, Alike, c
    <3> HIDE DEF w
    <3>5. Engaged(w, A, c)
      <4>1. \A d \in A : d # w.bound => w.panel[d] \notin Ghosts
        BY <2>2, <3>4 DEF Engaged, Sound
      <4>2. Sound(p, A) /\ w.focus \in A \cup {NoContext}
        BY <2>2, <3>4 DEF Engaged, Sound
      <4>3. Sound(w, A)
        BY <3>4, <4>1, <4>2, SoundMoves
      <4> QED BY <2>2, <3>3, <3>4, <4>3 DEF Engaged, Coherent
    <3>6. "start" \in Requests
      BY DEF Requests
    <3>7. Free(r, A, h) \/ Sends(w, r, Append(w.sent \o w.output, "start"))
      BY <3>1, <3>4, <3>5, <3>6, QueueOutcome
    <3>8. CASE Free(r, A, h)
      BY <2>2, <3>1, <3>8 DEF Free, Fit
    <3>9. CASE Sends(w, r, Append(w.sent \o w.output, "start"))
      <4>1. w.sent \o w.output = <<>>
        BY <2>1, <3>2, <3>4 DEF Active, Asked
      <4>2. Append(w.sent \o w.output, "start") = <<"start">>
        BY <4>1
      <4>3. r.sent \o r.output = <<"start">> /\ r.s = y /\ r.bound = c /\ r.focus = c
        BY <3>4, <3>9, <4>2 DEF Sends
      <4>4. Sound(r, A)
        <5>1. Sound(w, A)
          BY <3>5 DEF Engaged
        <5> QED BY <3>9, <5>1, SoundMoves DEF Sends, Sound
      <4>5. Engaged(r, A, c)
        BY <3>5, <3>9, <4>4 DEF Sends, Engaged
      <4>6. Follows(r, y.id, c, y.segment) /\ y.id <= r.next /\ c \notin S
        BY <2>1, <3>3, <3>4, <3>9 DEF Active, Follows, Alike, Sends, c
      <4>7. r.handshake /\ r.link # "closed"
        BY <2>1, <3>2, <3>4, <3>9 DEF Active, Sends, Early
      <4>8. y.continuous => h /\ r.holdSession
        BY <2>1, <3>2, <3>3, <3>4, <3>9 DEF Active, Sends, Early
      <4>9. Asked(y, r.sent \o r.output)
        BY <3>3, <4>3 DEF Asked
      <4>10. Active(r, A, S, h)
        BY <3>3, <4>3, <4>5, <4>6, <4>7, <4>8, <4>9 DEF Active
      <4>11. q \in Settled(r, c)
        BY <3>1, <3>3, <4>3 DEF Understood
      <4> QED BY <3>3, <4>3, <4>10, <4>11, SettledFits
    <3> QED BY <3>7, <3>8, <3>9
  <2> QED BY <2>4, <2>5
<1> QED BY <1>1, <1>2 DEF Fit

-----------------------------------------------------------------------------
(* Keys                                                                    *)

\* A session begins, unless the client resets its context at the first
\* status: then a connection that asks for nothing is opened all the same.
LEMMA StartFits ==
    ASSUME NEW A \in SUBSET Contexts, NEW h \in BOOLEAN,
           NEW p, Free(p, A, h), p.holdContext = NoContext,
           NEW c \in Contexts, NEW continuous \in BOOLEAN, continuous => h,
           NEW q \in Start(p, c, continuous)
    PROVE  Fit(q, A, secret, h)
PROOF
<1>1. CASE ~AllowedToStart(p, c) \/ ~CanBegin(p.s, c)
  BY <1>1 DEF Start, Fit
<1>2. CASE AllowedToStart(p, c) /\ CanBegin(p.s, c)
  <2> DEFINE n == p.next + 1
             b == Begin(n, c, continuous)
             w == [p EXCEPT !.s = b, !.next = n, !.bound = c, !.holdSession = continuous]
  <2>1. PICK r \in UpdateUi(w, c) : q \in OpenTransport(r)
    BY <1>2 DEF Start
  <2>2. p \in AddonRecord /\ p.focus = c /\ c \notin secret /\ c # NoContext
    BY <1>2 DEF Free, Sound, AllowedToStart
  <2>3. n \in Nat /\ p.next <= n /\ p.next < n
    BY <2>2 DEF AddonRecord
  <2> HIDE DEF n
  <2>4. /\ b.phase = "connecting" /\ b.id = n /\ b.context = c /\ b.continuous = continuous
        /\ b.preview = 0 /\ b.segment = 1 /\ b.pending = <<>> /\ ~b.error /\ ~b.streaming
        /\ b \in SessionRecord
    BY <2>3, BlankTyped DEF Begin, Blank, SessionRecord, SessionPhases
  <2> HIDE DEF b
  <2>5. /\ w \in AddonRecord /\ w.s = b /\ w.bound = c /\ w.next = n
        /\ w.typed = p.typed /\ w.panel = p.panel /\ w.focus = c
        /\ w.holdContext = NoContext /\ w.holdSession = continuous
    BY <2>2, <2>3, <2>4 DEF AddonRecord
  <2> HIDE DEF w
  <2>6. \A k \in DOMAIN p.typed : p.typed[k] \in Commit /\ p.typed[k].id <= p.next
    BY <2>2 DEF AddonRecord, Free, Sound, Wrote
  <2>7. Sound(w, A)
    <3>1. \A k \in DOMAIN w.typed :
            w.typed[k].focused /\ w.typed[k].segment >= 1 /\ w.typed[k].id <= w.next
      <4>1. \A k \in DOMAIN p.typed : p.typed[k].id \in Nat
        BY <2>6 DEF Commit
      <4>2. p.next \in Nat
        BY <2>2 DEF AddonRecord
      <4> QED BY <2>3, <2>5, <2>6, <4>1, <4>2 DEF Free, Sound, Wrote
    <3>2. Wrote(w)
      BY <2>5, <3>1 DEF Free, Sound, Wrote
    <3>3. \A d \in A : w.panel[d] \notin Ghosts
      BY <2>5, VoiceInputAssumption DEF Free, Sound
    <3>4. w.focus \in A \cup {NoContext}
      BY <2>2, <2>5 DEF Free, Sound
    <3> QED BY <2>5, <3>2, <3>3, <3>4 DEF Sound
  <2>8. Follows(w, n, c, 1)
    <3>1. p.next \in Nat
      BY <2>2 DEF AddonRecord
    <3> QED BY <2>3, <2>5, <2>6, <3>1 DEF Follows, Before, Commit
  <2>9. Engaged(w, A, c)
    BY <2>2, <2>4, <2>5, <2>7 DEF Engaged
  <2>10. Drawn(b) = "status"
    BY <2>4 DEF Drawn
  <2>11. r = [w EXCEPT !.panel[c] = "status"] \/ Free(r, A, h)
    BY <2>1, <2>5, <2>9, <2>10, UpdateUiOutcome
  <2>12. /\ Engaged(r, A, c) => r.focus = c /\ r.bound = c
         /\ \/ Free(r, A, h)
            \/ /\ Engaged(r, A, c) /\ r.s = b /\ r.focus = c /\ r.holdSession = continuous
               /\ r.next = n /\ r.panel[c] = "status" /\ Follows(r, n, c, 1)
    <3>1. CASE Free(r, A, h)
      BY <3>1 DEF Free, Engaged
    <3>2. CASE r = [w EXCEPT !.panel[c] = "status"]
      <4>1. "status" \in Panels
        BY DEF Panels
      <4>2. Engaged(r, A, c)
        BY <2>9, <3>2, <4>1, PanelEngaged
      <4>3. /\ r.s = b /\ r.focus = c /\ r.bound = c /\ r.holdSession = continuous
            /\ r.next = n /\ r.panel[c] = "status" /\ r.typed = w.typed
        BY <2>5, <3>2, <4>1 DEF AddonRecord
      <4> QED BY <2>8, <4>2, <4>3 DEF Follows
    <3> QED BY <2>11, <3>1, <3>2
  <2> DEFINE x == CloseTransport(r)
  <2>13. r \in AddonRecord
    BY <2>12 DEF Free, Engaged, Sound
  <2>14. /\ x \in AddonRecord /\ x.link = "closed" /\ x.output = <<>> /\ x.sent = <<>>
         /\ x.s = r.s /\ x.bound = r.bound /\ x.holdContext = r.holdContext
         /\ x.holdSession = r.holdSession /\ x.focus = r.focus /\ x.panel = r.panel
         /\ Alike(r, x)
    BY <2>13, ClosedFields
  <2>15. \/ q \in FailTransport(x)
         \/ \E l \in {"connecting", "open"} : q = [x EXCEPT !.link = l, !.handshake = TRUE]
    BY <2>1 DEF OpenTransport
  <2> HIDE DEF x
  <2>16. Sound(x, A)
    BY <2>12, <2>14, SoundMoves DEF Free, Engaged, Sound
  <2>17. CASE q \in FailTransport(x)
    <3>1. (Engaged(x, A, x.bound) /\ x.focus = x.bound) \/ Free(x, A, h)
      BY <2>12, <2>14, <2>16 DEF Engaged, Free
    <3>2. Free(q, A, h)
      BY <2>17, <3>1, FailedIsFree
    <3> QED BY <3>2 DEF Fit
  <2>18. ASSUME NEW l \in {"connecting", "open"}, q = [x EXCEPT !.link = l, !.handshake = TRUE]
         PROVE  Fit(q, A, secret, h)
    <3>1. /\ q \in AddonRecord /\ q.link = l /\ q.handshake
          /\ q.output = <<>> /\ q.sent = <<>>
          /\ q.s = r.s /\ q.bound = r.bound /\ q.holdContext = r.holdContext
          /\ q.holdSession = r.holdSession /\ q.focus = r.focus /\ q.panel = r.panel
          /\ Alike(x, q)
      BY <2>14, <2>18 DEF AddonRecord, Alike
    <3>2. Sound(q, A)
      <4>1. q.focus \in A \cup {NoContext}
        BY <2>14, <2>16, <3>1 DEF Sound
      <4>2. \A d \in A : d # q.bound => q.panel[d] \notin Ghosts
        BY <2>14, <2>16, <3>1 DEF Sound
      <4> QED BY <2>16, <3>1, <4>1, <4>2, SoundMoves
    <3>3. CASE Free(r, A, h)
      BY <3>1, <3>2, <3>3 DEF Free, Fit
    <3>4. CASE /\ Engaged(r, A, c) /\ r.s = b /\ r.focus = c /\ r.holdSession = continuous
               /\ r.next = n /\ r.panel[c] = "status" /\ Follows(r, n, c, 1)
      <4>1. Engaged(q, A, c) /\ q.bound = c /\ q.focus = c
        BY <3>1, <3>2, <3>4 DEF Engaged
      <4>2. Follows(q, n, c, 1) /\ q.next = n
        BY <2>14, <3>1, <3>4 DEF Follows, Alike
      <4>3. q.sent \o q.output = <<>>
        BY <3>1
      <4>4. Coherent(b)
        BY <2>4 DEF Coherent
      <4>5. l # "closed"
        OBVIOUS
      <4>6. Active(q, A, secret, h)
        <5>1. q.s = b /\ q.holdSession = continuous /\ q.handshake /\ q.link # "closed"
          BY <3>1, <3>4, <4>5
        <5>2. Asked(b, q.sent \o q.output)
          BY <2>4, <4>3 DEF Asked
        <5>3. b.id <= q.next
          BY <2>3, <2>4, <4>2
        <5> HIDE DEF Follows
        <5> QED BY <2>2, <2>4, <4>1, <4>2, <4>4, <5>1, <5>2, <5>3 DEF Active
      <4> QED BY <3>1, <3>4, <4>1, <4>6 DEF Running, Fit, Ghosts
    <3> QED BY <2>12, <3>3, <3>4
  <2> QED BY <2>15, <2>17, <2>18
<1> QED BY <1>1, <1>2

\* A session that was reset gives its connection and its context up.
LEMMA ResetIsFree ==
    ASSUME NEW A \in SUBSET Contexts, NEW h,
           NEW p, NEW c,
           (Engaged(p, A, c) /\ p.bound = c /\ p.s = Blank) \/ Free(p, A, h),
           NEW r \in ClearUi(CloseTransport(p), p.bound),
           NEW q, q = Unbound([r EXCEPT !.holdSession = FALSE])
    PROVE  Free(q, A, h)
PROOF
<1> DEFINE x == CloseTransport(p)  e == [r EXCEPT !.holdSession = FALSE]
<1>1. p \in AddonRecord
  BY DEF Engaged, Free, Sound
<1>2. /\ x \in AddonRecord /\ x.output = <<>> /\ x.sent = <<>>
      /\ x.s = p.s /\ x.bound = p.bound /\ x.holdContext = p.holdContext
      /\ x.focus = p.focus /\ x.panel = p.panel /\ Alike(p, x)
  BY <1>1, ClosedFields
<1> HIDE DEF x
<1>3. Sound(x, A)
  <2>1. Sound(p, A)
    BY DEF Engaged, Free
  <2>2. x.focus \in A \cup {NoContext}
    BY <1>2, <2>1 DEF Sound
  <2>3. \A d \in A : d # x.bound => x.panel[d] \notin Ghosts
    BY <1>2, <2>1 DEF Sound
  <2> QED BY <1>2, <2>1, <2>2, <2>3, SoundMoves
<1>4. ASSUME Free(r, A, h) PROVE Free(q, A, h)
  <2>1. r \in AddonRecord
    BY <1>4 DEF Free, Sound
  <2>2. /\ e \in AddonRecord /\ e.output = r.output /\ e.sent = r.sent
        /\ e.s = r.s /\ e.bound = r.bound /\ e.holdContext = r.holdContext
        /\ e.focus = r.focus /\ e.panel = r.panel /\ Alike(r, e)
    BY <2>1 DEF AddonRecord, Alike
  <2> HIDE DEF e
  <2>3. Sound(e, A)
    BY <1>4, <2>2, SoundMoves DEF Free, Sound
  <2>4. Free(e, A, h)
    BY <1>4, <2>2, <2>3 DEF Free
  <2> QED BY <2>4, UnboundFree DEF e
<1>5. CASE Free(p, A, h)
  <2>1. x.bound = NoContext /\ p.bound = NoContext
    BY <1>2, <1>5 DEF Free
  <2>2. r = x
    BY <2>1 DEF ClearUi, x
  <2>3. Free(x, A, h)
    BY <1>2, <1>3, <1>5 DEF Free
  <2> QED BY <1>4, <2>2, <2>3
<1>6. CASE Engaged(p, A, c) /\ p.bound = c /\ p.s = Blank
  <2>1. Engaged(x, A, c) /\ x.s = Blank
    BY <1>2, <1>3, <1>6 DEF Engaged
  <2>2. r = [x EXCEPT !.panel[c] = "clear"] \/ Free(r, A, h)
    BY <1>6, <2>1, ClearUiOutcome DEF x
  <2>3. CASE r = [x EXCEPT !.panel[c] = "clear"]
    <3>1. "clear" \in Panels /\ c \in Contexts
      BY <1>2, <2>1 DEF Panels, Engaged, AddonRecord
    <3>2. /\ r \in AddonRecord /\ r.panel[c] = "clear"
          /\ \A d \in Contexts : d # c => r.panel[d] = x.panel[d]
          /\ r.output = <<>> /\ r.sent = <<>> /\ r.s = Blank /\ r.holdContext = NoContext
          /\ r.focus = x.focus /\ Alike(x, r)
      BY <1>2, <2>1, <2>3, <3>1 DEF AddonRecord, Alike, Engaged
    <3>3. /\ e \in AddonRecord /\ e.output = <<>> /\ e.sent = <<>>
          /\ e.s = Blank /\ e.holdContext = NoContext
          /\ e.focus = x.focus /\ e.panel = r.panel /\ Alike(r, e)
      BY <3>2 DEF AddonRecord, Alike
    <3> HIDE DEF e
    <3>4. /\ q \in AddonRecord /\ q.bound = NoContext /\ q.output = <<>> /\ q.sent = <<>>
          /\ q.s = Blank /\ q.holdContext = NoContext
          /\ q.focus = x.focus /\ q.panel = r.panel /\ Alike(e, q)
      BY <3>3, UnboundFields DEF e
    <3>5. Alike(x, q) /\ q.panel[c] \notin Ghosts
      BY <3>2, <3>3, <3>4 DEF Alike, Ghosts
    <3> QED BY <2>1, <3>2, <3>4, <3>5, GivenUp
  <2> QED BY <1>4, <2>2, <2>3
<1> QED BY <1>5, <1>6

LEMMA StartStop == Append(<<"start">>, "stop") = <<"start", "stop">>
PROOF
<1> DEFINE a == Append(<<"start">>, "stop")  b == <<"start", "stop">>
<1>1. <<"start">> \in Seq(Requests) /\ "stop" \in Requests /\ b \in Seq(Requests)
  BY DEF Requests
<1>2. a \in Seq(Requests) /\ Len(a) = 2 /\ a[1] = "start" /\ a[2] = "stop"
  BY <1>1
<1>3. Len(b) = 2 /\ b[1] = "start" /\ b[2] = "stop"
  OBVIOUS
<1> HIDE DEF a, b
<1>4. \A i \in 1 .. Len(a) : a[i] = b[i]
  <2>1. \A i \in 1 .. 2 : i = 1 \/ i = 2
    OBVIOUS
  <2> QED BY <1>2, <1>3, <2>1
<1>5. a = b
  BY <1>1, <1>2, <1>3, <1>4, SeqEqual
<1> QED BY <1>5 DEF a, b

\* toggleRecording(), when the session has no hold any more: what was
\* beginning or recording is not, whether or not the keys are still held.
LEMMA ToggleFits ==
    ASSUME NEW A \in SUBSET Contexts, NEW S, NEW h0, NEW h,
           NEW p, Active(p, A, S, h0),
           NEW w, w = [p EXCEPT !.holdSession = FALSE],
           NEW q \in ToggleRecording(w)
    PROVE  Fit(q, A, S, h) /\ q.s.phase \notin Early \cup {"recording"}
PROOF
<1> DEFINE c == p.bound  y == Toggled(p.s)  t == [w EXCEPT !.s = y]
<1>1. /\ Engaged(p, A, c) /\ p.focus = c /\ p \in AddonRecord /\ p.s \in SessionRecord
      /\ c \in Contexts /\ c # NoContext /\ p.holdContext = NoContext
      /\ p.sent \in Seq(Requests) /\ p.output \in Seq(Requests)
      /\ Coherent(p.s) /\ p.s.context = c /\ c \notin S
  BY ActiveBound DEF Engaged, Active
<1>2. /\ w \in AddonRecord /\ w.s = p.s /\ w.bound = c /\ w.holdContext = NoContext
      /\ w.focus = c /\ w.panel = p.panel /\ w.sent = p.sent /\ w.output = p.output
      /\ w.link = p.link /\ w.handshake = p.handshake /\ ~w.holdSession /\ Alike(p, w)
  BY <1>1 DEF AddonRecord, Alike
<1>3. PICK e \in Request(t, ToggleRequest(p.s)) :
        q \in IF e.s.phase # "idle" THEN UpdateUi(e, e.bound)
              ELSE {Unbound([r EXCEPT !.holdSession = FALSE]) :
                       r \in ClearUi(CloseTransport(e), e.bound)}
  <2>1. Toggled(w.s) = y /\ ToggleRequest(w.s) = ToggleRequest(p.s) /\ w.bound # NoContext
    BY <1>1, <1>2
  <2>2. [w EXCEPT !.s = Toggled(@)] = t
    BY <2>1
  <2>3. \E e \in Request(t, ToggleRequest(w.s)) :
          q \in IF e.s.phase # "idle" THEN UpdateUi(e, e.bound)
                ELSE {Unbound([r EXCEPT !.holdSession = FALSE]) :
                         r \in ClearUi(CloseTransport(e), e.bound)}
    <3> HIDE DEF t
    <3> QED BY <2>1, <2>2 DEF ToggleRecording
  <2> QED BY <2>1, <2>3
<1> HIDE DEF c
<1>4. y \in SessionRecord /\ ~y.error
  <2>1. Reset(p.s) = Blank
    BY <1>1, ResetIsBlank DEF Coherent
  <2> QED BY <1>1, <2>1, BlankTyped DEF Toggled, SessionRecord, SessionPhases, Coherent
<1> HIDE DEF y
<1>5. /\ t \in AddonRecord /\ t.s = y /\ t.bound = c /\ t.holdContext = NoContext
      /\ t.focus = c /\ t.panel = p.panel /\ t.sent = p.sent /\ t.output = p.output
      /\ t.link = p.link /\ t.handshake = p.handshake /\ ~t.holdSession /\ Alike(p, t)
  BY <1>2, <1>4 DEF AddonRecord, Alike
<1> HIDE DEF t
<1>6. Engaged(t, A, c)
  <2>1. Sound(p, A) /\ t.focus \in A \cup {NoContext}
    BY <1>1, <1>5 DEF Engaged, Sound
  <2>2. \A d \in A : d # t.bound => t.panel[d] \notin Ghosts
    BY <1>1, <1>5 DEF Engaged, Sound
  <2>3. Sound(t, A)
    BY <1>5, <2>1, <2>2, SoundMoves
  <2> QED BY <1>1, <1>4, <1>5, <2>3 DEF Engaged
<1>7. ASSUME Free(e, A, h) \/ (Engaged(e, A, c) /\ e.bound = c /\ e.s = Blank)
      PROVE  Fit(q, A, S, h) /\ q.s.phase \notin Early \cup {"recording"}
  <2>1. e.s.phase = "idle"
    BY <1>7, BlankTyped DEF Free
  <2>2. PICK r \in ClearUi(CloseTransport(e), e.bound) :
          q = Unbound([r EXCEPT !.holdSession = FALSE])
    BY <1>3, <2>1
  <2>3. Free(q, A, h)
    BY <1>7, <2>2, ResetIsFree
  <2> QED BY <2>3, BlankTyped DEF Fit, Free, Early
<1>8. ASSUME Active(e, A, S, h), e.bound = c, e.s.phase \notin Early \cup {"recording"}
      PROVE  Fit(q, A, S, h) /\ q.s.phase \notin Early \cup {"recording"}
  <2>1. e.s.phase # "idle"
    BY <1>8 DEF Active, Coherent
  <2>2. q \in UpdateUi(e, e.bound)
    BY <1>3, <2>1
  <2>3. Free(q, A, h) \/ (Running(q, A, S, h) /\ q.s = e.s)
    BY <1>8, <2>2, UpdateUiFits
  <2> QED BY <1>8, <2>3, BlankTyped DEF Fit, Free, Early
<1>9. CASE p.s.phase = "recording"
  <2>1. /\ y = [p.s EXCEPT !.phase = "stopping"] /\ ToggleRequest(p.s) = <<"stop">>
    BY <1>9 DEF Toggled, ToggleRequest, Early, y
  <2>2. e \in Queue(t, "stop")
    BY <1>3, <2>1 DEF Request
  <2>3. "stop" \in Requests
    BY DEF Requests
  <2>4. Free(e, A, h) \/ Sends(t, e, Append(t.sent \o t.output, "stop"))
    BY <1>5, <1>6, <2>2, <2>3, QueueOutcome
  <2>5. CASE Sends(t, e, Append(t.sent \o t.output, "stop"))
    <3>1. t.sent \o t.output = <<"start">>
      BY <1>5, <1>9 DEF Active, Asked
    <3>2. Append(t.sent \o t.output, "stop") = <<"start", "stop">>
      BY <3>1, StartStop
    <3>3. /\ e.sent \o e.output = <<"start", "stop">> /\ e.s = y /\ e.bound = c
          /\ e.focus = c
      BY <1>5, <2>5, <3>2 DEF Sends
    <3>4. Sound(e, A)
      <4>1. Sound(t, A)
        BY <1>6 DEF Engaged
      <4> QED BY <2>5, <4>1, SoundMoves DEF Sends, Sound
    <3>5. Engaged(e, A, c)
      BY <1>6, <2>5, <3>4 DEF Sends, Engaged
    <3>6. /\ Coherent(y) /\ y.phase = "stopping" /\ y.id = p.s.id /\ y.context = c
          /\ y.segment = p.s.segment
      BY <1>1, <1>9, <2>1 DEF SessionRecord, SessionPhases, Coherent, Early
    <3>7. Follows(e, y.id, c, y.segment) /\ y.id <= e.next
      BY <1>5, <2>5, <3>6 DEF Active, Follows, Alike, Sends, c
    <3>8. Asked(y, e.sent \o e.output)
      BY <3>3, <3>6 DEF Asked
    <3>9. y.phase \notin Early \cup {"recording"}
      BY <3>6 DEF Early
    <3>10. Active(e, A, S, h)
      BY <1>1, <3>3, <3>5, <3>6, <3>7, <3>8, <3>9 DEF Active
    <3> QED BY <1>8, <3>3, <3>9, <3>10
  <2> QED BY <1>7, <2>4, <2>5
<1>10. CASE p.s.phase \in Early
  <2>1. y = Blank
    BY <1>1, <1>10, ResetIsBlank DEF Toggled, Early, Coherent, y
  <2>2. e = t \/ e \in Queue(t, "cancel")
    BY <1>3, <1>10 DEF Request, ToggleRequest, Early
  <2>3. "cancel" \in Requests
    BY DEF Requests
  <2>4. e = t \/ Free(e, A, h) \/ Sends(t, e, Append(t.sent \o t.output, "cancel"))
    BY <1>5, <1>6, <2>2, <2>3, QueueOutcome
  <2>5. CASE e = t
    BY <1>5, <1>6, <1>7, <2>1, <2>5
  <2>6. CASE Sends(t, e, Append(t.sent \o t.output, "cancel"))
    <3>1. Sound(e, A)
      <4>1. Sound(t, A)
        BY <1>6 DEF Engaged
      <4> QED BY <2>6, <4>1, SoundMoves DEF Sends, Sound
    <3>2. Engaged(e, A, c) /\ e.bound = c /\ e.s = Blank
      BY <1>5, <1>6, <2>1, <2>6, <3>1 DEF Sends, Engaged
    <3> QED BY <1>7, <3>2
  <2> QED BY <1>7, <2>4, <2>5, <2>6
<1>11. CASE p.s.phase \notin Early \cup {"recording"}
  <2>1. y = p.s /\ e = t
    BY <1>3, <1>11 DEF Toggled, Request, ToggleRequest, Early, y
  <2>2. t.sent \o t.output = p.sent \o p.output /\ t.s = p.s
    BY <1>5, <2>1
  <2>3. Follows(t, p.s.id, c, p.s.segment) /\ p.s.id <= t.next
    BY <1>5 DEF Active, Follows, Alike, c
  <2>4. Asked(p.s, t.sent \o t.output)
    BY <2>2 DEF Active
  <2>5. Active(t, A, S, h)
    BY <1>1, <1>5, <1>6, <1>11, <2>2, <2>3, <2>4 DEF Active
  <2> QED BY <1>5, <1>8, <1>11, <2>1, <2>5
<1> QED BY <1>9, <1>10, <1>11

LEMMA FreeSession ==
    ASSUME NEW A, NEW h, NEW p, Free(p, A, h)
    PROVE  /\ p.s.phase = "idle" /\ p \in AddonRecord /\ Sound(p, A)
           /\ p.bound = NoContext
BY BlankTyped DEF Free, Sound

\* A hold that is given up, and keys that may be released then
LEMMA HoldClearedFree ==
    ASSUME NEW A \in SUBSET Contexts, NEW h, NEW g, NEW p, Free(p, A, h),
           NEW q, q = HoldCleared(p)
    PROVE  Free(q, A, g) /\ q.holdContext = NoContext /\ q.s = p.s /\ q.focus = p.focus
PROOF
<1>1. p \in AddonRecord
  BY DEF Free, Sound
<1>2. /\ q \in AddonRecord /\ q.holdContext = NoContext /\ q.output = p.output
      /\ q.sent = p.sent /\ q.s = p.s /\ q.bound = p.bound /\ q.focus = p.focus
      /\ q.panel = p.panel /\ Alike(p, q)
  BY <1>1, HoldClearedFields
<1>3. Sound(q, A)
  BY <1>2, SoundMoves DEF Free, Sound
<1> QED BY <1>2, <1>3 DEF Free

LEMMA HoldClearedRunning ==
    ASSUME NEW A, NEW S, NEW h, NEW p, Running(p, A, S, h)
    PROVE  HoldCleared(p) = p
BY DEF Running, Active, Engaged, Sound, HoldCleared, AddonRecord

LEMMA RunningWhenHeld ==
    ASSUME NEW A, NEW S, NEW h, NEW g, NEW p, Running(p, A, S, h), h => g
    PROVE  Running(p, A, S, g)
BY DEF Running, Active

LEMMA CommittedThenFree ==
    ASSUME NEW A \in SUBSET Contexts, NEW h,
           NEW p, NEW c, NEW i, NEW g, Awaits(p, A, c, i, g),
           p.s = Blank, p.sent = <<>>, p.output = <<>>,
           NEW e \in CommitString(p, c, i, g),
           NEW q, e.bound # c => q = e,
           e.bound = c => \E r \in ClearUi(e, c) : q = Unbound(r)
    PROVE  Free(q, A, h)
PROOF
<1> DEFINE v == Typing(p, c, i, g)
<1>1. c # NoContext /\ p \in AddonRecord
  BY DEF Awaits, Engaged, Sound
<1>2. Free(e, A, h) \/ (e = v /\ Engaged(e, A, c))
  <2>1. Free(e, A, h) \/ (e = Typing(p, c, i, g) /\ Engaged(e, A, c))
    BY CommitOutcome
  <2> QED BY <2>1
<1>3. CASE Free(e, A, h)
  BY <1>1, <1>3 DEF Free
<1>4. CASE e = v /\ Engaged(e, A, c)
  <2>1. e.s = Blank /\ e.output = <<>> /\ e.sent = <<>> /\ e.bound = c
    BY <1>1, <1>4 DEF Engaged, AddonRecord, Typing
  <2>2. PICK r \in ClearUi(e, c) : q = Unbound(r)
    BY <2>1
  <2> HIDE DEF v
  <2>3. r = [e EXCEPT !.panel[c] = "clear"] \/ Free(r, A, h)
    BY <1>4, <2>2, ClearUiOutcome
  <2> QED BY <1>4, <2>1, <2>2, <2>3, UnboundGivenUp, UnboundFree
<1> QED BY <1>2, <1>3, <1>4

\* Enter commits a preview that no text of its session went before.
LEMMA AcceptedFree ==
    ASSUME NEW A \in SUBSET Contexts, NEW S, NEW h,
           NEW p, Active(p, A, S, h), p.s.phase = "preview",
           NEW c, c = p.bound, NEW q \in Accepted(p, c)
    PROVE  Free(q, A, h)
PROOF
<1> DEFINE w == [p EXCEPT !.s = Blank]  i == p.s.id  g == 1
<1>1. /\ Engaged(p, A, c) /\ p.focus = c /\ p.bound = c /\ p \in AddonRecord
      /\ p.s \in SessionRecord /\ c \in Contexts /\ c # NoContext
      /\ p.holdContext = NoContext
      /\ p.sent \in Seq(Requests) /\ p.output \in Seq(Requests)
  BY ActiveBound DEF Engaged
<1>2. [p EXCEPT !.s = Reset(@)] = w
  BY <1>1, ResetIsBlank DEF Active, Coherent
<1>3. PICK e \in CommitString(w, c, i, g) :
        q \in IF e.bound # c THEN {e} ELSE {Unbound(r) : r \in ClearUi(e, c)}
  BY <1>2 DEF Accepted
<1>4. p.sent = <<>> /\ p.output = <<>>
  BY <1>1, NothingJoined DEF Active, Asked
<1>5. /\ w \in AddonRecord /\ w.s = Blank /\ w.bound = c /\ w.holdContext = NoContext
      /\ w.focus = c /\ w.panel = p.panel /\ w.sent = <<>> /\ w.output = <<>>
      /\ Alike(p, w)
  BY <1>1, <1>4, BlankTyped DEF AddonRecord, Alike
<1> HIDE DEF w
<1>6. Engaged(w, A, c)
  <2>1. Sound(p, A) /\ w.focus \in A \cup {NoContext}
    BY <1>1, <1>5 DEF Engaged, Sound
  <2>2. \A d \in A : d # w.bound => w.panel[d] \notin Ghosts
    BY <1>1, <1>5 DEF Engaged, Sound
  <2>3. Sound(w, A)
    BY <1>5, <2>1, <2>2, SoundMoves
  <2> QED BY <1>1, <1>5, <2>3, BlankTyped DEF Engaged
<1>7. Follows(w, i, c, g) /\ i \in Nat /\ i <= w.next
  <2>1. p.s.segment = 1
    BY DEF Active, Coherent
  <2>2. Follows(p, i, c, g) /\ i <= p.next
    BY <1>1, <2>1 DEF Active
  <2>3. i \in Nat /\ p.next \in Nat
    BY <1>1 DEF AddonRecord, SessionRecord
  <2> QED BY <1>5, <2>2, <2>3 DEF Follows, Alike
<1>8. g \in Nat /\ g >= 1
  OBVIOUS
<1> HIDE DEF i, g
<1>9. e.bound # c => q = e
  BY <1>3
<1>10. e.bound = c => \E r \in ClearUi(e, c) : q = Unbound(r)
  BY <1>3
<1>11. Awaits(w, A, c, i, g)
  BY <1>5, <1>6, <1>7, <1>8 DEF Awaits
<1> QED BY <1>3, <1>5, <1>9, <1>10, <1>11, CommittedThenFree

\* Backspace in a preview
LEMMA ShortenedFits ==
    ASSUME NEW A \in SUBSET Contexts, NEW S, NEW h,
           NEW p, Active(p, A, S, h), p.s.phase = "preview",
           NEW c, c = p.bound, NEW q \in UpdateUi([p EXCEPT !.s = Shortened(@)], c)
    PROVE  Fit(q, A, S, h)
PROOF
<1> DEFINE y == Shortened(p.s)  w == [p EXCEPT !.s = y]
<1>1. /\ Engaged(p, A, c) /\ p.focus = c /\ p.bound = c /\ p \in AddonRecord
      /\ p.s \in SessionRecord /\ c \in Contexts /\ c # NoContext
      /\ p.holdContext = NoContext /\ Coherent(p.s) /\ c \notin S
  BY ActiveBound DEF Engaged, Active
<1>2. /\ y \in SessionRecord /\ y.phase = "preview" /\ y.id = p.s.id
      /\ y.context = p.s.context /\ y.segment = p.s.segment /\ Coherent(y)
  <2>1. (IF p.s.preview = 0 THEN 0 ELSE p.s.preview - 1) \in Nat
    BY <1>1 DEF SessionRecord
  <2> QED BY <1>1, <2>1 DEF Shortened, SessionRecord, Coherent, Early
<1>3. q \in UpdateUi(w, c)
  OBVIOUS
<1> HIDE DEF y
<1>4. /\ w \in AddonRecord /\ w.s = y /\ w.bound = c /\ w.holdContext = NoContext
      /\ w.focus = c /\ w.panel = p.panel /\ w.sent = p.sent /\ w.output = p.output
      /\ Alike(p, w)
  BY <1>1, <1>2 DEF AddonRecord, Alike
<1> HIDE DEF w
<1>5. Engaged(w, A, c)
  <2>1. Sound(p, A) /\ w.focus \in A \cup {NoContext}
    BY <1>1, <1>4 DEF Engaged, Sound
  <2>2. \A d \in A : d # w.bound => w.panel[d] \notin Ghosts
    BY <1>1, <1>4 DEF Engaged, Sound
  <2>3. Sound(w, A)
    BY <1>4, <2>1, <2>2, SoundMoves
  <2> QED BY <1>1, <1>2, <1>4, <2>3 DEF Engaged, Coherent
<1>6. Follows(w, y.id, c, y.segment) /\ y.id <= w.next /\ y.context = c
  BY <1>1, <1>2, <1>4 DEF Active, Follows, Alike
<1>7. Asked(y, w.sent \o w.output)
  BY <1>2, <1>4 DEF Active, Asked
<1>8. Active(w, A, S, h)
  BY <1>1, <1>2, <1>4, <1>5, <1>6, <1>7 DEF Active, Early
<1>9. Free(q, A, h) \/ Running(q, A, S, h)
  BY <1>3, <1>4, <1>8, UpdateUiFits
<1> QED BY <1>9 DEF Fit

\* A key of Ctrl+Alt, when `g' says whether the keys are held afterwards
LEMMA HoldKeyFits ==
    ASSUME NEW A \in SUBSET Contexts, NEW S, NEW h \in BOOLEAN, NEW g \in BOOLEAN,
           NEW p, Fit(p, A, S, h), NEW c, c = p.focus, c # NoContext,
           NEW k \in HoldKeys,
           g = IF k = "chord" THEN TRUE ELSE IF k = "release" THEN FALSE ELSE h,
           NEW q \in HoldKey(p, c, k)
    PROVE  /\ Fit(q, A, S, g)
           /\ k = "release" /\ p.s.continuous => q.s.phase \notin Early \cup {"recording"}
PROOF
<1>1. CASE k = "release"
  <2>1. CASE p.holdSession /\ c = p.bound
    <3>1. Running(p, A, S, h) /\ Active(p, A, S, h)
      BY <2>1, FreeSession DEF Fit, Running
    <3>2. q \in ToggleRecording([p EXCEPT !.holdSession = FALSE])
      BY <1>1, <2>1, <3>1, HoldClearedRunning DEF HoldKey
    <3> QED BY <3>1, <3>2, ToggleFits
  <2>2. CASE ~(p.holdSession /\ c = p.bound)
    <3>1. q = HoldCleared(p)
      BY <1>1, <2>2 DEF HoldKey
    <3>2. CASE Free(p, A, h)
      BY <3>1, <3>2, HoldClearedFree, FreeSession, ZenonT(60) DEF Fit, Early
    <3>3. CASE Running(p, A, S, h)
      <4>1. q = p /\ ~p.holdSession
        BY <2>2, <3>1, <3>3, HoldClearedRunning DEF Running, Active
      <4>2. Running(q, A, S, g) /\ ~(p.s.continuous /\ p.s.phase \in Early \cup {"recording"})
        BY <3>3, <4>1 DEF Running, Active
      <4> QED BY <4>1, <4>2 DEF Fit
    <3> QED BY <3>2, <3>3 DEF Fit
  <2> QED BY <2>1, <2>2
<1>2. CASE k \in {"other", "modifier"}
  <2>1. q = p \/ q = HoldCleared(p)
    BY <1>2 DEF HoldKey
  <2>2. g = h
    BY <1>2
  <2>3. CASE Free(p, A, h)
    <3>1. CASE q = p
      BY <1>2, <2>2, <2>3, <3>1 DEF Fit
    <3>2. CASE q = HoldCleared(p)
      <4>1. Free(q, A, g)
        BY <2>3, <3>2, HoldClearedFree
      <4> QED BY <1>2, <4>1 DEF Fit
    <3> QED BY <2>1, <3>1, <3>2
  <2>4. CASE Running(p, A, S, h)
    BY <1>2, <2>1, <2>2, <2>4, HoldClearedRunning DEF Fit
  <2> QED BY <2>3, <2>4 DEF Fit
<1>3. CASE k = "chord"
  <2>1. \/ q = p
        \/ q = [p EXCEPT !.holdContext = c] /\ p.s.phase = "idle"
    BY <1>3 DEF HoldKey
  <2>2. g = TRUE
    BY <1>3
  <2>3. CASE q = p
    BY <1>3, <2>2, <2>3, RunningWhenHeld DEF Fit, Free
  <2>4. CASE q = [p EXCEPT !.holdContext = c] /\ p.s.phase = "idle"
    <3>1. Free(p, A, h)
      BY <2>4 DEF Fit, Running, Active, Coherent
    <3>2. p \in AddonRecord
      BY <3>1, FreeSession
    <3>3. /\ q \in AddonRecord /\ q.holdContext = c /\ q.output = p.output
          /\ q.sent = p.sent /\ q.s = p.s /\ q.bound = p.bound /\ q.focus = p.focus
          /\ q.panel = p.panel /\ Alike(p, q)
      BY <2>4, <3>2 DEF AddonRecord, Alike
    <3>4. Sound(q, A)
      BY <3>1, <3>3, SoundMoves DEF Free, Sound
    <3>5. Free(q, A, g)
      BY <2>2, <3>1, <3>3, <3>4 DEF Free
    <3> QED BY <1>3, <3>5 DEF Fit
  <2> QED BY <2>1, <2>3, <2>4
<1> QED BY <1>1, <1>2, <1>3 DEF HoldKeys

\* Any other key
LEMMA OtherKeyFits ==
    ASSUME NEW A \in SUBSET Contexts, NEW h \in BOOLEAN,
           NEW p, Fit(p, A, secret, h), NEW c, c = p.focus, c # NoContext,
           NEW k \in ActiveKeys, NEW q \in OtherKey(p, c, k)
    PROVE  Fit(q, A, secret, h)
PROOF
<1> DEFINE w == HoldCleared(p)
<1>1. CASE Free(p, A, h)
  <2>1. Free(w, A, h) /\ w.holdContext = NoContext /\ w.bound = NoContext
    BY <1>1, HoldClearedFree, FreeSession
  <2>2. q = w \/ q \in Start(w, c, FALSE)
    BY <2>1 DEF OtherKey
  <2>3. c \in Contexts
    BY <1>1, FreeSession DEF AddonRecord
  <2> HIDE DEF w
  <2> QED BY <2>1, <2>2, <2>3, StartFits DEF Fit
<1>2. CASE Running(p, A, secret, h)
  <2>1. w = p /\ p.bound = c
    BY <1>2, HoldClearedRunning DEF Running, Active
  <2>2. q \in ActiveKey(p, c, k)
    BY <2>1 DEF OtherKey
  <2>3. Active(p, A, secret, h) /\ Engaged(p, A, c)
    BY <1>2, <2>1 DEF Running, Active
  <2>4. CASE k = "trigger"
    <3>1. q \in ToggleRecording([p EXCEPT !.holdSession = FALSE])
      BY <2>2, <2>4 DEF ActiveKey
    <3> QED BY <2>3, <3>1, ToggleFits
  <2>5. CASE k = "enter" /\ p.s.phase = "preview"
    <3>1. q \in Accepted(p, c)
      BY <2>2, <2>5 DEF ActiveKey
    <3> QED BY <2>1, <2>3, <2>5, <3>1, AcceptedFree DEF Fit
  <2>6. CASE k = "backspace" /\ p.s.phase = "preview"
    <3>1. q \in UpdateUi([p EXCEPT !.s = Shortened(@)], c)
      BY <2>2, <2>6 DEF ActiveKey
    <3> QED BY <2>1, <2>3, <2>6, <3>1, ShortenedFits
  <2>7. CASE /\ k # "trigger" /\ ~(k = "enter" /\ p.s.phase = "preview")
             /\ ~(k = "backspace" /\ p.s.phase = "preview")
    <3>1. q \in CancelFor(p, c, TRUE)
      BY <2>2, <2>7 DEF ActiveKey
    <3> QED BY <2>3, <3>1, CancelBound DEF Fit
  <2> QED BY <2>4, <2>5, <2>6, <2>7
<1> QED BY <1>1, <1>2 DEF Fit

-----------------------------------------------------------------------------
(* Events                                                                  *)

\* cancelFor() of any context c, after the focus left it if it did.  B are
\* the contexts that live then: all, or all but c, of whose panel nothing is
\* promised.
LEMMA CancelFits ==
    ASSUME NEW A \in SUBSET Contexts, NEW S, NEW h,
           NEW p, Fit(p, A, S, h), NEW c \in Contexts, NEW b \in BOOLEAN,
           b => c = p.focus,
           NEW B \in SUBSET A, A \ B \subseteq {c}, c \notin B /\ c = p.focus => b,
           NEW ui \in BOOLEAN, ui \/ c \notin B,
           NEW w, w = Left(p, b), NEW q \in CancelFor(w, c, ui)
    PROVE  Fit(q, B, S, h) /\ q.bound # c
PROOF
<1>1. p \in AddonRecord /\ Sound(p, A) /\ c # NoContext
  BY VoiceInputAssumption, FreeSession DEF Fit, Running, Active, Engaged, Sound
<1>2. /\ w \in AddonRecord /\ w.focus = IF b THEN NoContext ELSE p.focus
      /\ w.output = p.output /\ w.sent = p.sent
      /\ w.s = p.s /\ w.bound = p.bound /\ w.holdContext = p.holdContext
      /\ w.holdSession = p.holdSession /\ w.panel = p.panel
      /\ Alike(p, w)
  BY <1>1, LeftFields
<1>3. Sound(w, B)
  <2>1. w.focus \in B \cup {NoContext}
    BY <1>1, <1>2 DEF Sound
  <2>2. \A d \in B : d # w.bound => w.panel[d] \notin Ghosts
    BY <1>1, <1>2 DEF Sound
  <2>3. w.focus \in A \cup {NoContext}
    BY <2>1
  <2> QED BY <1>1, <1>2, <2>1, <2>2 DEF Sound, Wrote, Alike
<1>4. B \in SUBSET Contexts
  OBVIOUS
<1>5. CASE Running(p, A, S, h) /\ c = p.bound
  <2>1. Engaged(w, B, c)
    BY <1>1, <1>2, <1>3, <1>5 DEF Engaged, Running, Active
  <2>2. Free(q, B, h)
    BY <1>4, <2>1, CancelBound
  <2> QED BY <1>1, <2>2 DEF Fit, Free
<1>6. CASE Running(p, A, S, h) /\ c # p.bound
  <2>1. p.focus = p.bound /\ p.holdContext = NoContext /\ ~b
    BY <1>6 DEF Running, Active, Engaged
  <2>2. w = p
    BY <1>1, <2>1 DEF Left, AddonRecord
  <2>3. q = p
    BY <1>1, <1>6, <2>1, <2>2 DEF CancelFor, HoldCancelled
  <2>4. Running(q, B, S, h)
    BY <1>3, <1>6, <2>2, <2>3 DEF Running, Active, Engaged
  <2> QED BY <1>6, <2>3, <2>4 DEF Fit
<1>7. CASE Free(p, A, h)
  <2>1. p.bound = NoContext
    BY <1>7, FreeSession
  <2>2. CASE c = p.holdContext
    <3>1. q = HoldCleared(w)
      BY <1>1, <1>2, <2>1, <2>2, HoldClearedFields DEF CancelFor, HoldCancelled
    <3>2. /\ q \in AddonRecord /\ q.holdContext = NoContext /\ q.output = w.output
          /\ q.sent = w.sent /\ q.s = w.s /\ q.bound = w.bound /\ q.focus = w.focus
          /\ q.panel = w.panel /\ Alike(w, q)
      BY <1>2, <3>1, HoldClearedFields
    <3>3. Sound(q, B)
      BY <1>3, <3>2, SoundMoves DEF Sound
    <3>4. Free(q, B, h)
      BY <1>2, <1>7, <3>2, <3>3 DEF Free
    <3> QED BY <1>1, <1>2, <2>1, <3>2, <3>4 DEF Fit
  <2>3. CASE c # p.holdContext
    <3>1. q = w
      BY <1>1, <1>2, <2>1, <2>3 DEF CancelFor, HoldCancelled
    <3>2. p.holdContext # NoContext => ~b
      BY <1>7, <2>3 DEF Free
    <3>3. Free(q, B, h)
      BY <1>2, <1>3, <1>7, <3>1, <3>2 DEF Free
    <3> QED BY <1>1, <1>2, <2>1, <3>1, <3>3 DEF Fit
  <2> QED BY <2>2, <2>3
<1> QED BY <1>5, <1>6, <1>7 DEF Fit

\* flush() of an event of the socket
LEMMA FlushFits ==
    ASSUME NEW A \in SUBSET Contexts, NEW S, NEW h,
           NEW p, Fit(p, A, S, h), NEW q \in Flush(p)
    PROVE  Fit(q, A, S, h)
PROOF
<1>1. CASE Running(p, A, S, h)
  <2>1. Active(p, A, S, h) /\ Engaged(p, A, p.bound) /\ p.focus = p.bound
    BY <1>1 DEF Running, Active
  <2>2. Free(q, A, h) \/ Sends(p, q, p.sent \o p.output)
    BY <2>1, FlushOutcome
  <2>3. CASE Sends(p, q, p.sent \o p.output)
    <3>1. /\ q \in AddonRecord /\ Alike(p, q) /\ q.sent \o q.output = p.sent \o p.output
          /\ q.s = p.s /\ q.bound = p.bound /\ q.focus = p.focus /\ q.panel = p.panel
          /\ q.holdContext = p.holdContext /\ q.holdSession = p.holdSession
          /\ q.handshake = p.handshake /\ q.link \in {p.link, "open"}
          /\ \A d \in Contexts : d # p.bound => q.panel[d] = p.panel[d]
      BY <2>3 DEF Sends
    <3>2. Active(q, A, S, h)
      BY <2>1, <3>1, ActiveMoves
    <3> QED BY <1>1, <3>1, <3>2 DEF Running, Fit
  <2> QED BY <2>2, <2>3 DEF Fit
<1>2. CASE Free(p, A, h)
  <2>1. Free(q, A, h) \/ Sends(p, q, p.sent \o p.output)
    BY <1>2, FlushOutcome
  <2>2. CASE Sends(p, q, p.sent \o p.output)
    <3>1. p.sent \o p.output = <<>>
      BY <1>2 DEF Free
    <3>2. /\ q \in AddonRecord /\ q.sent \o q.output = <<>>
      BY <2>2, <3>1 DEF Sends
    <3>3. q.sent = <<>> /\ q.output = <<>>
      <4>1. q.sent \in Seq(Requests) /\ q.output \in Seq(Requests)
        BY <3>2 DEF AddonRecord
      <4> QED BY <3>2, <4>1, NothingJoined
    <3>4. Sound(q, A)
      BY <1>2, <2>2, SoundMoves DEF Sends, Free, Sound
    <3>5. Free(q, A, h)
      BY <1>2, <2>2, <3>3, <3>4 DEF Free, Sends
    <3> QED BY <3>5 DEF Fit
  <2> QED BY <2>1, <2>2 DEF Fit
<1> QED BY <1>1, <1>2 DEF Fit

\* Only the flag of the handshake timer or the link differs.
LEMMA LinkFits ==
    ASSUME NEW A \in SUBSET Contexts, NEW S, NEW h,
           NEW p, Fit(p, A, S, h),
           NEW q, \/ q = [p EXCEPT !.link = "open"]
                  \/ q = [p EXCEPT !.handshake = FALSE] /\ p.s.phase \notin Early
    PROVE  Fit(q, A, S, h)
PROOF
<1>1. p \in AddonRecord /\ Sound(p, A)
  BY FreeSession DEF Fit, Running, Active, Engaged, Sound
<1>2. /\ q \in AddonRecord /\ Alike(p, q) /\ q.sent = p.sent /\ q.output = p.output
      /\ q.s = p.s /\ q.bound = p.bound /\ q.focus = p.focus /\ q.panel = p.panel
      /\ q.holdContext = p.holdContext /\ q.holdSession = p.holdSession
  BY <1>1, ZenonT(60) DEF AddonRecord, Alike
<1>3. p.s.phase \notin Early \/ (q.handshake = p.handshake /\ q.link \in {p.link, "open"})
  BY <1>1 DEF AddonRecord
<1>4. CASE Running(p, A, S, h)
  <2>1. q.sent \o q.output = p.sent \o p.output
    BY <1>2
  <2>2. \A d \in Contexts : d # p.bound => q.panel[d] = p.panel[d]
    BY <1>2
  <2>3. Active(q, A, S, h)
    BY <1>2, <1>3, <1>4, <2>1, <2>2, ActiveMoves DEF Running
  <2> QED BY <1>2, <1>4, <2>3 DEF Running, Fit
<1>5. CASE Free(p, A, h)
  <2>1. Sound(q, A)
    BY <1>1, <1>2, SoundMoves DEF Sound
  <2> QED BY <1>2, <1>5, <2>1 DEF Free, Fit
<1> QED BY <1>4, <1>5 DEF Fit

\* A panel that is not the bound context's shows nothing of a session; c
\* may be a context that lives from now on.
LEMMA OtherPanelFits ==
    ASSUME NEW A \in SUBSET Contexts, NEW S, NEW h,
           NEW p, Fit(p, A, S, h), NEW c \in Contexts, c # p.bound,
           NEW v \in Panels \ Ghosts,
           NEW q, q = [p EXCEPT !.panel[c] = v]
    PROVE  Fit(q, A \cup {c}, S, h)
PROOF
<1>1. p \in AddonRecord /\ Sound(p, A)
  BY FreeSession DEF Fit, Running, Active, Engaged, Sound
<1>2. /\ q \in AddonRecord /\ q.panel[c] = v
      /\ \A d \in Contexts : d # c => q.panel[d] = p.panel[d]
      /\ q.sent = p.sent /\ q.output = p.output
      /\ q.handshake = p.handshake /\ q.link = p.link
      /\ q.s = p.s /\ q.bound = p.bound /\ q.focus = p.focus
      /\ q.holdContext = p.holdContext /\ q.holdSession = p.holdSession /\ Alike(p, q)
  BY <1>1 DEF AddonRecord, Alike
<1>3. Sound(q, A \cup {c})
  <2>1. q.focus \in (A \cup {c}) \cup {NoContext}
    BY <1>1, <1>2 DEF Sound
  <2>2. \A d \in A \cup {c} : d # q.bound => q.panel[d] \notin Ghosts
    BY <1>1, <1>2 DEF Sound
  <2> QED BY <1>1, <1>2, <2>1, <2>2 DEF Sound, Wrote, Alike
<1>4. CASE Running(p, A, S, h)
  <2>1. p.bound \in Contexts
    BY <1>4, ActiveBound DEF Running
  <2>2. q.panel[q.bound] = p.panel[p.bound]
    BY <1>2, <2>1
  <2>3. Engaged(q, A \cup {c}, q.bound)
    BY <1>2, <1>3, <1>4 DEF Running, Active, Engaged
  <2>4. Active(q, A \cup {c}, S, h)
    BY <1>2, <1>4, <2>3 DEF Running, Active, Follows, Alike
  <2> QED BY <1>2, <1>4, <2>2, <2>4 DEF Running, Fit
<1>5. CASE Free(p, A, h)
  BY <1>2, <1>3, <1>5 DEF Free, Fit
<1> QED BY <1>4, <1>5 DEF Fit

-----------------------------------------------------------------------------
(* Steps                                                                   *)

LEMMA FitTyped ==
    ASSUME NEW A, NEW S, NEW h, NEW p, Fit(p, A, S, h)
    PROVE  /\ p \in AddonRecord /\ p.focus \in A \cup {NoContext}
           /\ p.bound = NoContext => Free(p, A, h)
           /\ p.bound # NoContext => Running(p, A, S, h) /\ p.focus = p.bound
           /\ p.focus # p.bound => Free(p, A, h)
           /\ p.s.phase = "idle" => Free(p, A, h)
           /\ p.s.phase # "idle" => Running(p, A, S, h)
BY FreeSession DEF Fit, Running, Active, Engaged, Sound, Coherent

LEMMA FailedFits ==
    ASSUME NEW A \in SUBSET Contexts, NEW S, NEW h,
           NEW p, Fit(p, A, S, h), NEW q \in FailTransport(p)
    PROVE  Fit(q, A, S, h)
PROOF
<1>1. (Engaged(p, A, p.bound) /\ p.focus = p.bound) \/ Free(p, A, h)
  BY DEF Fit, Running, Active
<1>2. Free(q, A, h)
  BY <1>1, FailedIsFree
<1> QED BY <1>2 DEF Fit

LEMMA KeyKeeps ==
    ASSUME IInv, NEW k \in Keys, KeyEvent(k)
    PROVE  IInv' /\ (k = "release" /\ addon.s.continuous
                       => addon'.s.phase \notin Early \cup {"recording"})
PROOF
<1> DEFINE c == addon.focus
<1>1. /\ alive \in SUBSET Contexts /\ secret \subseteq Contexts /\ held \in BOOLEAN
      /\ Fit(addon, alive, secret, held) /\ c # NoContext
  BY DEF IInv, KeyEvent
<1>2. /\ addon' \in IF k \in HoldKeys THEN HoldKey(addon, c, k) ELSE OtherKey(addon, c, k)
      /\ held' = IF k = "chord" THEN TRUE ELSE IF k = "release" THEN FALSE ELSE held
      /\ alive' = alive /\ secret' = secret
  BY DEF KeyEvent, Key
<1>3. held' \in BOOLEAN
  BY <1>1, <1>2
<1>4. CASE k \in HoldKeys
  BY <1>1, <1>2, <1>3, <1>4, HoldKeyFits DEF IInv
<1>5. CASE k \notin HoldKeys
  <2>1. k \in ActiveKeys
    BY <1>5 DEF Keys
  <2>2. held' = held /\ k # "release"
    BY <1>2, <1>5 DEF HoldKeys
  <2>3. Fit(addon', alive, secret, held)
    BY <1>1, <1>2, <1>5, <2>1, OtherKeyFits
  <2> QED BY <1>1, <1>2, <2>2, <2>3 DEF IInv
<1> QED BY <1>4, <1>5

\* Focus and the life of contexts
LEMMA ContextKeeps ==
    ASSUME IInv, NEW c \in Contexts,
           \/ FocusIn(c) \/ ResetContext(c) \/ BecomesSecret(c)
           \/ BecomesOpen(c) \/ Destroyed(c) \/ Created(c)
    PROVE  IInv'
PROOF
<1>1. /\ alive \in SUBSET Contexts /\ secret \subseteq Contexts /\ held \in BOOLEAN
      /\ Fit(addon, alive, secret, held) /\ addon \in AddonRecord
  BY FitTyped DEF IInv
<1>2. CASE FocusIn(c)
  <2>1. /\ addon.focus = NoContext /\ c \in alive /\ addon' = [addon EXCEPT !.focus = c]
        /\ alive' = alive /\ secret' = secret /\ held' = held
    BY <1>2 DEF FocusIn
  <2>2. Free(addon, alive, held)
    BY <1>1, <2>1, FitTyped
  <2>3. addon.holdContext = NoContext
    BY <2>1, <2>2 DEF Free
  <2>4. /\ addon' \in AddonRecord /\ addon'.focus = c /\ Alike(addon, addon')
        /\ addon'.s = addon.s /\ addon'.bound = addon.bound /\ addon'.panel = addon.panel
        /\ addon'.holdContext = addon.holdContext
        /\ addon'.output = addon.output /\ addon'.sent = addon.sent
    BY <1>1, <2>1 DEF AddonRecord, Alike
  <2>5. Sound(addon', alive)
    BY <2>1, <2>2, <2>4, SoundMoves DEF Free, Sound
  <2>6. Free(addon', alive, held)
    BY <2>2, <2>3, <2>4, <2>5 DEF Free
  <2> QED BY <1>1, <2>1, <2>6 DEF IInv, Fit
<1>3. CASE ResetContext(c)
  <2>1. /\ addon' \in CancelFor(addon, c, TRUE) /\ c \in alive
        /\ alive' = alive /\ secret' = secret /\ held' = held
    BY <1>3 DEF ResetContext
  <2>2. addon = Left(addon, FALSE)
    BY <1>1 DEF Left, AddonRecord
  <2>3. Fit(addon', alive, secret, held)
    BY <1>1, <2>1, <2>2, CancelFits
  <2> QED BY <1>1, <2>1, <2>3 DEF IInv
<1>4. CASE BecomesSecret(c)
  <2>1. /\ addon' \in CancelFor(addon, c, TRUE) /\ c \in alive
        /\ alive' = alive /\ secret' = secret \cup {c} /\ held' = held
    BY <1>4 DEF BecomesSecret
  <2>2. addon = Left(addon, FALSE)
    BY <1>1 DEF Left, AddonRecord
  <2>3. Fit(addon', alive, secret, held) /\ addon'.bound # c
    BY <1>1, <2>1, <2>2, CancelFits
  <2>4. Fit(addon', alive, secret \cup {c}, held)
    BY <2>3 DEF Fit, Running, Active
  <2> QED BY <1>1, <2>1, <2>4 DEF IInv
<1>5. CASE BecomesOpen(c)
  <2>1. /\ addon' = addon /\ alive' = alive /\ secret' = secret \ {c} /\ held' = held
    BY <1>5 DEF BecomesOpen
  <2>2. Fit(addon, alive, secret \ {c}, held)
    BY <1>1 DEF Fit, Running, Active
  <2> QED BY <1>1, <2>1, <2>2 DEF IInv
<1>6. CASE Destroyed(c)
  <2> DEFINE b == addon.focus = c  B == alive \ {c}
  <2>1. /\ addon' \in CancelFor(Left(addon, b), c, FALSE) /\ c \in alive
        /\ alive' = B /\ secret' = secret \ {c} /\ held' = held
    BY <1>6 DEF Destroyed
  <2>2. /\ b \in BOOLEAN /\ (b => c = addon.focus) /\ B \in SUBSET alive
        /\ alive \ B \subseteq {c} /\ c \notin B /\ (c = addon.focus => b)
    BY <1>1
  <2> HIDE DEF b, B
  <2>3. Fit(addon', B, secret, held)
    BY <1>1, <2>1, <2>2, CancelFits
  <2>4. Fit(addon', B, secret \ {c}, held)
    BY <2>3 DEF Fit, Running, Active
  <2>5. B \subseteq Contexts
    BY <1>1, <2>2
  <2> QED BY <1>1, <2>1, <2>4, <2>5 DEF IInv
<1>7. CASE Created(c)
  <2>1. /\ addon' = [addon EXCEPT !.panel[c] = "clear"] /\ c \notin alive
        /\ alive' = alive \cup {c} /\ secret' = secret /\ held' = held
    BY <1>7 DEF Created
  <2>2. c # addon.bound
    BY <1>1, <2>1, VoiceInputAssumption, FitTyped
  <2>3. "clear" \in Panels \ Ghosts
    BY DEF Panels, Ghosts
  <2>4. Fit(addon', alive \cup {c}, secret, held)
    BY <1>1, <2>1, <2>2, <2>3, OtherPanelFits
  <2> QED BY <1>1, <2>1, <2>4 DEF IInv
<1> QED BY <1>2, <1>3, <1>4, <1>5, <1>6, <1>7

LEMMA FocusKeeps ==
    ASSUME IInv, FocusOut \/ Composes \/ ReleasedUnheard \/ HoldTimerFires
    PROVE  IInv'
PROOF
<1>1. /\ alive \in SUBSET Contexts /\ secret \subseteq Contexts /\ held \in BOOLEAN
      /\ Fit(addon, alive, secret, held) /\ addon \in AddonRecord
  BY FitTyped DEF IInv
<1>2. CASE FocusOut
  <2> DEFINE c == addon.focus
  <2>1. /\ addon' \in CancelFor(Left(addon, TRUE), c, TRUE) /\ c # NoContext
        /\ alive' = alive /\ secret' = secret /\ held' = held
    BY <1>2 DEF FocusOut
  <2>2. c \in Contexts
    BY <1>1, <2>1 DEF AddonRecord
  <2>3. Fit(addon', alive, secret, held)
    BY <1>1, <2>1, <2>2, CancelFits
  <2> QED BY <1>1, <2>1, <2>3 DEF IInv
<1>3. CASE Composes
  <2> DEFINE c == addon.focus
  <2>1. /\ c # NoContext /\ c # addon.bound
        /\ alive' = alive /\ secret' = secret /\ held' = held
    BY <1>3 DEF Composes
  <2>2. PICK v \in {"composing", "clear"} : addon' = [addon EXCEPT !.panel[c] = v]
    BY <1>3 DEF Composes
  <2>3. c \in alive /\ c \in Contexts
    BY <1>1, <2>1, FitTyped
  <2>4. v \in Panels \ Ghosts
    BY DEF Panels, Ghosts
  <2> HIDE DEF c
  <2>5. Fit(addon', alive \cup {c}, secret, held)
    BY <1>1, <2>1, <2>2, <2>3, <2>4, OtherPanelFits
  <2>6. alive \cup {c} = alive
    BY <2>3
  <2> QED BY <1>1, <2>1, <2>5, <2>6 DEF IInv
<1>4. CASE ReleasedUnheard
  <2>1. /\ addon' = addon /\ addon.focus = NoContext
        /\ alive' = alive /\ secret' = secret /\ held' = FALSE
    BY <1>4 DEF ReleasedUnheard
  <2>2. Free(addon, alive, held)
    BY <1>1, <2>1, FitTyped
  <2>3. Free(addon, alive, FALSE)
    BY <2>1, <2>2 DEF Free
  <2> QED BY <1>1, <2>1, <2>3 DEF IInv, Fit
<1>5. CASE HoldTimerFires
  <2> DEFINE c == addon.holdContext  w == HoldCleared(addon)
  <2>1. /\ addon' \in Start(w, c, TRUE) /\ c # NoContext
        /\ alive' = alive /\ secret' = secret /\ held' = held
    BY <1>5 DEF HoldTimerFires
  <2>2. Free(addon, alive, held) /\ held
    BY <1>1, <2>1 DEF Fit, Running, Active, Engaged, Free
  <2>3. Free(w, alive, held) /\ w.holdContext = NoContext
    <3>1. /\ w \in AddonRecord /\ w.holdContext = NoContext /\ w.output = addon.output
          /\ w.sent = addon.sent /\ w.s = addon.s /\ w.bound = addon.bound
          /\ w.focus = addon.focus /\ w.panel = addon.panel /\ Alike(addon, w)
      BY <1>1, HoldClearedFields
    <3> HIDE DEF w
    <3>2. Sound(w, alive)
      BY <2>2, <3>1, SoundMoves DEF Free, Sound
    <3> QED BY <2>2, <3>1, <3>2 DEF Free
  <2>4. c \in Contexts
    BY <1>1, <2>1 DEF AddonRecord
  <2> HIDE DEF c, w
  <2>5. Fit(addon', alive, secret, held)
    BY <1>1, <2>1, <2>2, <2>3, <2>4, StartFits
  <2> QED BY <1>1, <2>1, <2>5 DEF IInv
<1> QED BY <1>2, <1>3, <1>4, <1>5

LEMMA SocketKeeps ==
    ASSUME IInv,
           \/ Connected \/ Writable \/ Disconnected \/ HandshakeExpires
           \/ \E m \in Lines : LineArrives(m)
    PROVE  IInv'
PROOF
<1>1. /\ alive \in SUBSET Contexts /\ secret \subseteq Contexts /\ held \in BOOLEAN
      /\ Fit(addon, alive, secret, held) /\ addon \in AddonRecord
  BY FitTyped DEF IInv
<1>2. alive' = alive /\ secret' = secret /\ held' = held
  BY DEF Connected, Writable, Disconnected, HandshakeExpires, LineArrives
<1>3. Fit(addon', alive, secret, held)
  <2>1. CASE Connected
    <3> DEFINE w == [addon EXCEPT !.link = "open"]
    <3>1. addon' \in Flush(w)
      BY <2>1 DEF Connected
    <3>2. Fit(w, alive, secret, held)
      BY <1>1, LinkFits
    <3> HIDE DEF w
    <3> QED BY <1>1, <3>1, <3>2, FlushFits
  <2>2. CASE Writable
    BY <1>1, <2>2, FlushFits DEF Writable
  <2>3. CASE Disconnected
    BY <1>1, <2>3, FailedFits DEF Disconnected
  <2>4. CASE HandshakeExpires
    <3>1. CASE addon.s.phase \in Early
      BY <1>1, <2>4, <3>1, FailedFits DEF HandshakeExpires
    <3>2. CASE addon.s.phase \notin Early
      BY <1>1, <2>4, <3>2, LinkFits DEF HandshakeExpires
    <3> QED BY <3>1, <3>2
  <2>5. CASE \E m \in Lines : LineArrives(m)
    <3>1. PICK m \in Lines : LineArrives(m)
      BY <2>5
    <3>2. m \in Message
      BY VoiceInputAssumption DEF Message
    <3>3. addon.link # "closed" /\ addon' \in HandleLine(addon, m)
      BY <3>1 DEF LineArrives
    <3> QED BY <1>1, <3>2, <3>3, HandleLineFits
  <2> QED BY <2>1, <2>2, <2>3, <2>4, <2>5
<1> QED BY <1>1, <1>2, <1>3 DEF IInv

LEMMA InitFits == Init => IInv
PROOF
<1> SUFFICES ASSUME Init PROVE IInv
  OBVIOUS
<1>1. addon \in AddonRecord
  BY BlankTyped DEF Init, AddonRecord, Panels
<1>2. addon.typed = <<>> /\ \A c \in Contexts : addon.panel[c] = "clear"
  BY DEF Init
<1>3. Wrote(addon)
  BY <1>2 DEF Wrote
<1>4. Free(addon, alive, held)
  BY <1>1, <1>2, <1>3 DEF Init, Free, Sound, Ghosts
<1> QED BY <1>4 DEF Init, IInv, Fit

LEMMA StepKeeps == IInv /\ [Next]_vars => IInv'
PROOF
<1> SUFFICES ASSUME IInv, [Next]_vars PROVE IInv'
  OBVIOUS
<1>1. CASE UNCHANGED vars
  BY <1>1 DEF vars, IInv
<1>2. CASE Next
  BY <1>2, KeyKeeps, ContextKeeps, FocusKeeps, SocketKeeps DEF Next
<1> QED BY <1>1, <1>2

-----------------------------------------------------------------------------
(* Theorems                                                                *)

\* In every reachable state the add-on is free or runs a session of the
\* context it is bound to.
THEOREM Fitting == Spec => []IInv
BY InitFits, StepKeeps, PTL DEF Spec

\* The properties follow from the invariant.
LEMMA FitKeeps == IInv => SessionKept
PROOF
<1> SUFFICES ASSUME IInv PROVE SessionKept
  OBVIOUS
<1>1. Fit(addon, alive, secret, held) /\ addon \in AddonRecord
  BY FitTyped DEF IInv
<1>2. TypeOK
  BY <1>1 DEF IInv, TypeOK, AddonRecord, SessionRecord, Requests, Panels, Commit
<1>3. CASE Free(addon, alive, held)
  BY <1>2, <1>3, FreeSession DEF SessionKept, BoundWhileActive, HandshakeWatched, Early
<1>4. CASE Running(addon, alive, secret, held)
  <2>1. /\ addon.bound # NoContext /\ addon.focus = addon.bound
        /\ addon.s.phase # "idle" /\ addon.s.context = addon.bound
        /\ addon.bound \notin secret
        /\ addon.s.phase \in Early => addon.handshake /\ addon.link # "closed"
    BY <1>4 DEF Running, Active, Engaged, Coherent
  <2>2. addon.bound \in alive
    BY <1>1, <2>1, FitTyped
  <2> QED BY <1>2, <2>1, <2>2 DEF SessionKept, BoundWhileActive, HandshakeWatched, ActiveFor
<1> QED BY <1>1, <1>3, <1>4 DEF Fit

LEMMA FitHolds == IInv => OnlyWhileHeld
PROOF
<1> SUFFICES ASSUME IInv PROVE OnlyWhileHeld
  OBVIOUS
<1>1. Fit(addon, alive, secret, held)
  BY DEF IInv
<1>2. CASE Free(addon, alive, held)
  <2>1. addon.holdContext # NoContext => addon.holdContext \in alive
    BY <1>2 DEF Free, Sound
  <2> QED BY <1>2, <2>1, FreeSession
          DEF OnlyWhileHeld, HoldIsPending, UnlimitedOnlyHeld, Free, Early
<1>3. CASE Running(addon, alive, secret, held)
  BY <1>3 DEF Running, Active, Engaged, OnlyWhileHeld, HoldIsPending, UnlimitedOnlyHeld
<1> QED BY <1>1, <1>2, <1>3 DEF Fit

LEMMA FitTypes == IInv => TypedRight
PROOF
<1> SUFFICES ASSUME IInv PROVE TypedRight
  OBVIOUS
<1>1. Wrote(addon)
  BY DEF IInv, Fit, Running, Active, Engaged, Free, Sound
<1> QED BY <1>1 DEF Wrote, Before, TypedRight, TypedToFocus, TypedInOrder

LEMMA FitShows == IInv => NoGhostText
PROOF
<1> SUFFICES ASSUME IInv PROVE NoGhostText
  OBVIOUS
<1>1. Fit(addon, alive, secret, held)
  BY DEF IInv
<1>2. CASE Free(addon, alive, held)
  BY <1>2, VoiceInputAssumption DEF IInv, Free, Sound, NoGhostText, Ghosts
<1>3. CASE Running(addon, alive, secret, held)
  BY <1>3 DEF Running, Active, Engaged, Sound, Coherent, NoGhostText, Ghosts, Early
<1> QED BY <1>1, <1>2, <1>3 DEF Fit

LEMMA FitAsks == IInv => OwnRequests
PROOF
<1> SUFFICES ASSUME IInv PROVE OwnRequests
  OBVIOUS
<1>1. Fit(addon, alive, secret, held)
  BY DEF IInv
<1>2. IdleConnectionSilent
  BY <1>1, FitTyped DEF IdleConnectionSilent, Free
<1>3. addon.sent \o addon.output \in {<<>>, <<"start">>, <<"start", "stop">>}
  <2>1. CASE Free(addon, alive, held)
    BY <2>1 DEF Free
  <2>2. CASE Running(addon, alive, secret, held)
    <3>1. addon.s \in SessionRecord /\ Asked(addon.s, addon.sent \o addon.output)
      BY <2>2, ActiveBound DEF IInv, Running, Active
    <3> QED BY <3>1 DEF Asked, SessionRecord, SessionPhases
  <2> QED BY <1>1, <2>1, <2>2 DEF Fit
<1>4. RequestsInOrder
  <2> DEFINE requests == addon.sent \o addon.output
  <2>1. CASE requests = <<>>
    BY <2>1 DEF RequestsInOrder
  <2>2. CASE requests = <<"start">>
    <3>1. \A i, j \in DOMAIN requests : ~(i < j)
      BY <2>2
    <3> QED BY <3>1 DEF RequestsInOrder
  <2>3. CASE requests = <<"start", "stop">>
    <3>1. \A i, j \in DOMAIN requests : i < j => i = 1 /\ j = 2
      BY <2>3
    <3>2. requests[1] = "start" /\ requests[2] = "stop"
      BY <2>3
    <3> HIDE DEF requests
    <3>3. \A i, j \in DOMAIN requests :
            i < j => requests[i] = "start" /\ requests[j] = "stop"
      BY <3>1, <3>2
    <3> DEFINE rank(r) == CASE r = "start" -> 1 [] r = "stop" -> 2 [] r = "cancel" -> 3
    <3>4. rank("start") = 1 /\ rank("stop") = 2
      OBVIOUS
    <3> HIDE DEF rank
    <3>5. \A i, j \in DOMAIN requests : i < j => rank(requests[i]) < rank(requests[j])
      BY <3>3, <3>4
    <3> QED BY <3>5, Zenon DEF RequestsInOrder, requests, rank
  <2> QED BY <1>3, <2>1, <2>2, <2>3
<1> QED BY <1>2, <1>4 DEF OwnRequests

\* Types, and a session has its context, which lives, has the focus and takes
\* no password, and has its timer until it has begun to record: cancelFor() and
\* start() in voiceinput.cpp, whatever the client does inside a call.
THEOREM SessionKeptTheorem == Spec => []SessionKept
BY Fitting, FitKeeps, PTL

\* Nothing waits to record, or records without limit, that nobody holds: the
\* hold timer and handleHoldKey() in voiceinput.cpp.
THEOREM OnlyWhileHeldTheorem == Spec => []OnlyWhileHeld
BY Fitting, FitHolds, PTL

\* Every text is typed once, in order, to the context bound and focused: the
\* commit in handleLine() of voiceinput.cpp, inside which a client may reset.
THEOREM TypedRightTheorem == Spec => []TypedRight
BY Fitting, FitTypes, PTL

\* No voice text stays on a panel after its session, also when clearUi() itself
\* makes the client reset or blur.
THEOREM NoGhostTextTheorem == Spec => []NoGhostText
BY Fitting, FitShows, PTL

\* A connection carries the requests of its own session, each once: queue() and
\* closeTransport() in voiceinput.cpp.
THEOREM OwnRequestsTheorem == Spec => []OwnRequests
BY Fitting, FitAsks, PTL

\* Releasing the keys ends what holding them began, whatever the phase: the
\* release in handleHoldKey() of voiceinput.cpp.
THEOREM ReleaseStopsTheorem == Spec => ReleaseStops
PROOF
<1>1. IInv /\ [Next]_vars
        => [held /\ ~held' /\ addon.s.continuous
              => addon'.s.phase \notin Early \cup {"recording"}]_vars
  <2> SUFFICES ASSUME IInv, Next, held, ~held', addon.s.continuous
               PROVE  addon'.s.phase \notin Early \cup {"recording"}
    BY DEF vars
  <2>1. CASE \E k \in Keys : KeyEvent(k)
    <3>1. PICK k \in Keys : KeyEvent(k)
      BY <2>1
    <3>2. k = "release"
      BY <3>1 DEF KeyEvent
    <3> QED BY <3>1, <3>2, KeyKeeps
  <2>2. CASE ReleasedUnheard
    <3>1. addon' = addon /\ addon.focus = NoContext /\ Fit(addon, alive, secret, held)
      BY <2>2 DEF ReleasedUnheard, IInv
    <3>2. Free(addon, alive, held)
      BY <3>1, FitTyped
    <3> QED BY <3>1, <3>2, FreeSession DEF Early
  <2>3. CASE ~(\E k \in Keys : KeyEvent(k)) /\ ~ReleasedUnheard
    BY <2>3 DEF Next, HoldTimerFires, FocusIn, ResetContext, BecomesSecret, BecomesOpen,
                Destroyed, Created, FocusOut, Composes, Connected, Writable,
                Disconnected, HandshakeExpires, LineArrives
  <2> QED BY <2>1, <2>2, <2>3
<1> QED BY <1>1, Fitting, PTL DEF Spec, ReleaseStops

=============================================================================
