----------------------------- MODULE VoiceInput -----------------------------
(***************************************************************************)
(* The Fcitx5 add-on (plugin/voiceinput.cpp): keys, focus and the socket   *)
(* drive one Session and what the input panel shows.                       *)
(*                                                                         *)
(* Everything runs on Fcitx5's event loop, one event at a time, so a step  *)
(* is a whole handler.  A handler is not quite atomic, though: when it     *)
(* updates the preedit or the panel, or commits text, the client may at    *)
(* once reset the input context or take the focus away, and the add-on's   *)
(* cancelFor then runs inside the call.  A handler is therefore an         *)
(* operator from the add-on's state to the set of states it can end in.    *)
(* The service may send any line at any time.                              *)
(***************************************************************************)
EXTENDS PluginSession

CONSTANTS
    Contexts,       \* input contexts (windows or text fields)
    Lines,          \* bound: the lines the service may send
    MaxSessions     \* bound: sessions begun

ASSUME VoiceInputAssumption ==
    /\ NoContext \notin Contexts
    /\ MaxSessions \in Nat
    /\ Lines \subseteq
         [type : {"ready", "busy", "error", "recording", "transcribing", "result",
                  "partial", "final", "finished", "cancelled"},
          id : Nat, protocol : Nat, segment : Nat, seq : Nat, text : Nat,
          valid : BOOLEAN]

VARIABLES
    addon,      \* the add-on's members and what its calls act on
    secret,     \* contexts with the Password or Sensitive capability
    alive,      \* contexts that exist
    held        \* Ctrl+Alt is physically held down

vars == <<addon, secret, alive, held>>

(***************************************************************************)
(*   s            session_                                                 *)
(*   bound        boundContext_         holdContext  holdContext_, with    *)
(*                                                   holdTimer_ armed      *)
(*   holdSession  holdSession_          next         nextSessionId_        *)
(*   link         fd_ and connecting_   output       output_, by request   *)
(*   handshake    handshakeTimer_ is armed                                 *)
(*   sent         requests the kernel took on this connection              *)
(*   focus        the focused context   panel        content of each panel *)
(*   typed        history: the texts committed, in order                   *)
(***************************************************************************)
Init ==
    /\ addon = [s |-> Blank, bound |-> NoContext, holdContext |-> NoContext,
                holdSession |-> FALSE, next |-> 0, link |-> "closed",
                output |-> <<>>, handshake |-> FALSE, sent |-> <<>>,
                focus |-> NoContext, panel |-> [c \in Contexts |-> "clear"],
                typed |-> <<>>]
    /\ secret = {}
    /\ alive = Contexts
    /\ held = FALSE

-----------------------------------------------------------------------------
(* Transport and cancellation                                              *)

\* Slip: output that was not flushed waits for the next connection
CloseKeepsOutput(p) ==
    [p EXCEPT !.link = "closed", !.handshake = FALSE, !.sent = <<>>]

CloseTransport(p) ==
    [p EXCEPT !.link = "closed", !.output = <<>>, !.handshake = FALSE, !.sent = <<>>]

Unbound(p) == [p EXCEPT !.bound = NoContext]

HoldCleared(p) == [p EXCEPT !.holdContext = NoContext]

\* cancelFor up to the user interface, for the bound context.  The cancel
\* request is written at once if the socket takes it; closing says the same.
Ended(p) == [CloseTransport(p) EXCEPT !.s = Reset(@), !.holdSession = FALSE]

HoldCancelled(p, c) == IF c = p.holdContext THEN HoldCleared(p) ELSE p

\* The focused client takes its focus away, or it only resets the context.
Left(p, blurs) == [p EXCEPT !.focus = IF blurs THEN NoContext ELSE @]

\* Slip: the panel keeps what the interrupted call was showing
CancelledQuietly(p, c) ==
    LET q == HoldCancelled(p, c)
    IN  IF c # q.bound THEN q ELSE Unbound(Ended(q))

\* cancelFor inside a user interface call (uiCallbackActive_)
CancelledInside(p, c) ==
    LET q == HoldCancelled(p, c)
    IN  IF c # q.bound THEN q
        ELSE Unbound([Ended(q) EXCEPT !.panel[c] = "clear"])

-----------------------------------------------------------------------------
(* The user interface                                                      *)

Shows(p, c) == c # NoContext /\ c = p.bound /\ p.focus = c

\* context->updatePreedit() or updateUserInterface()
UiCall(p, c) == {p} \cup {CancelledInside(Left(p, blurs), c) : blurs \in BOOLEAN}

\* updateClientPreedit, then updateInputPanel
Published(p, c) ==
    UNION {IF Shows(q, c) THEN UiCall(q, c) ELSE {q} : q \in UiCall(p, c)}

PublishedIfFocused(p, c) == IF Shows(p, c) THEN Published(p, c) ELSE {p}

ClearUi(p, c) ==
    IF c = NoContext \/ c # p.bound THEN {p}
    ELSE PublishedIfFocused([p EXCEPT !.panel[c] = "clear"], c)

ShowStatus(p, c) ==
    IF Shows(p, c) THEN Published([p EXCEPT !.panel[c] = "status"], c) ELSE {p}

\* what updateUi puts on the panel
Drawn(s) ==
    CASE s.phase = "idle" -> "clear"
      [] s.phase = "preview" -> "candidate"
      [] s.phase \notin {"idle", "preview"} /\ s.streaming /\ s.preview > 0 -> "preedit"
      [] OTHER -> "status"

UpdateUi(p, c) ==
    IF ~Shows(p, c) THEN {p}
    ELSE LET q == [p EXCEPT !.panel[c] = Drawn(p.s)]
         IN  IF p.s.phase = "idle" THEN {q} ELSE Published(q, c)

\* Slip: the session is not abandoned with its transport
FailTransportOnly(p) ==
    {Unbound(q) : q \in ShowStatus(CloseTransport(p), p.bound)}

FailTransport(p) ==
    {Unbound(q) : q \in ShowStatus(Ended(p), p.bound)}

\* cancelFor called from an event
CancelFor(p, c, ui) ==
    LET q == HoldCancelled(p, c)
    IN  IF c = NoContext \/ c # q.bound THEN {q}
        ELSE {Unbound(r) : r \in IF ui THEN ClearUi(Ended(q), c) ELSE {Ended(q)}}

\* commitString; `focused' records whether the text reached the context that
\* is bound and has the focus.
CommitString(p, c, i, segment) ==
    LET q == [p EXCEPT !.typed = Append(@,
                [context |-> c, id |-> i, segment |-> segment,
                 focused |-> p.bound = c /\ p.focus = c])]
    IN  {q} \cup UNION {CancelFor(Left(q, blurs), c, TRUE) : blurs \in BOOLEAN}

-----------------------------------------------------------------------------
(* Requests                                                                *)

\* flush(): the kernel takes some of the output, or the socket is broken.
Flush(p) ==
    {[p EXCEPT !.sent = @ \o SubSeq(p.output, 1, k),
               !.output = SubSeq(@, k + 1, Len(@))] : k \in 0 .. Len(p.output)}
    \cup FailTransport(p)

\* The size limits of queue() are far above the three requests of a session.
Queue(p, request) ==
    LET q == [p EXCEPT !.output = Append(@, request)]
    IN  IF q.link = "open" THEN Flush(q) ELSE {q}

\* Slip: no handshake timer
OpenUnwatched(p) ==
    {[CloseTransport(p) EXCEPT !.link = l] : l \in {"connecting", "open"}}

OpenTransport(p) ==
    LET q == CloseTransport(p)
    IN  {[q EXCEPT !.link = l, !.handshake = TRUE] : l \in {"connecting", "open"}}
        \cup FailTransport(q)

AllowedToStart(p, c) ==
    /\ c # NoContext /\ p.focus = c /\ c \notin secret
    /\ p.panel[c] \notin {"preedit", "candidate", "composing"}

Start(p, c, continuous) ==
    IF ~AllowedToStart(p, c) \/ ~CanBegin(p.s, c) THEN {p}
    ELSE LET q == [p EXCEPT !.s = Begin(p.next + 1, c, continuous), !.next = @ + 1,
                            !.bound = c, !.holdSession = continuous]
         IN  UNION {OpenTransport(r) : r \in UpdateUi(q, c)}

Request(p, requests) ==
    IF requests = <<>> THEN {p} ELSE Queue(p, Head(requests))

ToggleRecording(p) ==
    IF p.bound = NoContext THEN {p}
    ELSE UNION {
        IF q.s.phase # "idle" THEN UpdateUi(q, q.bound)
        ELSE {Unbound([r EXCEPT !.holdSession = FALSE]) :
                 r \in ClearUi(CloseTransport(q), q.bound)}
        : q \in Request([p EXCEPT !.s = Toggled(@)], ToggleRequest(p.s))}

-----------------------------------------------------------------------------
(* A line of the service                                                   *)

\* The end of handleLine: what the new phase means for timer, transport, UI.
Settled(p, c) ==
    LET q == IF p.s.phase \in {"recording", "idle"}
             THEN [p EXCEPT !.handshake = FALSE] ELSE p
        ended == CloseTransport([q EXCEPT !.holdSession = FALSE, !.s.error = FALSE])
    IN  CASE q.s.phase = "preview" -> UpdateUi(CloseTransport(q), c)
          [] q.s.phase = "idle" ->
               {Unbound(r) : r \in IF q.s.error THEN ShowStatus(ended, c)
                                   ELSE ClearUi(ended, c)}
          [] OTHER -> UpdateUi(q, c)

Still(p, c) == Shows(p, c) /\ ActiveFor(p.s, c)

\* A final: the preedit is cleared, the text committed, and the session
\* looked at again after either call.  `segment' is the number it came with.
Committed(p, c, segment) ==
    LET text == p.s.pending[1]
        q == [p EXCEPT !.s.pending = <<>>]
    IN  UNION {IF ~Still(r, c) THEN {r}
               ELSE IF text = 0 THEN Settled(r, c)
               ELSE UNION {IF x.bound = c /\ ActiveFor(x.s, c) THEN Settled(x, c) ELSE {x}
                           : x \in CommitString(r, c, p.s.id, segment)}
               : r \in ClearUi(q, c)}

Understood(p, c, segment) ==
    IF p.s.pending # <<>> THEN Committed(p, c, segment) ELSE Settled(p, c)

\* (The line is read into the session, so a commit that is pending has found
\* the session active and focused: the first of the code's three looks.)
HandleLine(p, m) ==
    LET c == p.bound
    IN  IF ~Still(p, c) THEN CancelFor(p, c, FALSE)
        ELSE IF Welcomes(p.s, m)
        THEN UNION {IF q.bound = c THEN Understood(q, c, m.segment) ELSE {q}
                    : q \in Queue([p EXCEPT !.s = Welcomed(@, m)], "start")}
        ELSE Understood([p EXCEPT !.s = Heard(@, m)], c, m.segment)

-----------------------------------------------------------------------------
(* Keys.  "chord" completes Ctrl+Alt, "modifier" is Ctrl or Alt with other *)
(* modifiers, "release" the release of Ctrl or Alt, "other" any other      *)
(* release or modifier, "plain" any other key.                             *)

HoldKeys == {"chord", "modifier", "release", "other"}
ActiveKeys == {"trigger", "escape", "enter", "backspace", "plain"}
Keys == HoldKeys \cup ActiveKeys

\* Slip: a release does not take back a pending hold
HoldKeyPends(p, c, k) ==
    CASE k = "release" ->
           IF p.holdSession /\ c = p.bound
           THEN ToggleRecording([p EXCEPT !.holdSession = FALSE])
           ELSE {p}
      [] k = "other" -> {HoldCleared(p)}
      [] k = "modifier" -> {IF p.holdSession THEN p ELSE HoldCleared(p)}
      [] k = "chord" ->
           {IF ~p.holdSession /\ p.holdContext = NoContext /\ p.s.phase = "idle"
               /\ AllowedToStart(p, c)
            THEN [p EXCEPT !.holdContext = c] ELSE p}

\* handleHoldKey, for the keys that handleActiveKey ignores
HoldKey(p, c, k) ==
    CASE k = "release" ->
           IF p.holdSession /\ c = p.bound
           THEN ToggleRecording([HoldCleared(p) EXCEPT !.holdSession = FALSE])
           ELSE {HoldCleared(p)}
      [] k = "other" -> {HoldCleared(p)}
      [] k = "modifier" -> {IF p.holdSession THEN p ELSE HoldCleared(p)}
      [] k = "chord" ->
           {IF ~p.holdSession /\ p.holdContext = NoContext /\ p.s.phase = "idle"
               /\ AllowedToStart(p, c)
            THEN [p EXCEPT !.holdContext = c] ELSE p}

\* Enter on a preview
Accepted(p, c) ==
    UNION {IF q.bound # c THEN {q} ELSE {Unbound(r) : r \in ClearUi(q, c)}
           : q \in CommitString([p EXCEPT !.s = Reset(@)], c, p.s.id, 1)}

\* handleActiveKey, for the bound context
ActiveKey(p, c, k) ==
    CASE k = "trigger" -> ToggleRecording([p EXCEPT !.holdSession = FALSE])
      [] k = "enter" /\ p.s.phase = "preview" -> Accepted(p, c)
      [] k = "backspace" /\ p.s.phase = "preview" ->
           UpdateUi([p EXCEPT !.s = Shortened(@)], c)
      [] OTHER -> CancelFor(p, c, TRUE)

\* A trigger key that is not for the bound context reaches handleTriggerKey.
OtherKey(p, c, k) ==
    LET q == HoldCleared(p)
    IN  IF q.bound = c THEN ActiveKey(q, c, k)
        ELSE IF k = "trigger" THEN Start(q, c, FALSE) ELSE {q}

Key(p, c, k) ==
    IF k \in HoldKeys THEN HoldKey(p, c, k)
    ELSE OtherKey(p, c, k)

-----------------------------------------------------------------------------
(* Events                                                                  *)

KeyEvent(k) ==
    /\ addon.focus # NoContext
    /\ k = "trigger" /\ addon.bound # addon.focus => addon.next < MaxSessions
    /\ addon' \in Key(addon, addon.focus, k)
    /\ held' = CASE k = "chord" -> TRUE [] k = "release" -> FALSE [] OTHER -> held
    /\ UNCHANGED <<secret, alive>>

\* The keys are released where no input context hears of it.
ReleasedUnheard ==
    /\ addon.focus = NoContext /\ held
    /\ held' = FALSE
    /\ UNCHANGED <<addon, secret, alive>>

HoldTimerFires ==
    /\ addon.holdContext # NoContext /\ addon.next < MaxSessions
    /\ addon' \in Start(HoldCleared(addon), addon.holdContext, TRUE)
    /\ UNCHANGED <<secret, alive, held>>

FocusIn(c) ==
    /\ addon.focus = NoContext /\ c \in alive
    /\ addon' = [addon EXCEPT !.focus = c]
    /\ UNCHANGED <<secret, alive, held>>

\* InputContextFocusOut arrives when the focus is already gone.
FocusOut ==
    /\ addon.focus # NoContext
    /\ addon' \in CancelFor(Left(addon, TRUE), addon.focus, TRUE)
    /\ UNCHANGED <<secret, alive, held>>

\* InputContextReset and InputContextSwitchInputMethod
ResetContext(c) ==
    /\ c \in alive
    /\ addon' \in CancelFor(addon, c, TRUE)
    /\ UNCHANGED <<secret, alive, held>>

BecomesSecret(c) ==
    /\ c \in alive \ secret
    /\ secret' = secret \cup {c}
    /\ addon' \in CancelFor(addon, c, TRUE)
    /\ UNCHANGED <<alive, held>>

BecomesOpen(c) ==
    /\ c \in secret
    /\ secret' = secret \ {c}
    /\ UNCHANGED <<addon, alive, held>>

\* A context is destroyed; a later one may be given its address.
Destroyed(c) ==
    /\ c \in alive
    /\ alive' = alive \ {c} /\ secret' = secret \ {c}
    /\ addon' \in CancelFor(Left(addon, addon.focus = c), c, FALSE)
    /\ UNCHANGED held

Created(c) ==
    /\ c \in Contexts \ alive
    /\ alive' = alive \cup {c}
    /\ addon' = [addon EXCEPT !.panel[c] = "clear"]
    /\ UNCHANGED <<secret, held>>

\* The input method composes in the focused context, or is done with it.
Composes ==
    /\ addon.focus \notin {NoContext, addon.bound}
    /\ \E content \in {"composing", "clear"} :
         addon' = [addon EXCEPT !.panel[addon.focus] = content]
    /\ UNCHANGED <<secret, alive, held>>

\* onSocket: the connection is made, or is refused
Connected ==
    /\ addon.link = "connecting"
    /\ addon' \in Flush([addon EXCEPT !.link = "open"])
    /\ UNCHANGED <<secret, alive, held>>

\* onSocket: the socket can be written again
Writable ==
    /\ addon.link = "open" /\ addon.output # <<>>
    /\ addon' \in Flush(addon)
    /\ UNCHANGED <<secret, alive, held>>

LineArrives(m) ==
    /\ addon.link = "open"
    /\ addon' \in HandleLine(addon, m)
    /\ UNCHANGED <<secret, alive, held>>

\* end of file, an error, or a line that is too long
Disconnected ==
    /\ addon.link # "closed"
    /\ addon' \in FailTransport(addon)
    /\ UNCHANGED <<secret, alive, held>>

\* The handshake timer is one-shot.
HandshakeExpires ==
    /\ addon.handshake
    /\ addon' \in IF addon.s.phase \in Early THEN FailTransport(addon)
                  ELSE {[addon EXCEPT !.handshake = FALSE]}
    /\ UNCHANGED <<secret, alive, held>>

Next ==
    \/ \E k \in Keys : KeyEvent(k)
    \/ ReleasedUnheard \/ HoldTimerFires
    \/ \E c \in Contexts : FocusIn(c) \/ ResetContext(c) \/ BecomesSecret(c)
                           \/ BecomesOpen(c) \/ Destroyed(c) \/ Created(c)
    \/ FocusOut \/ Composes
    \/ Connected \/ Writable \/ Disconnected \/ HandshakeExpires
    \/ \E m \in Lines : LineArrives(m)

Spec == Init /\ [][Next]_vars

\* The event loop's timers fire.
FairSpec == Spec /\ WF_vars(HandshakeExpires)

-----------------------------------------------------------------------------
(* Properties                                                              *)

\* Members keep their types.
TypeOK ==
    /\ addon \in
         [s : [phase : SessionPhases, id : Nat, context : Contexts \cup {NoContext},
               continuous : BOOLEAN, streaming : BOOLEAN, preview : Nat,
               segment : Nat, seq : Nat, pending : Seq(Nat), error : BOOLEAN],
          bound : Contexts \cup {NoContext}, holdContext : Contexts \cup {NoContext},
          holdSession : BOOLEAN, next : Nat,
          link : {"closed", "connecting", "open"},
          output : Seq({"start", "stop", "cancel"}), handshake : BOOLEAN,
          sent : Seq({"start", "stop", "cancel"}),
          focus : Contexts \cup {NoContext},
          panel : [Contexts -> {"clear", "status", "preedit", "candidate", "composing"}],
          typed : Seq([context : Contexts, id : Nat, segment : Nat, focused : BOOLEAN])]
    /\ secret \subseteq Contexts /\ alive \subseteq Contexts
    /\ held \in BOOLEAN

\* Between two events the session is active exactly when a context is bound,
\* it belongs to that context, and the context lives, has the focus and takes
\* no password: no handler, and no reset in the middle of one, leaves a
\* session without an owner or a pointer to a context that is gone.
BoundWhileActive ==
    IF addon.bound = NoContext THEN addon.s.phase = "idle"
    ELSE /\ ActiveFor(addon.s, addon.bound)
         /\ addon.focus = addon.bound /\ addon.bound \in alive \ secret

\* A pending hold waits for a living, focused context and an idle session.
HoldIsPending ==
    addon.holdContext # NoContext =>
        /\ addon.s.phase = "idle" /\ held
        /\ addon.holdContext = addon.focus /\ addon.focus \in alive

\* A recording without time limit lasts only while Ctrl+Alt is held down.
UnlimitedOnlyHeld ==
    addon.s.continuous /\ addon.s.phase \in Early \cup {"recording"} => held

\* Text goes to the context that was bound and focused at that moment: the
\* client calls of handleLine and the Enter key never let a text slip to a
\* context that was left or reset in between.
TypedToFocus == \A i \in DOMAIN addon.typed : addon.typed[i].focused

\* Each segment of each session is committed at most once, in order and to
\* one context, whatever the service repeats or sends late.
TypedInOrder ==
    \A i \in DOMAIN addon.typed : \A j \in 1 .. i - 1 :
        LET a == addon.typed[j]  b == addon.typed[i]
        IN  \/ a.id < b.id
            \/ a.id = b.id /\ a.context = b.context /\ a.segment < b.segment

\* Voice text is never left on a panel after its session has ended.
NoGhostText ==
    \A c \in alive : addon.panel[c] \in {"preedit", "candidate"} =>
        addon.bound = c /\ addon.s.phase \notin {"idle"} \cup Early

\* The handshake timer watches every session that has not begun to record.
HandshakeWatched ==
    addon.s.phase \in Early => addon.handshake /\ addon.link # "closed"

\* A connection that belongs to no session never asks for a recording.
IdleConnectionSilent ==
    addon.link # "closed" /\ addon.s.phase = "idle" =>
        addon.output = <<>> /\ addon.sent = <<>>

\* Requests reach the service in the order start, stop, cancel, and none
\* twice.
RequestsInOrder ==
    LET requests == addon.sent \o addon.output
        rank(r) == CASE r = "start" -> 1 [] r = "stop" -> 2 [] r = "cancel" -> 3
    IN  \A i, j \in DOMAIN requests : i < j => rank(requests[i]) < rank(requests[j])

\* Types, and a session is never without its context and, while it begins,
\* without the timer that ends it.
SessionKept == TypeOK /\ BoundWhileActive /\ HandshakeWatched

\* Nothing waits to record, or records without limit, that nobody holds.
OnlyWhileHeld == HoldIsPending /\ UnlimitedOnlyHeld

\* Every text goes once, in order, to the context that is bound and focused.
TypedRight == TypedToFocus /\ TypedInOrder

\* A connection carries the requests of its session only, each once.
OwnRequests == IdleConnectionSilent /\ RequestsInOrder

\* A session that connects or starts gets beyond it, or ends.
HandshakeEnds ==
    \A i \in 1 .. MaxSessions :
        (addon.s.phase \in Early /\ addon.s.id = i)
            ~> ~(addon.s.phase \in Early /\ addon.s.id = i)

\* Releasing the keys ends what holding them began, whatever the phase.
ReleaseStops ==
    [][held /\ ~held' /\ addon.s.continuous
         => addon'.s.phase \notin Early \cup {"recording"}]_vars

\* The design's "focus-out, reset, ... all cancel": a session that was
\* cancelled leaves no connection open behind it.
NoConnectionWhenIdle ==
    addon.link # "closed" => addon.s.phase # "idle"
=============================================================================
