----------------------------- MODULE LineBuffer -----------------------------
(***************************************************************************)
(* linebuffer.h and the loop of readAvailable() in voiceinput.cpp that     *)
(* uses it: the bytes of the service arrive in pieces of any length, and   *)
(* the add-on handles whole lines of at most Limit bytes.                  *)
(***************************************************************************)
EXTENDS Naturals, Sequences

CONSTANTS Bytes,     \* the bytes other than a newline
          NL,        \* a newline
          Limit,     \* Session::MaxLineBytes - 1
          MaxBytes,  \* bound: bytes on one connection
          MaxOpens   \* bound: connections

ASSUME BufferAssumption ==
    NL \notin Bytes /\ Limit \in Nat /\ MaxBytes \in Nat /\ MaxOpens \in Nat

VARIABLES open,        \* fd_ >= 0
          buffer, discarding,
          chunk,       \* what recv() returned and feed() has not looked at
          lines, overflow,  \* the FeedResult
          sent,        \* history: the lines that ended, of the bytes looked at
          line,        \* history: the bytes after them
          handled,     \* history: the lines given to handleLine()
          received, opens

vars == <<open, buffer, discarding, chunk, lines, overflow, sent, line, handled, received, opens>>

TypeOK ==
    /\ open \in BOOLEAN /\ discarding \in BOOLEAN /\ overflow \in BOOLEAN
    /\ buffer \in Seq(Bytes) /\ Len(buffer) <= Limit
    /\ chunk \in Seq(Bytes \union {NL})
    /\ lines \in Seq(Seq(Bytes)) /\ sent \in Seq(Seq(Bytes)) /\ handled \in Seq(Seq(Bytes))
    /\ line \in Seq(Bytes)
    /\ received \in Nat /\ opens \in Nat
    /\ ~open => buffer = <<>> /\ ~discarding /\ chunk = <<>>

Init ==
    /\ open = FALSE /\ buffer = <<>> /\ discarding = FALSE
    /\ chunk = <<>> /\ lines = <<>> /\ overflow = FALSE
    /\ sent = <<>> /\ line = <<>> /\ handled = <<>>
    /\ received = 0 /\ opens = 0

\* Slip: the state of the last connection is kept.
Uncleared == UNCHANGED <<buffer, discarding>>

\* clear()
Cleared == buffer' = <<>> /\ discarding' = FALSE

\* closeTransport()
Closed == open' = FALSE /\ Cleared /\ chunk' = <<>> /\ lines' = <<>> /\ overflow' = FALSE

Open ==
    /\ ~open /\ opens < MaxOpens
    /\ open' = TRUE /\ opens' = opens + 1
    /\ sent' = <<>> /\ line' = <<>> /\ handled' = <<>> /\ received' = 0
    /\ UNCHANGED <<buffer, discarding, chunk, lines, overflow>>

\* A new FeedResult for the bytes that recv() returned.
Recv(bytes) ==
    /\ open /\ chunk = <<>> /\ lines = <<>> /\ ~overflow
    /\ bytes # <<>> /\ received + Len(bytes) <= MaxBytes
    /\ received' = received + Len(bytes)
    /\ chunk' = bytes
    /\ UNCHANGED <<open, buffer, discarding, lines, overflow, sent, line, handled, opens>>

(***************************************************************************)
(* feed(), byte by byte.                                                   *)
(***************************************************************************)
Full == Len(buffer) = Limit

Byte(byte) ==
    IF byte = NL
    THEN /\ discarding' = FALSE
         /\ lines' = IF discarding THEN lines ELSE Append(lines, buffer)
         /\ buffer' = <<>> /\ UNCHANGED overflow
    ELSE /\ buffer' = IF discarding THEN buffer ELSE IF Full THEN <<>> ELSE Append(buffer, byte)
         /\ discarding' = (discarding \/ Full)
         /\ overflow' = (overflow \/ (~discarding /\ Full))
         /\ UNCHANGED lines

\* The bytes as the service wrote them.
Written(byte) ==
    IF byte = NL
    THEN sent' = Append(sent, line) /\ line' = <<>>
    ELSE line' = Append(line, byte) /\ UNCHANGED sent

Feed ==
    /\ chunk # <<>>
    /\ Byte(Head(chunk)) /\ Written(Head(chunk))
    /\ chunk' = Tail(chunk)
    /\ UNCHANGED <<open, handled, received, opens>>

(***************************************************************************)
(* readAvailable(), when feed() has returned.                              *)
(***************************************************************************)
Overflow ==
    /\ open /\ chunk = <<>> /\ overflow
    /\ Closed
    /\ UNCHANGED <<sent, line, handled, received, opens>>

\* handleLine() may close the connection; the other lines are then dropped.
HandleLine ==
    /\ open /\ chunk = <<>> /\ ~overflow /\ lines # <<>>
    /\ handled' = Append(handled, Head(lines))
    /\ \/ lines' = Tail(lines) /\ UNCHANGED <<open, buffer, discarding, chunk, overflow>>
       \/ Closed
    /\ UNCHANGED <<sent, line, received, opens>>

\* The service closes it, or the session ends, between two calls.
Close ==
    /\ open /\ chunk = <<>> /\ lines = <<>> /\ ~overflow
    /\ Closed
    /\ UNCHANGED <<sent, line, handled, received, opens>>

Pieces == UNION {[1 .. n -> Bytes \union {NL}] : n \in 1 .. MaxBytes}

Next ==
    \/ Open \/ Feed \/ Overflow \/ HandleLine \/ Close
    \/ \E bytes \in Pieces : Recv(bytes)

Spec == Init /\ [][Next]_vars

(***************************************************************************)
(* Properties.                                                             *)
(***************************************************************************)
\* However the bytes are cut, and whatever an earlier connection left, the
\* add-on handles the lines of this connection, whole and in their order, none
\* skipped and none made of two.
WholeLines ==
    /\ open /\ ~overflow => handled \o lines = sent
    /\ Len(handled) <= Len(sent) /\ handled = SubSeq(sent, 1, Len(handled))

\* A line of more than Limit bytes ends the connection before anything after the
\* last call of recv() is handled: it and its tail are never taken for a message,
\* and a line of exactly Limit bytes is one.
LongLineEnds ==
    /\ \A i \in 1 .. Len(handled) : Len(handled[i]) <= Limit
    /\ open => (overflow <=> Len(line) > Limit \/ \E i \in 1 .. Len(sent) : Len(sent[i]) > Limit)

\* Both, over any sequence of connections: the buffer keeps its bound and the
\* lines are those that were written.
Framing == TypeOK /\ WholeLines /\ LongLineEnds
=============================================================================
