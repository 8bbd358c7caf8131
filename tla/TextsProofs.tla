----------------------------- MODULE TextsProofs -----------------------------
(***************************************************************************)
(* Proofs about what happens to a text on its way: LineBuffer, for every   *)
(* limit, every alphabet and every way of cutting the bytes; Text, for     *)
(* texts and results of the punctuation model of every length; and         *)
(* RefinedDecoder, for recordings of every length, every lookahead and     *)
(* every limit of the retained audio.                                      *)
(***************************************************************************)
EXTENDS MCTexts, WellFoundedInduction, TLAPS

Char == Bytes \union {NL}

Line == Seq(Bytes)

(***************************************************************************)
(* LineBuffer: the parts of the type                                       *)
(***************************************************************************)
FlagType == open \in BOOLEAN /\ discarding \in BOOLEAN /\ overflow \in BOOLEAN
BufferType == buffer \in Line /\ Len(buffer) <= Limit /\ line \in Line
LinesType == lines \in Seq(Line) /\ sent \in Seq(Line) /\ handled \in Seq(Line)
ChunkType == chunk \in Seq(Char) /\ received \in Nat /\ opens \in Nat
IdleType == ~open => buffer = <<>> /\ ~discarding /\ chunk = <<>>

LEMMA TypeParts ==
    TypeOK <=> FlagType /\ BufferType /\ LinesType /\ ChunkType /\ IdleType
BY DEF TypeOK, FlagType, BufferType, LinesType, ChunkType, IdleType, Char, Line

LEMMA TypePartsNext ==
    TypeOK' <=> FlagType' /\ BufferType' /\ LinesType' /\ ChunkType' /\ IdleType'
BY DEF TypeOK, FlagType, BufferType, LinesType, ChunkType, IdleType, Char, Line

(***************************************************************************)
(* LineBuffer: the invariant                                               *)
(***************************************************************************)
SomeLong == Len(line) > Limit \/ \E i \in 1 .. Len(sent) : Len(sent[i]) > Limit

\* Nothing is left over from one connection to the next.
Closing == ~open => lines = <<>> /\ ~overflow

\* The buffer is the line so far until a line was too long.
Keeping == (discarding => overflow) /\ (~overflow => buffer = line)

\* The lines ready to be handled fit.
Fitting == \A i \in 1 .. Len(lines) : Len(lines[i]) <= Limit

Handled == \A i \in 1 .. Len(handled) : Len(handled[i]) <= Limit

\* What was handled is the beginning of what was sent; before an overflow the
\* rest waits in `lines'.
Prefix == \E rest \in Seq(Line) : handled \o rest = sent

Waiting == open /\ ~overflow => handled \o lines = sent

Noticed == open => (overflow <=> SomeLong)

IInv ==
    /\ TypeOK /\ Closing /\ (open => Keeping) /\ Fitting /\ Handled
    /\ Prefix /\ Waiting /\ Noticed

(***************************************************************************)
(* Sequences                                                               *)
(***************************************************************************)
LEMMA AppendConcat ==
    ASSUME NEW a \in Seq(Line), NEW b \in Seq(Line), NEW e \in Line
    PROVE  a \o Append(b, e) = Append(a \o b, e)
OBVIOUS

LEMMA HeadTailConcat ==
    ASSUME NEW a \in Seq(Line), NEW b \in Seq(Line), b # <<>>
    PROVE  /\ Head(b) \in Line /\ Tail(b) \in Seq(Line) /\ b[1] = Head(b)
           /\ Append(a, Head(b)) \o Tail(b) = a \o b
OBVIOUS

LEMMA PrefixOf ==
    ASSUME NEW a \in Seq(Line), NEW b \in Seq(Line)
    PROVE  Len(a) <= Len(a \o b) /\ a = SubSeq(a \o b, 1, Len(a))
OBVIOUS

LEMMA Empty == <<>> \in Line /\ Len(<<>>) = 0 /\ <<>> \in Seq(Line) /\ <<>> \o <<>> = <<>>
BY DEF Line

LEMMA AppendFacts ==
    ASSUME NEW a \in Seq(Line), NEW e \in Line
    PROVE  /\ Len(a) \in Nat /\ Append(a, e) \in Seq(Line) /\ Len(Append(a, e)) = Len(a) + 1
           /\ Append(a, e)[Len(a) + 1] = e
           /\ \A i \in 1 .. Len(a) : Append(a, e)[i] = a[i]
OBVIOUS

LEMMA AppendByte ==
    ASSUME NEW a \in Line, NEW b \in Bytes
    PROVE  Append(a, b) \in Line /\ Len(Append(a, b)) = Len(a) + 1 /\ Len(a) \in Nat
BY DEF Line

LEMMA ChunkFacts ==
    ASSUME NEW a \in Seq(Char), a # <<>>
    PROVE  Head(a) \in Char /\ Tail(a) \in Seq(Char)
OBVIOUS

LEMMA TailFacts ==
    ASSUME NEW a \in Seq(Line), a # <<>>
    PROVE  /\ Tail(a) \in Seq(Line) /\ Len(Tail(a)) = Len(a) - 1 /\ Len(a) \in Nat
           /\ \A i \in 1 .. Len(Tail(a)) : Tail(a)[i] = a[i + 1]
OBVIOUS

LEMMA PieceIsSeq ==
    ASSUME NEW bytes \in Pieces
    PROVE  bytes \in Seq(Char) /\ Len(bytes) \in Nat
<1>1. PICK n \in 1 .. MaxBytes : bytes \in [1 .. n -> Char]
  BY DEF Pieces, Char
<1>2. n \in Nat
  BY BufferAssumption
<1> QED
  BY <1>1, <1>2

(***************************************************************************)
(* feed(), one byte                                                        *)
(***************************************************************************)

\* A newline: the line ends, and is kept if it was never too long.
LEMMA NewlineFeeds ==
    ASSUME IInv, open, Byte(NL), Written(NL), UNCHANGED <<open, handled, received, opens>>,
           chunk' \in Seq(Char)
    PROVE  IInv'
<1>1. /\ discarding' = FALSE /\ buffer' = <<>> /\ overflow' = overflow
      /\ lines' = (IF discarding THEN lines ELSE Append(lines, buffer))
      /\ sent' = Append(sent, line) /\ line' = <<>>
  BY DEF Byte, Written
<1>2. /\ buffer \in Line /\ line \in Line /\ Len(buffer) <= Limit
      /\ lines \in Seq(Line) /\ sent \in Seq(Line) /\ handled \in Seq(Line)
  BY TypeParts DEF IInv, BufferType, LinesType
<1>3. TypeOK'
  <2>1. lines' \in Seq(Line) /\ sent' \in Seq(Line)
    BY <1>1, <1>2, AppendFacts
  <2>2. BufferType'
    BY <1>1, Empty, BufferAssumption DEF BufferType
  <2>3. FlagType'
    BY <1>1, TypeParts DEF IInv, FlagType
  <2>4. ChunkType' /\ IdleType'
    BY TypeParts DEF IInv, ChunkType, IdleType
  <2> QED
    BY <1>2, <2>1, <2>2, <2>3, <2>4, TypePartsNext DEF LinesType
<1>4. Closing' /\ Keeping'
  BY <1>1 DEF Closing, Keeping
<1>5. Fitting'
  <2>1. CASE discarding
    BY <1>1, <2>1 DEF IInv, Fitting
  <2>2. CASE ~discarding
    <3>1. lines' = Append(lines, buffer)
      BY <1>1, <2>2
    <3>2. Len(lines') = Len(lines) + 1 /\ lines'[Len(lines) + 1] = buffer
          /\ Len(lines) \in Nat /\ \A i \in 1 .. Len(lines) : lines'[i] = lines[i]
      BY <1>2, <3>1, AppendFacts
    <3>3. \A i \in 1 .. Len(lines) : Len(lines[i]) <= Limit
      BY DEF IInv, Fitting
    <3>4. ASSUME NEW i \in 1 .. Len(lines')
          PROVE  Len(lines'[i]) <= Limit
      <4>1. i \in 1 .. Len(lines) \/ i = Len(lines) + 1
        BY <3>2, <3>4
      <4> QED
        BY <1>2, <3>2, <3>3, <4>1
    <3> QED
      BY <3>4 DEF Fitting
  <2> QED
    BY <2>1, <2>2
<1>6. Handled'
  BY DEF IInv, Handled
<1>7. Prefix'
  <2>1. PICK rest \in Seq(Line) : handled \o rest = sent
    BY DEF IInv, Prefix
  <2>2. handled \o Append(rest, line) = sent'
    BY <1>1, <1>2, <2>1, AppendConcat
  <2>3. Append(rest, line) \in Seq(Line)
    BY <1>2, <2>1, AppendFacts
  <2> QED
    BY <2>2, <2>3 DEF Prefix
<1>8. Waiting'
  <2> SUFFICES ASSUME ~overflow PROVE handled' \o lines' = sent'
    BY <1>1 DEF Waiting
  <2>1. ~discarding /\ buffer = line /\ handled \o lines = sent
    BY Zenon DEF IInv, Keeping, Waiting
  <2>2. lines' = Append(lines, line) /\ handled' = handled
    BY <1>1, <2>1
  <2>3. handled \o Append(lines, line) = Append(sent, line)
    BY <1>2, <2>1, AppendConcat
  <2> QED
    BY <1>1, <2>2, <2>3
<1>9. Noticed'
  <2>1. Len(sent') = Len(sent) + 1 /\ sent'[Len(sent) + 1] = line /\ Len(sent) \in Nat
        /\ \A i \in 1 .. Len(sent) : sent'[i] = sent[i]
    BY <1>1, <1>2, AppendFacts
  <2>2. Len(line') = 0 /\ ~(Len(line') > Limit)
    BY <1>1, Empty, BufferAssumption
  <2>3. ASSUME NEW i \in 1 .. Len(sent'), Len(sent'[i]) > Limit
        PROVE  SomeLong
    <3>1. i \in 1 .. Len(sent) \/ i = Len(sent) + 1
      BY <2>1
    <3> QED
      BY <2>1, <2>3, <3>1 DEF SomeLong
  <2>4. ASSUME SomeLong
        PROVE  SomeLong'
    <3>1. CASE Len(line) > Limit
      <4>1. Len(sent) + 1 \in 1 .. Len(sent')
        BY <2>1
      <4> QED
        BY <2>1, <3>1, <4>1 DEF SomeLong
    <3>2. ASSUME NEW i \in 1 .. Len(sent), Len(sent[i]) > Limit
          PROVE  SomeLong'
      <4>1. i \in 1 .. Len(sent') /\ sent'[i] = sent[i]
        BY <2>1
      <4> QED
        BY <3>2, <4>1 DEF SomeLong
    <3> QED
      BY <2>4, <3>1, <3>2 DEF SomeLong
  <2>5. SomeLong' => SomeLong
    BY <2>2, <2>3 DEF SomeLong
  <2> QED
    BY <1>1, <2>4, <2>5, Zenon DEF IInv, Noticed
<1> QED
  BY <1>3, <1>4, <1>5, <1>6, <1>7, <1>8, <1>9 DEF IInv

\* Another byte: it is kept, is one too many, or is skipped.
LEMMA CharFeeds ==
    ASSUME IInv, open, NEW b \in Bytes, Byte(b), Written(b),
           UNCHANGED <<open, handled, received, opens>>, chunk' \in Seq(Char)
    PROVE  IInv'
<1>0. b # NL
  BY BufferAssumption
<1>1. /\ buffer' = (IF discarding THEN buffer ELSE IF Full THEN <<>> ELSE Append(buffer, b))
      /\ discarding' = (discarding \/ Full)
      /\ overflow' = (overflow \/ (~discarding /\ Full))
      /\ lines' = lines /\ sent' = sent /\ line' = Append(line, b)
  BY <1>0 DEF Byte, Written
<1>2. buffer \in Line /\ line \in Line /\ Len(buffer) <= Limit
  BY TypeParts DEF IInv, BufferType
<1>3. line' \in Line /\ Len(line') = Len(line) + 1 /\ Len(line) \in Nat
  BY <1>1, <1>2, AppendByte
<1>4. buffer' \in Line /\ Len(buffer') <= Limit
  <2>1. CASE discarding
    BY <1>1, <1>2, <2>1
  <2>2. CASE ~discarding /\ Full
    BY <1>1, <2>2, Empty, BufferAssumption
  <2>3. CASE ~discarding /\ ~Full
    <3>1. buffer' = Append(buffer, b)
      BY <1>1, <2>3
    <3> QED
      BY <1>2, <2>3, <3>1, AppendByte, BufferAssumption DEF Full
  <2> QED
    BY <2>1, <2>2, <2>3
<1>5. FlagType'
  BY <1>1, TypeParts DEF IInv, FlagType
<1>6. TypeOK'
  <2>1. LinesType' /\ ChunkType' /\ IdleType'
    BY <1>1, TypeParts DEF IInv, LinesType, ChunkType, IdleType
  <2> QED
    BY <1>3, <1>4, <1>5, <2>1, TypePartsNext DEF BufferType
<1>7. Closing' /\ Fitting' /\ Handled' /\ Prefix'
  BY <1>1 DEF IInv, Closing, Fitting, Handled, Prefix
<1>8. Keeping'
  <2>1. discarding => overflow
    BY DEF IInv, Keeping
  <2>2. discarding' => overflow'
    BY <1>1, <2>1, Zenon
  <2>3. ASSUME ~overflow' PROVE buffer' = line'
    <3>1. ~overflow /\ ~discarding /\ ~Full
      BY <1>1, <2>1, <2>3, Zenon
    <3>2. buffer = line
      BY <3>1 DEF IInv, Keeping
    <3> QED
      BY <1>1, <3>1, <3>2
  <2> QED
    BY <2>2, <2>3 DEF Keeping
<1>9. Waiting'
  <2>1. ~overflow' => ~overflow
    BY <1>1
  <2> QED
    BY <1>1, <2>1 DEF IInv, Waiting
<1>10. Noticed'
  <2>1. CASE overflow
    <3>1. SomeLong /\ overflow'
      BY <1>1, <2>1, Zenon DEF IInv, Noticed
    <3>2. Len(line) > Limit => Len(line') > Limit
      BY <1>3, BufferAssumption
    <3>3. SomeLong'
      BY <1>1, <3>1, <3>2 DEF SomeLong
    <3> QED
      BY <3>1, <3>3 DEF Noticed
  <2>2. CASE ~overflow
    <3>1. ~discarding /\ buffer = line /\ ~SomeLong
      BY <2>2, Zenon DEF IInv, Keeping, Noticed
    <3>2. overflow' <=> Full
      BY <1>1, <2>2, <3>1
    <3>3. Full <=> Len(line') > Limit
      BY <1>2, <1>3, <3>1, BufferAssumption DEF Full
    <3>4. SomeLong' <=> Len(line') > Limit
      BY <1>1, <3>1 DEF SomeLong
    <3> QED
      BY <3>2, <3>3, <3>4 DEF Noticed
  <2> QED
    BY <2>1, <2>2
<1> QED
  BY <1>6, <1>7, <1>8, <1>9, <1>10 DEF IInv

LEMMA FeedKeeps ==
    ASSUME IInv, Feed
    PROVE  IInv'
<1>1. open /\ chunk \in Seq(Char) /\ chunk # <<>>
  BY TypeParts DEF Feed, IInv, ChunkType, IdleType
<1>2. Head(chunk) \in Char /\ chunk' \in Seq(Char)
  BY <1>1, ChunkFacts DEF Feed
<1>3. CASE Head(chunk) = NL
  BY <1>1, <1>2, <1>3, NewlineFeeds DEF Feed
<1>4. CASE Head(chunk) \in Bytes
  BY <1>1, <1>2, <1>4, CharFeeds DEF Feed
<1> QED
  BY <1>2, <1>3, <1>4 DEF Char

(***************************************************************************)
(* readAvailable()                                                         *)
(***************************************************************************)

LEMMA ClosedKeeps ==
    ASSUME IInv, Closed, UNCHANGED <<sent, line, received, opens>>,
           handled' \in Seq(Line), Handled', Prefix'
    PROVE  IInv'
<1>1. /\ open' = FALSE /\ buffer' = <<>> /\ discarding' = FALSE /\ chunk' = <<>>
      /\ lines' = <<>> /\ overflow' = FALSE
  BY DEF Closed, Cleared
<1>2. BufferType'
  BY <1>1, Empty, BufferAssumption, TypeParts DEF IInv, BufferType
<1>3. LinesType'
  BY <1>1, Empty, TypeParts DEF IInv, LinesType
<1>4. FlagType' /\ IdleType'
  BY <1>1 DEF FlagType, IdleType
<1>5. ChunkType'
  BY <1>1, TypeParts DEF IInv, ChunkType
<1>6. Fitting'
  BY <1>1, Empty DEF Fitting
<1>7. Closing' /\ Waiting' /\ Noticed'
  BY <1>1 DEF Closing, Waiting, Noticed
<1> QED
  BY <1>1, <1>2, <1>3, <1>4, <1>5, <1>6, <1>7, TypePartsNext DEF IInv

LEMMA HandleKeeps ==
    ASSUME IInv, HandleLine
    PROVE  IInv'
<1>1. /\ lines \in Seq(Line) /\ lines # <<>> /\ handled \in Seq(Line)
      /\ handled \o lines = sent /\ open /\ ~overflow
  BY TypeParts DEF IInv, HandleLine, LinesType, Waiting
<1>2. /\ Head(lines) \in Line /\ Tail(lines) \in Seq(Line) /\ lines[1] = Head(lines)
      /\ Append(handled, Head(lines)) \o Tail(lines) = sent
  BY <1>1, HeadTailConcat
<1>3. handled' = Append(handled, Head(lines)) /\ UNCHANGED <<sent, line, received, opens>>
  BY DEF HandleLine
<1>4. handled' \in Seq(Line) /\ handled' \o Tail(lines) = sent'
  BY <1>1, <1>2, <1>3, AppendFacts
<1>5. Prefix'
  BY <1>2, <1>4 DEF Prefix
<1>6. Handled'
  <2>1. Len(Head(lines)) <= Limit
    <3>1. 1 \in 1 .. Len(lines)
      BY <1>1, TailFacts
    <3> QED
      BY <1>2, <3>1 DEF IInv, Fitting
  <2>2. Len(handled') = Len(handled) + 1 /\ handled'[Len(handled) + 1] = Head(lines)
        /\ Len(handled) \in Nat /\ \A i \in 1 .. Len(handled) : handled'[i] = handled[i]
    BY <1>1, <1>2, <1>3, AppendFacts
  <2>3. \A i \in 1 .. Len(handled) : Len(handled[i]) <= Limit
    BY DEF IInv, Handled
  <2>4. ASSUME NEW i \in 1 .. Len(handled')
        PROVE  Len(handled'[i]) <= Limit
    <3>1. i \in 1 .. Len(handled) \/ i = Len(handled) + 1
      BY <2>2, <2>4
    <3> QED
      BY <2>1, <2>2, <2>3, <3>1
  <2> QED
    BY <2>4 DEF Handled
<1>7. CASE Closed
  BY <1>3, <1>4, <1>5, <1>6, <1>7, ClosedKeeps
<1>8. CASE lines' = Tail(lines) /\ UNCHANGED <<open, buffer, discarding, chunk, overflow>>
  <2>1. FlagType' /\ BufferType' /\ ChunkType' /\ IdleType'
    BY <1>3, <1>8, TypeParts DEF IInv, FlagType, BufferType, ChunkType, IdleType
  <2>2. LinesType'
    BY <1>2, <1>3, <1>4, <1>8, TypeParts DEF IInv, LinesType
  <2>3. Fitting'
    <3>1. \A i \in 1 .. Len(lines) : Len(lines[i]) <= Limit
      BY DEF IInv, Fitting
    <3>2. Len(lines') = Len(lines) - 1 /\ Len(lines) \in Nat
          /\ \A i \in 1 .. Len(lines') : lines'[i] = lines[i + 1]
      BY <1>1, <1>8, TailFacts
    <3>3. ASSUME NEW i \in 1 .. Len(lines')
          PROVE  Len(lines'[i]) <= Limit
      <4>1. i + 1 \in 1 .. Len(lines)
        BY <3>2
      <4> QED
        BY <3>1, <3>2, <3>3, <4>1
    <3> QED
      BY <3>3 DEF Fitting
  <2>4. Closing' /\ (open' => Keeping')
    BY <1>1, <1>3, <1>8 DEF IInv, Closing, Keeping
  <2>5. Waiting'
    BY <1>4, <1>8 DEF Waiting
  <2>6. Noticed'
    BY <1>3, <1>8 DEF IInv, Noticed, SomeLong
  <2> QED
    BY <1>5, <1>6, <2>1, <2>2, <2>3, <2>4, <2>5, <2>6, TypePartsNext DEF IInv
<1> QED
  BY <1>7, <1>8 DEF HandleLine

LEMMA OpenKeeps ==
    ASSUME IInv, Open
    PROVE  IInv'
<1>1. buffer = <<>> /\ ~discarding /\ chunk = <<>> /\ lines = <<>> /\ ~overflow /\ opens \in Nat
  BY TypeParts DEF Open, IInv, IdleType, Closing, ChunkType
<1>2. /\ open' = TRUE /\ sent' = <<>> /\ line' = <<>> /\ handled' = <<>>
      /\ buffer' = <<>> /\ ~discarding' /\ chunk' = <<>> /\ lines' = <<>>
      /\ ~overflow' /\ received' = 0 /\ opens' = opens + 1
  BY <1>1 DEF Open
<1>3. FlagType'
  BY <1>2, TypeParts DEF Open, IInv, FlagType
<1>4. BufferType' /\ LinesType'
  BY <1>2, Empty, BufferAssumption DEF BufferType, LinesType
<1>5. ChunkType' /\ IdleType'
  BY <1>1, <1>2 DEF ChunkType, IdleType
<1>6. Closing' /\ Keeping'
  BY <1>2 DEF Closing, Keeping
<1>7. Fitting' /\ Handled'
  BY <1>2, Empty DEF Fitting, Handled
<1>8. Prefix' /\ Waiting'
  BY <1>2, Empty DEF Prefix, Waiting
<1>9. Noticed'
  <2>1. ~SomeLong'
    BY <1>2, Empty, BufferAssumption DEF SomeLong
  <2> QED
    BY <1>2, <2>1 DEF Noticed
<1> QED
  BY <1>3, <1>4, <1>5, <1>6, <1>7, <1>8, <1>9, TypePartsNext DEF IInv

LEMMA RecvKeeps ==
    ASSUME IInv, NEW bytes \in Pieces, Recv(bytes)
    PROVE  IInv'
<1>1. bytes \in Seq(Char) /\ Len(bytes) \in Nat
  BY PieceIsSeq
<1>2. UNCHANGED <<open, buffer, discarding, lines, overflow, sent, line, handled, opens>>
      /\ open /\ chunk' = bytes /\ received' = received + Len(bytes)
  BY DEF Recv
<1>3. FlagType' /\ BufferType' /\ LinesType' /\ IdleType'
  BY <1>2, TypeParts DEF IInv, FlagType, BufferType, LinesType, IdleType
<1>4. ChunkType'
  BY <1>1, <1>2, TypeParts DEF IInv, ChunkType
<1>5. Closing' /\ (open' => Keeping') /\ Fitting' /\ Handled' /\ Prefix' /\ Waiting' /\ Noticed'
  BY <1>2 DEF IInv, Closing, Keeping, Fitting, Handled, Prefix, Waiting, Noticed, SomeLong
<1> QED
  BY <1>3, <1>4, <1>5, TypePartsNext DEF IInv

LEMMA InitIInv == Init => IInv
<1> SUFFICES ASSUME Init PROVE IInv
  OBVIOUS
<1>1. FlagType /\ IdleType /\ Closing /\ Waiting /\ Noticed /\ ~open
  BY DEF Init, FlagType, IdleType, Closing, Waiting, Noticed
<1>2. BufferType /\ LinesType
  BY Empty, BufferAssumption DEF Init, BufferType, LinesType
<1>3. ChunkType
  BY DEF Init, ChunkType
<1>4. Fitting /\ Handled
  BY Empty DEF Init, Fitting, Handled
<1>5. Prefix
  BY Empty DEF Init, Prefix
<1> QED
  BY <1>1, <1>2, <1>3, <1>4, <1>5, TypeParts DEF IInv

LEMMA NextIInv == IInv /\ [Next]_vars => IInv'
<1> SUFFICES ASSUME IInv, [Next]_vars PROVE IInv'
  OBVIOUS
<1>1. CASE UNCHANGED vars
  BY <1>1
  DEF vars, IInv, TypeOK, Closing, Keeping, Fitting, Handled, Prefix, Waiting, Noticed, SomeLong
<1>2. CASE Overflow \/ Close
  <2>1. Closed /\ UNCHANGED <<sent, line, handled, received, opens>>
    BY <1>2 DEF Overflow, Close
  <2>2. handled' \in Seq(Line) /\ Handled' /\ Prefix'
    BY <2>1, TypeParts DEF IInv, LinesType, Handled, Prefix
  <2> QED
    BY <2>1, <2>2, ClosedKeeps
<1>3. CASE \E bytes \in Pieces : Recv(bytes)
  BY <1>3, RecvKeeps
<1> QED
  BY <1>1, <1>2, <1>3, FeedKeeps, HandleKeeps, OpenKeeps DEF Next

\* The invariant from which the others follow: the buffer and the lines that wait
\* are what is left of the bytes written after the lines handled.
THEOREM Inductive == Spec => []IInv
BY InitIInv, NextIInv, PTL DEF Spec

\* The buffer never holds more than Limit bytes (linebuffer.h:19-42).
THEOREM TypeCorrect == Spec => []TypeOK
<1>1. IInv => TypeOK
  BY DEF IInv
<1> QED
  BY <1>1, Inductive, PTL

\* The add-on handles the lines of the connection, whole and in order,
\* however recv() cuts them (linebuffer.h:19-42, voiceinput.cpp:394-420).
THEOREM WholeLinesTheorem == Spec => []WholeLines
<1>1. IInv => WholeLines
  <2> SUFFICES ASSUME IInv PROVE WholeLines
    OBVIOUS
  <2>1. PICK rest \in Seq(Line) : handled \o rest = sent
    BY DEF IInv, Prefix
  <2>2. handled \in Seq(Line)
    BY TypeParts DEF IInv, LinesType
  <2>3. Len(handled) <= Len(sent) /\ handled = SubSeq(sent, 1, Len(handled))
    BY <2>1, <2>2, PrefixOf
  <2> QED
    BY <2>3 DEF IInv, Waiting, WholeLines
<1> QED
  BY <1>1, Inductive, PTL

\* A line that is too long is noticed, by its last byte or before, and nothing
\* of it is handled; one of exactly Limit bytes is not (linebuffer.h:33).
THEOREM LongLineTheorem == Spec => []LongLineEnds
<1>1. IInv => LongLineEnds
  BY DEF IInv, Handled, Noticed, SomeLong, LongLineEnds
<1> QED
  BY <1>1, Inductive, PTL

\* The framing of linebuffer.h:19-42 and its use in voiceinput.cpp:394-420, for
\* every limit and every sequence of connections.
THEOREM FramingTheorem == Spec => []Framing
<1>1. TypeOK /\ WholeLines /\ LongLineEnds => Framing
  BY DEF Framing
<1> QED
  BY <1>1, TypeCorrect, WholeLinesTheorem, LongLineTheorem, PTL

(***************************************************************************)
(* finalize_text(), pass by pass                                           *)
(***************************************************************************)
Spaceable == [ch : Spacing!Characters, gap : BOOLEAN]
Texts == Seq(Spaceable)

Parsed(t) == Spacing!Parsed(t)
Unspaced(t) == Spacing!Pass(Parsed(t), Spacing!Closed)
Parted(t) == Spacing!Pass(Unspaced(t), Spacing!Marked)
Spaced(t) == Spacing!Pass(Parted(t), Spacing!Mixed)

LEMMA Regapped ==
    ASSUME NEW c \in Spaceable, NEW b \in BOOLEAN
    PROVE  /\ [c EXCEPT !.gap = b] \in Spaceable
           /\ [c EXCEPT !.gap = b].ch = c.ch /\ [c EXCEPT !.gap = b].gap = b
BY DEF Spaceable

LEMMA ParsedAt ==
    ASSUME NEW t \in Texts
    PROVE  /\ DOMAIN Parsed(t) = DOMAIN t
           /\ \A i \in DOMAIN t :
                /\ Parsed(t)[i] \in Spaceable
                /\ Parsed(t)[i].ch = IF Spacing!InAddress(t, i) THEN "url" ELSE t[i].ch
                /\ Parsed(t)[i].gap = t[i].gap
<1>1. DOMAIN Parsed(t) = DOMAIN t
  BY DEF Parsed, Spacing!Parsed
<1>2. ASSUME NEW i \in DOMAIN t
      PROVE  /\ Parsed(t)[i] \in Spaceable
             /\ Parsed(t)[i].ch = IF Spacing!InAddress(t, i) THEN "url" ELSE t[i].ch
             /\ Parsed(t)[i].gap = t[i].gap
  <2>1. t[i] \in Spaceable
    BY DEF Texts
  <2>2. CASE Spacing!InAddress(t, i)
    BY <2>1, <2>2 DEF Parsed, Spacing!Parsed, Spaceable, Spacing!Characters
  <2>3. CASE ~Spacing!InAddress(t, i)
    BY <2>1, <2>3 DEF Parsed, Spacing!Parsed, Spaceable
  <2> QED
    BY <2>2, <2>3
<1> QED
  BY <1>1, <1>2

\* Each pass changes gaps only, as its rule says.
LEMMA PassesAt ==
    ASSUME NEW t \in Texts
    PROVE  /\ DOMAIN Unspaced(t) = DOMAIN t /\ DOMAIN Parted(t) = DOMAIN t
           /\ DOMAIN Spaced(t) = DOMAIN t
           /\ \A i \in DOMAIN t :
                /\ Unspaced(t)[i] \in Spaceable /\ Unspaced(t)[i].ch = Parsed(t)[i].ch
                /\ Unspaced(t)[i].gap =
                     (i > 1 /\ Spacing!Closed(Parsed(t), i, Parsed(t)[i].gap))
                /\ Parted(t)[i] \in Spaceable /\ Parted(t)[i].ch = Parsed(t)[i].ch
                /\ Parted(t)[i].gap =
                     (i > 1 /\ Spacing!Marked(Unspaced(t), i, Unspaced(t)[i].gap))
                /\ Spaced(t)[i] \in Spaceable /\ Spaced(t)[i].ch = Parsed(t)[i].ch
                /\ Spaced(t)[i].gap =
                     (i > 1 /\ Spacing!Mixed(Parted(t), i, Parted(t)[i].gap))
<1> DEFINE D == DOMAIN t
           B1 == [i \in D |-> i > 1 /\ Spacing!Closed(Parsed(t), i, Parsed(t)[i].gap)]
           B2 == [i \in D |-> i > 1 /\ Spacing!Marked(Unspaced(t), i, Unspaced(t)[i].gap)]
           B3 == [i \in D |-> i > 1 /\ Spacing!Mixed(Parted(t), i, Parted(t)[i].gap)]
<1>1. /\ DOMAIN Unspaced(t) = D
      /\ \A i \in D : /\ Unspaced(t)[i] \in Spaceable
                      /\ Unspaced(t)[i].ch = Parsed(t)[i].ch /\ Unspaced(t)[i].gap = B1[i]
  <2>1. Unspaced(t) = [i \in D |-> [Parsed(t)[i] EXCEPT !.gap = B1[i]]]
    BY ParsedAt DEF Unspaced, Spacing!Pass
  <2>2. B1 \in [D -> BOOLEAN] /\ \A i \in D : Parsed(t)[i] \in Spaceable
    BY ParsedAt
  <2> HIDE DEF D, B1
  <2>3. ASSUME NEW i \in D
        PROVE  /\ Unspaced(t)[i] \in Spaceable
               /\ Unspaced(t)[i].ch = Parsed(t)[i].ch /\ Unspaced(t)[i].gap = B1[i]
    <3>1. Parsed(t)[i] \in Spaceable /\ B1[i] \in BOOLEAN
      BY <2>2
    <3>2. Unspaced(t)[i] = [Parsed(t)[i] EXCEPT !.gap = B1[i]]
      BY <2>1
    <3> QED
      BY <3>1, <3>2, Regapped
  <2> QED
    BY <2>1, <2>3
<1>2. /\ DOMAIN Parted(t) = D
      /\ \A i \in D : /\ Parted(t)[i] \in Spaceable
                      /\ Parted(t)[i].ch = Unspaced(t)[i].ch /\ Parted(t)[i].gap = B2[i]
  <2>1. Parted(t) = [i \in D |-> [Unspaced(t)[i] EXCEPT !.gap = B2[i]]]
    BY <1>1 DEF Parted, Spacing!Pass
  <2>2. B2 \in [D -> BOOLEAN] /\ \A i \in D : Unspaced(t)[i] \in Spaceable
    BY <1>1
  <2> HIDE DEF D, B2
  <2>3. ASSUME NEW i \in D
        PROVE  /\ Parted(t)[i] \in Spaceable
               /\ Parted(t)[i].ch = Unspaced(t)[i].ch /\ Parted(t)[i].gap = B2[i]
    <3>1. Unspaced(t)[i] \in Spaceable /\ B2[i] \in BOOLEAN
      BY <2>2
    <3>2. Parted(t)[i] = [Unspaced(t)[i] EXCEPT !.gap = B2[i]]
      BY <2>1
    <3> QED
      BY <3>1, <3>2, Regapped
  <2> QED
    BY <2>1, <2>3
<1>3. /\ DOMAIN Spaced(t) = D
      /\ \A i \in D : /\ Spaced(t)[i] \in Spaceable
                      /\ Spaced(t)[i].ch = Parted(t)[i].ch /\ Spaced(t)[i].gap = B3[i]
  <2>1. Spaced(t) = [i \in D |-> [Parted(t)[i] EXCEPT !.gap = B3[i]]]
    BY <1>2 DEF Spaced, Spacing!Pass
  <2>2. B3 \in [D -> BOOLEAN] /\ \A i \in D : Parted(t)[i] \in Spaceable
    BY <1>2
  <2> HIDE DEF D, B3
  <2>3. ASSUME NEW i \in D
        PROVE  /\ Spaced(t)[i] \in Spaceable
               /\ Spaced(t)[i].ch = Parted(t)[i].ch /\ Spaced(t)[i].gap = B3[i]
    <3>1. Parted(t)[i] \in Spaceable /\ B3[i] \in BOOLEAN
      BY <2>2
    <3>2. Spaced(t)[i] = [Parted(t)[i] EXCEPT !.gap = B3[i]]
      BY <2>1
    <3> QED
      BY <3>1, <3>2, Regapped
  <2> QED
    BY <2>1, <2>3
<1>4. \A i \in D : /\ B1[i] = (i > 1 /\ Spacing!Closed(Parsed(t), i, Parsed(t)[i].gap))
                   /\ B2[i] = (i > 1 /\ Spacing!Marked(Unspaced(t), i, Unspaced(t)[i].gap))
                   /\ B3[i] = (i > 1 /\ Spacing!Mixed(Parted(t), i, Parted(t)[i].gap))
  OBVIOUS
<1> HIDE DEF B1, B2, B3
<1> QED
  BY <1>1, <1>2, <1>3, <1>4

\* What becomes of the gap before a character that is not the first.
Class(t, i) == Parsed(t)[i].ch

Word(t, k) ==
    \E j \in 1 .. k :
        /\ Class(t, j) \in Spacing!Letters
        /\ \A m \in j + 1 .. k : Class(t, m) \in Spacing!Alnum /\ ~Parted(t)[m].gap

LEMMA Gaps ==
    ASSUME NEW t \in Texts, NEW i \in DOMAIN t, i > 1
    PROVE  /\ i - 1 \in DOMAIN t
           /\ Unspaced(t)[i].gap <=>
                /\ t[i].gap /\ ~(Class(t, i - 1) = "han" /\ Class(t, i) = "han")
                /\ Class(t, i - 1) # "fw" /\ Class(t, i) # "fw"
                /\ Class(t, i) \notin Spacing!AsciiMarks
           /\ Parted(t)[i].gap <=>
                \/ Unspaced(t)[i].gap
                \/ Class(t, i - 1) = "!" /\ Class(t, i) \in Spacing!Alnum
                \/ Class(t, i - 1) = "," /\ Class(t, i) \in Spacing!Letters
                \/ /\ Class(t, i - 1) = "," /\ Class(t, i) \in Spacing!Digits
                   /\ ~(i > 2 /\ Class(t, i - 2) \in Spacing!Digits)
           /\ Spaced(t)[i].gap <=>
                \/ Parted(t)[i].gap
                \/ Class(t, i - 1) = "han" /\ Class(t, i) \in Spacing!Letters \union {"url"}
                \/ Class(t, i) = "han" /\ Word(t, i - 1)
<1>1. /\ i \in Nat /\ DOMAIN t = 1 .. Len(t) /\ Len(t) \in Nat
      /\ i - 1 \in DOMAIN t /\ (i > 2 => i - 2 \in DOMAIN t)
  BY DEF Texts
<1>2. Unspaced(t)[i].gap <=>
                /\ t[i].gap /\ ~(Class(t, i - 1) = "han" /\ Class(t, i) = "han")
                /\ Class(t, i - 1) # "fw" /\ Class(t, i) # "fw"
                /\ Class(t, i) \notin Spacing!AsciiMarks
  BY <1>1, PassesAt, ParsedAt, ZenonT(60) DEF Spacing!Closed, Spacing!Between, Class
<1>3. Parted(t)[i].gap <=>
                \/ Unspaced(t)[i].gap
                \/ Class(t, i - 1) = "!" /\ Class(t, i) \in Spacing!Alnum
                \/ Class(t, i - 1) = "," /\ Class(t, i) \in Spacing!Letters
                \/ /\ Class(t, i - 1) = "," /\ Class(t, i) \in Spacing!Digits
                   /\ ~(i > 2 /\ Class(t, i - 2) \in Spacing!Digits)
  BY <1>1, PassesAt, ZenonT(60) DEF Spacing!Marked, Spacing!Between, Class
<1>4. Spacing!WordEnds(Parted(t), i - 1) <=> Word(t, i - 1)
  <2>1. \A j \in 1 .. i - 1 : j \in DOMAIN t /\ Parted(t)[j].ch = Class(t, j)
    BY <1>1, PassesAt DEF Class
  <2>2. \A j \in 1 .. i - 1 : \A m \in j + 1 .. i - 1 : m \in 1 .. i - 1
    BY <1>1
  <2> QED
    BY <2>1, <2>2 DEF Spacing!WordEnds, Word
<1>5. Spaced(t)[i].gap <=>
                \/ Parted(t)[i].gap
                \/ Class(t, i - 1) = "han" /\ Class(t, i) \in Spacing!Letters \union {"url"}
                \/ Class(t, i) = "han" /\ Word(t, i - 1)
  BY <1>1, <1>4, PassesAt DEF Spacing!Mixed, Spacing!Between, Class
<1> QED
  BY <1>1, <1>2, <1>3, <1>5

\* The text after all passes: its characters, with the gaps of the last one.
LEMMA FinalizedAt ==
    ASSUME NEW t \in Texts
    PROVE  /\ Spacing!Finalized(t) \in Texts
           /\ DOMAIN Spacing!Finalized(t) = DOMAIN t
           /\ \A i \in DOMAIN t : /\ Spacing!Finalized(t)[i].ch = t[i].ch
                                  /\ Spacing!Finalized(t)[i].gap = Spaced(t)[i].gap
                                  /\ Spacing!Finalized(t)[i] =
                                       [t[i] EXCEPT !.gap = Spaced(t)[i].gap]
<1> DEFINE f == Spacing!Finalized(t)
<1>1. f = [i \in DOMAIN t |-> [t[i] EXCEPT !.gap = Spaced(t)[i].gap]]
  BY DEF Spacing!Finalized, Spaced, Parted, Unspaced, Parsed
<1> HIDE DEF f
<1>2. DOMAIN f = DOMAIN t
  BY <1>1
<1>3. ASSUME NEW i \in DOMAIN t
      PROVE  /\ f[i] \in Spaceable /\ f[i].ch = t[i].ch /\ f[i].gap = Spaced(t)[i].gap
             /\ f[i] = [t[i] EXCEPT !.gap = Spaced(t)[i].gap]
  <2>1. t[i] \in Spaceable /\ Spaced(t)[i].gap \in BOOLEAN
    <3>1. t[i] \in Spaceable /\ Spaced(t)[i] \in Spaceable
      BY PassesAt DEF Texts
    <3> QED
      BY <3>1 DEF Spaceable
  <2>2. f[i] = [t[i] EXCEPT !.gap = Spaced(t)[i].gap]
    BY <1>1
  <2> QED
    BY <2>1, <2>2, Regapped
<1>4. f \in Texts
  <2>1. DOMAIN f = 1 .. Len(t) /\ Len(t) \in Nat
    BY <1>2 DEF Texts
  <2>2. f \in [1 .. Len(t) -> Spaceable]
    BY <1>1, <1>2, <1>3, <2>1
  <2> QED
    BY <2>1, <2>2 DEF Texts
<1> QED
  BY <1>2, <1>3, <1>4 DEF f

LEMMA Positions ==
    ASSUME NEW t \in Texts
    PROVE  /\ DOMAIN t = 1 .. Len(t) /\ Len(t) \in Nat
           /\ \A i \in DOMAIN t : Spaced(t)[i].gap => i > 1
           /\ \A i \in DOMAIN t : Unspaced(t)[i].gap => i > 1
           /\ \A i \in DOMAIN t :
                Class(t, i) = IF Spacing!InAddress(t, i) THEN "url" ELSE t[i].ch
<1>1. DOMAIN t = 1 .. Len(t) /\ Len(t) \in Nat
  BY DEF Texts
<1>2. ASSUME NEW i \in DOMAIN t
      PROVE  /\ Spaced(t)[i].gap => i > 1
             /\ Unspaced(t)[i].gap => i > 1
  BY PassesAt
<1>3. \A i \in DOMAIN t :
        Class(t, i) = IF Spacing!InAddress(t, i) THEN "url" ELSE t[i].ch
  BY ParsedAt DEF Class
<1> QED
  BY <1>1, <1>2, <1>3

\* The passes take an address for one word and put no gap into it.
LEMMA AddressKept ==
    ASSUME NEW t \in Texts, NEW i \in DOMAIN t, Spacing!InAddress(t, i)
    PROVE  Spacing!InAddress(Spacing!Finalized(t), i)
<1> DEFINE f == Spacing!Finalized(t)
<1>1. PICK j \in 1 .. i : /\ t[j].ch = "url"
                          /\ \A k \in j + 1 .. i : ~t[k].gap /\ t[k].ch # "fw"
  BY DEF Spacing!InAddress
<1>2. ASSUME NEW k \in j + 1 .. i
      PROVE  ~f[k].gap /\ f[k].ch # "fw"
  <2>1. k \in DOMAIN t /\ k > 1 /\ k - 1 \in DOMAIN t
    BY <1>2, Positions
  <2>2. ASSUME NEW l \in {k - 1, k}
        PROVE  Spacing!InAddress(t, l)
    <3>1. j \in 1 .. l /\ j + 1 .. l \subseteq j + 1 .. i
      BY <1>1, <1>2, <2>1, Positions
    <3> QED
      BY <1>1, <3>1 DEF Spacing!InAddress
  <2>3. Spacing!InAddress(t, k) /\ Spacing!InAddress(t, k - 1)
    BY <2>2
  <2>4. Class(t, k) = "url" /\ Class(t, k - 1) = "url" /\ ~t[k].gap
    BY <1>1, <1>2, <2>1, <2>3, Positions
  <2>5. ~Spaced(t)[k].gap
    BY <2>1, <2>4, Gaps
    DEF Spacing!Letters, Spacing!Digits, Spacing!Alnum
  <2> QED
    BY <1>1, <1>2, <2>1, <2>5, FinalizedAt
<1>3. j \in DOMAIN t
  BY Positions
<1>4. f[j].ch = "url"
  BY <1>1, <1>3, FinalizedAt
<1> HIDE DEF f
<1> QED
  BY <1>2, <1>4 DEF f, Spacing!InAddress

\* An address begins at its first character and goes on to white space or a
\* full-width mark.
LEMMA Addresses ==
    ASSUME NEW t \in Texts, NEW i \in DOMAIN t
    PROVE  /\ Class(t, i) = "url" <=> Spacing!InAddress(t, i)
           /\ t[i].ch = "url" => Spacing!InAddress(t, i)
           /\ i > 1 => /\ Spacing!InAddress(t, i - 1) /\ ~t[i].gap /\ t[i].ch # "fw" =>
                            Spacing!InAddress(t, i)
                       /\ Spacing!InAddress(t, i) =>
                            t[i].ch = "url" \/ Spacing!InAddress(t, i - 1)
<1>1. i \in Nat /\ i >= 1
  BY Positions
<1>2. t[i].ch = "url" => Spacing!InAddress(t, i)
  BY <1>1 DEF Spacing!InAddress
<1>3. ASSUME i > 1, Spacing!InAddress(t, i - 1), ~t[i].gap, t[i].ch # "fw"
      PROVE  Spacing!InAddress(t, i)
  <2>1. PICK j \in 1 .. i - 1 : /\ t[j].ch = "url"
                                /\ \A k \in j + 1 .. i - 1 : ~t[k].gap /\ t[k].ch # "fw"
    BY <1>3 DEF Spacing!InAddress
  <2>2. j \in 1 .. i /\ \A k \in j + 1 .. i : k \in j + 1 .. i - 1 \/ k = i
    BY <1>1
  <2> QED
    BY <1>3, <2>1, <2>2 DEF Spacing!InAddress
<1>4. ASSUME i > 1, Spacing!InAddress(t, i), t[i].ch # "url"
      PROVE  Spacing!InAddress(t, i - 1)
  <2>1. PICK j \in 1 .. i : /\ t[j].ch = "url"
                            /\ \A k \in j + 1 .. i : ~t[k].gap /\ t[k].ch # "fw"
    BY <1>4 DEF Spacing!InAddress
  <2>2. j \in 1 .. i - 1 /\ \A k \in j + 1 .. i - 1 : k \in j + 1 .. i
    BY <1>1, <1>4, <2>1
  <2> QED
    BY <2>1, <2>2 DEF Spacing!InAddress
<1> QED
  BY <1>2, <1>3, <1>4, Positions

\* Where the passes leave no gap.
LEMMA Tight ==
    ASSUME NEW t \in Texts, NEW i \in DOMAIN t, Spaced(t)[i].gap
    PROVE  /\ i > 1 /\ i - 1 \in DOMAIN t
           /\ ~(Class(t, i - 1) = "han" /\ Class(t, i) = "han")
           /\ Class(t, i - 1) # "fw" /\ Class(t, i) # "fw"
           /\ Class(t, i) \notin Spacing!AsciiMarks
<1>1. i > 1 /\ i - 1 \in DOMAIN t
  BY Positions, Gaps
<1>2. Word(t, i - 1) => Class(t, i - 1) \in Spacing!Alnum
  BY <1>1, Positions DEF Word, Spacing!Alnum
<1> QED
  BY <1>1, <1>2, Gaps
  DEF Spacing!Alnum, Spacing!Letters, Spacing!Digits, Spacing!AsciiMarks

\* A character that is in no address the second time was in none the first
\* time: an address can only have grown.
LEMMA ClassKept ==
    ASSUME NEW t \in Texts, NEW i \in DOMAIN t
    PROVE  LET f == Spacing!Finalized(t)
           IN  /\ Class(f, i) \in {Class(t, i), "url"}
               /\ Class(t, i) = "url" => Class(f, i) = "url"
<1> DEFINE f == Spacing!Finalized(t)
<1>1. f \in Texts /\ i \in DOMAIN f /\ f[i].ch = t[i].ch
  BY FinalizedAt
<1>2. Class(f, i) = IF Spacing!InAddress(f, i) THEN "url" ELSE t[i].ch
  BY <1>1, Positions
<1>3. Class(t, i) = IF Spacing!InAddress(t, i) THEN "url" ELSE t[i].ch
  BY Positions
<1>4. Spacing!InAddress(t, i) => Spacing!InAddress(f, i)
  BY AddressKept
<1>5. t[i].ch = "url" => Class(f, i) = "url"
  BY <1>2
<1> HIDE DEF f
<1> QED
  BY <1>2, <1>3, <1>4, <1>5 DEF f

\* No gap that is left is one that the first pass would remove.
LEMMA GapsStay ==
    ASSUME NEW t \in Texts, NEW i \in DOMAIN t, Spaced(t)[i].gap
    PROVE  Unspaced(Spacing!Finalized(t))[i].gap
<1> DEFINE f == Spacing!Finalized(t)
<1>1. f \in Texts /\ i \in DOMAIN f
  BY FinalizedAt
<1>0. f[i].gap /\ i > 1 /\ i - 1 \in DOMAIN t
  <2>1. f[i].gap = Spaced(t)[i].gap
    BY FinalizedAt
  <2> QED
    BY <2>1, Tight
<1>2. /\ Class(f, i) \in {Class(t, i), "url"}
      /\ Class(f, i - 1) \in {Class(t, i - 1), "url"}
  BY <1>0, ClassKept
<1>3. /\ ~(Class(t, i - 1) = "han" /\ Class(t, i) = "han")
      /\ Class(t, i - 1) # "fw" /\ Class(t, i) # "fw"
      /\ Class(t, i) \notin Spacing!AsciiMarks
  BY Tight
<1> HIDE DEF f
<1>4. /\ ~(Class(f, i - 1) = "han" /\ Class(f, i) = "han")
      /\ Class(f, i - 1) # "fw" /\ Class(f, i) # "fw"
      /\ Class(f, i) \notin Spacing!AsciiMarks
  BY <1>2, <1>3 DEF Spacing!AsciiMarks
<1>5. Unspaced(f)[i].gap
  BY <1>0, <1>1, <1>4, Gaps
<1> QED
  BY <1>5 DEF f

\* A word the second time was a word the first time.
LEMMA WordsKept ==
    ASSUME NEW t \in Texts, NEW k \in DOMAIN t, Word(Spacing!Finalized(t), k)
    PROVE  Word(t, k)
<1> DEFINE f == Spacing!Finalized(t)
<1>1. f \in Texts /\ DOMAIN f = DOMAIN t
  BY FinalizedAt
<1>2. PICK j \in 1 .. k :
        /\ Class(f, j) \in Spacing!Letters
        /\ \A m \in j + 1 .. k : Class(f, m) \in Spacing!Alnum /\ ~Parted(f)[m].gap
  BY DEF Word
<1>3. j \in DOMAIN t /\ \A m \in j + 1 .. k : m \in DOMAIN t /\ m > 1
  BY Positions
<1>4. Class(t, j) \in Spacing!Letters
  BY <1>2, <1>3, ClassKept DEF Spacing!Letters
<1>5. ASSUME NEW m \in j + 1 .. k
      PROVE  Class(t, m) \in Spacing!Alnum /\ ~Parted(t)[m].gap
  <2>1. Class(t, m) \in Spacing!Alnum
    BY <1>2, <1>3, <1>5, ClassKept DEF Spacing!Alnum, Spacing!Letters, Spacing!Digits
  <2>2. Parted(t)[m].gap => Spaced(t)[m].gap
    BY <1>3, <1>5, Gaps
  <2>3. Spaced(t)[m].gap => Unspaced(f)[m].gap
    BY <1>3, <1>5, GapsStay
  <2>4. Unspaced(f)[m].gap => Parted(f)[m].gap
    BY <1>1, <1>3, <1>5, Gaps
  <2> QED
    BY <1>2, <1>5, <2>1, <2>2, <2>3, <2>4
<1> QED
  BY <1>4, <1>5 DEF Word

\* No gap is put where the passes have left none.
LEMMA NoneAdded ==
    ASSUME NEW t \in Texts, NEW i \in DOMAIN t, ~Spaced(t)[i].gap
    PROVE  ~Spaced(Spacing!Finalized(t))[i].gap
<1> DEFINE f == Spacing!Finalized(t)
<1>1. f \in Texts /\ DOMAIN f = DOMAIN t /\ ~f[i].gap
  BY FinalizedAt
<1> SUFFICES ASSUME i > 1
             PROVE  ~Spaced(f)[i].gap
  BY <1>1, Positions
<1>2. i - 1 \in DOMAIN t /\ (i > 2 => i - 2 \in DOMAIN t /\ (i - 1) - 1 = i - 2 /\ i - 1 > 1)
  BY Positions
<1>3. /\ Class(f, i) \in {Class(t, i), "url"}
      /\ Class(f, i - 1) \in {Class(t, i - 1), "url"}
      /\ Class(t, i) = "url" => Class(f, i) = "url"
  BY <1>2, ClassKept
<1>4. ~Unspaced(f)[i].gap
  BY <1>1, Gaps
<1>5. ~Parted(t)[i].gap
  BY Gaps
\* a comma is never taken into an address that has left out the digit before it
<1>6. i > 2 /\ Class(f, i - 1) = "," /\ Class(t, i - 2) \in Spacing!Digits =>
        Class(f, i - 2) \in Spacing!Digits
  <2> SUFFICES ASSUME i > 2, Class(f, i - 1) = ",", Class(t, i - 2) \in Spacing!Digits
               PROVE  Class(f, i - 2) \in Spacing!Digits
    OBVIOUS
  <2>1. Class(t, i - 1) = "," /\ f[i - 1].ch = ","
    BY <1>1, <1>2, <1>3, Positions
  <2>2. ~f[i - 1].gap
    <3>1. ~Spaced(t)[i - 1].gap
      BY <1>2, <2>1, Tight DEF Spacing!AsciiMarks
    <3> QED
      BY <1>2, <3>1, FinalizedAt
  <2>3. ~Spacing!InAddress(f, i - 1)
    BY <1>1, <1>2, Addresses
  <2>4. ~Spacing!InAddress(f, i - 2)
    BY <1>1, <1>2, <2>1, <2>2, <2>3, Addresses
  <2>5. Class(f, i - 2) # "url"
    BY <1>1, <1>2, <2>4, Addresses
  <2> QED
    BY <1>2, <2>5, ClassKept
<1>7. ~Parted(f)[i].gap
  BY <1>1, <1>3, <1>4, <1>5, <1>6, Gaps
  DEF Spacing!Alnum, Spacing!Letters, Spacing!Digits
\* an address begins at its first character
<1>8. Class(f, i) = "url" /\ Class(f, i - 1) # "url" => Class(t, i) = "url"
  <2> SUFFICES ASSUME Class(f, i) = "url", Class(f, i - 1) # "url"
               PROVE  Class(t, i) = "url"
    OBVIOUS
  <2>1. f[i].ch = "url"
    BY <1>1, <1>2, Addresses
  <2>2. t[i].ch = "url"
    BY <2>1, FinalizedAt
  <2> QED
    BY <2>2, Addresses
<1>9. Word(f, i - 1) => Word(t, i - 1)
  BY <1>2, WordsKept
<1>10. ~Spaced(t)[i].gap
  OBVIOUS
<1> HIDE DEF f
<1> QED
  BY <1>1, <1>3, <1>7, <1>8, <1>9, <1>10, Gaps
  DEF Spacing!Letters

\* A text that was spaced stays as it is.
LEMMA SpacedOnce ==
    ASSUME NEW t \in Texts
    PROVE  Spacing!Finalized(Spacing!Finalized(t)) = Spacing!Finalized(t)
<1> DEFINE f == Spacing!Finalized(t)
           g == Spacing!Finalized(f)
<1>1. f \in Texts /\ DOMAIN f = DOMAIN t /\ DOMAIN g = DOMAIN f
  BY FinalizedAt
<1>2. ASSUME NEW i \in DOMAIN t
      PROVE  g[i] = f[i]
  <2>1. f[i] \in Spaceable /\ f[i].gap = Spaced(t)[i].gap
    <3>1. f[i].gap = Spaced(t)[i].gap
      BY FinalizedAt
    <3> HIDE DEF f
    <3> QED
      BY <1>1, <3>1 DEF Texts
  <2>2. Spaced(t)[i].gap => Spaced(f)[i].gap
    <3>1. Spaced(t)[i].gap => Unspaced(f)[i].gap /\ i > 1
      BY GapsStay, Positions
    <3>2. i > 1 /\ Unspaced(f)[i].gap => Spaced(f)[i].gap
      BY <1>1, Gaps
    <3> QED
      BY <3>1, <3>2
  <2>3. Spaced(t)[i].gap <=> Spaced(f)[i].gap
    BY <2>2, NoneAdded
  <2>4. Spaced(t)[i].gap \in BOOLEAN /\ Spaced(f)[i].gap \in BOOLEAN
    BY <1>1, PassesAt DEF Spaceable
  <2>5. f[i].gap = Spaced(f)[i].gap
    BY <2>1, <2>3, <2>4
  <2>6. g[i] = [f[i] EXCEPT !.gap = Spaced(f)[i].gap]
    BY <1>1, FinalizedAt
  <2> HIDE DEF f, g
  <2> QED
    BY <2>1, <2>5, <2>6 DEF Spaceable
<1>3. g = [i \in DOMAIN g |-> g[i]] /\ f = [i \in DOMAIN f |-> f[i]]
  <2>1. g \in Texts
    BY <1>1, FinalizedAt
  <2> QED
    BY <1>1, <2>1 DEF Texts
<1> HIDE DEF f, g
<1>4. g = f
  BY <1>1, <1>2, <1>3
<1> QED
  BY <1>4 DEF f, g

(***************************************************************************)
(* Induction over the length of a text                                     *)
(***************************************************************************)
LEMMA Counting ==
    ASSUME NEW S, 0 \in S, \A n \in Nat : n \in S => n + 1 \in S
    PROVE  Nat \subseteq S
<1> DEFINE R == {p \in Nat \X Nat : p[1] < p[2]}
           T == Nat \ S
<1>1. R = OpToRel(<, Nat)
  BY DEF OpToRel
<1>2. IsWellFoundedOn(R, Nat)
  BY <1>1, NatLessThanWellFounded
<1>3. ASSUME T # {}
      PROVE  FALSE
  <2>1. PICK x \in T : \A y \in T : <<y, x>> \notin R
    <3> HIDE DEF R
    <3>1. T \subseteq Nat
      OBVIOUS
    <3> HIDE DEF T
    <3> QED
      BY <1>2, <1>3, <3>1, WFMin
  <2>2. x \in Nat /\ x # 0 /\ x - 1 \in Nat /\ x - 1 \notin S
    <3>1. x \in Nat /\ x # 0
      OBVIOUS
    <3>2. x - 1 \in Nat /\ (x - 1) + 1 = x
      BY <3>1
    <3>3. x - 1 \notin S
      BY <3>1, <3>2
    <3> QED
      BY <3>1, <3>2, <3>3
  <2>3. x - 1 \in T /\ <<x - 1, x>> \in R
    BY <2>2
  <2> HIDE DEF R, T
  <2> QED
    BY <2>1, <2>3
<1> QED
  BY <1>3

(***************************************************************************)
(* The places that _preserves_content() takes, character by character      *)
(***************************************************************************)
Taken(o, r, q, i) ==
    IF Punctuation!Fits(o, r, Len(q), i) THEN Append(q, i) ELSE q

IsPlaces(o, r, n, p) ==
    p = [i \in 0 .. n |-> IF i = 0 THEN <<>> ELSE Taken(o, r, p[i - 1], i)]

Chosen(o, r) == CHOOSE p : IsPlaces(o, r, Len(r), p)

LEMMA MatchedIs == \A o, r : Punctuation!Matched(o, r) = Chosen(o, r)[Len(r)]
BY DEF Punctuation!Matched, Chosen, IsPlaces, Taken

LEMMA PlacesExist ==
    ASSUME NEW o, NEW r, NEW n \in Nat
    PROVE  \E p : IsPlaces(o, r, n, p)
<1> DEFINE S == {m \in Nat : \E p : IsPlaces(o, r, m, p)}
<1>1. 0 \in S
  <2>1. IsPlaces(o, r, 0, [i \in 0 .. 0 |-> <<>>])
    BY DEF IsPlaces
  <2> QED
    BY <2>1
<1>2. ASSUME NEW m \in Nat, m \in S
      PROVE  m + 1 \in S
  <2>1. PICK p : IsPlaces(o, r, m, p)
    BY <1>2
  <2> DEFINE x == Taken(o, r, p[m], m + 1)
             q == [i \in 0 .. m + 1 |-> IF i = m + 1 THEN x ELSE p[i]]
  <2>2. \A i \in 0 .. m : p[i] = IF i = 0 THEN <<>> ELSE Taken(o, r, p[i - 1], i)
    BY <2>1 DEF IsPlaces
  <2>3. ASSUME NEW i \in 0 .. m + 1
        PROVE  q[i] = IF i = 0 THEN <<>> ELSE Taken(o, r, q[i - 1], i)
    <3>1. CASE i = m + 1
      <4>1. i # 0 /\ i - 1 = m /\ q[m] = p[m] /\ q[i] = x
        BY <1>2, <3>1
      <4> QED
        BY <3>1, <4>1
    <3>2. CASE i # m + 1
      <4>1. i \in 0 .. m /\ q[i] = p[i]
        BY <1>2, <3>2
      <4>2. i # 0 => q[i - 1] = p[i - 1]
        BY <1>2, <3>2
      <4> HIDE DEF q
      <4> QED
        BY <2>2, <4>1, <4>2
    <3> QED
      BY <3>1, <3>2
  <2>4. q = [i \in 0 .. m + 1 |-> q[i]]
    OBVIOUS
  <2> HIDE DEF q
  <2>5. IsPlaces(o, r, m + 1, q)
    BY <2>3, <2>4 DEF IsPlaces
  <2> QED
    BY <1>2, <2>5
<1> HIDE DEF S
<1>3. Nat \subseteq S
  BY <1>1, <1>2, Counting
<1> QED
  BY <1>3 DEF S

At(o, r, n) == Chosen(o, r)[n]

LEMMA GreedyStep ==
    ASSUME NEW o, NEW r, Len(r) \in Nat
    PROVE  /\ At(o, r, 0) = <<>>
           /\ \A n \in 0 .. Len(r) : n + 1 <= Len(r) =>
                At(o, r, n + 1) = Taken(o, r, At(o, r, n), n + 1)
<1> DEFINE p == Chosen(o, r)
<1>1. IsPlaces(o, r, Len(r), p)
  <2>1. \E z : IsPlaces(o, r, Len(r), z)
    BY PlacesExist
  <2> QED
    BY <2>1 DEF Chosen
<1> HIDE DEF p
<1>2. \A i \in 0 .. Len(r) : p[i] = IF i = 0 THEN <<>> ELSE Taken(o, r, p[i - 1], i)
  BY <1>1 DEF IsPlaces
<1>3. p[0] = <<>>
  BY <1>2
<1>4. ASSUME NEW n \in 0 .. Len(r), n + 1 <= Len(r)
      PROVE  p[n + 1] = Taken(o, r, p[n], n + 1)
  <2>1. n + 1 \in 0 .. Len(r) /\ n + 1 # 0 /\ (n + 1) - 1 = n
    BY <1>4
  <2> QED
    BY <1>2, <2>1
<1> QED
  BY <1>3, <1>4 DEF p, At

\* The places after n characters of the result.
Fitted(o, r, n, q) ==
    /\ q \in Seq(Nat) /\ Len(q) <= Len(o)
    /\ \A k \in 1 .. Len(q) : q[k] \in 1 .. n /\ r[q[k]].ch = o[k].ch
    /\ \A j, k \in 1 .. Len(q) : j < k => q[j] < q[k]

LEMMA AppendNat ==
    ASSUME NEW q \in Seq(Nat), NEW x \in Nat
    PROVE  /\ Append(q, x) \in Seq(Nat) /\ Len(Append(q, x)) = Len(q) + 1 /\ Len(q) \in Nat
           /\ Append(q, x)[Len(q) + 1] = x
           /\ \A k \in 1 .. Len(q) : Append(q, x)[k] = q[k] /\ q[k] \in Nat
OBVIOUS

LEMMA TakenFits ==
    ASSUME NEW o \in Texts, NEW r \in Texts, NEW n \in Nat, NEW q, Fitted(o, r, n, q)
    PROVE  /\ Fitted(o, r, n + 1, Taken(o, r, q, n + 1))
           /\ Len(q) <= Len(Taken(o, r, q, n + 1))
           /\ \A k \in 1 .. Len(q) : Taken(o, r, q, n + 1)[k] = q[k]
<1>1. q \in Seq(Nat) /\ Len(q) \in Nat /\ Len(o) \in Nat /\ Len(q) <= Len(o)
  BY DEF Fitted, Texts
<1>2. CASE ~Punctuation!Fits(o, r, Len(q), n + 1)
  <2>1. Taken(o, r, q, n + 1) = q
    BY <1>2 DEF Taken
  <2>2. \A k \in 1 .. Len(q) : q[k] \in 1 .. n + 1
    BY <1>1 DEF Fitted
  <2> QED
    BY <1>1, <2>1, <2>2 DEF Fitted
<1>3. CASE Punctuation!Fits(o, r, Len(q), n + 1)
  <2> DEFINE w == Append(q, n + 1)
  <2>1. Taken(o, r, q, n + 1) = w
    BY <1>3 DEF Taken
  <2>2. /\ w \in Seq(Nat) /\ Len(w) = Len(q) + 1 /\ w[Len(q) + 1] = n + 1
        /\ \A k \in 1 .. Len(q) : w[k] = q[k] /\ q[k] \in Nat
    BY <1>1, AppendNat
  <2> HIDE DEF w
  <2>3. Len(q) < Len(o) /\ r[n + 1].ch = o[Len(q) + 1].ch
    BY <1>3 DEF Punctuation!Fits
  <2>4. \A k \in 1 .. Len(w) : k \in 1 .. Len(q) \/ k = Len(q) + 1
    BY <1>1, <2>2
  <2>5. \A k \in 1 .. Len(w) : w[k] \in 1 .. n + 1 /\ r[w[k]].ch = o[k].ch
    <3> SUFFICES ASSUME NEW k \in 1 .. Len(w)
                 PROVE  w[k] \in 1 .. n + 1 /\ r[w[k]].ch = o[k].ch
      OBVIOUS
    <3>1. CASE k \in 1 .. Len(q)
      <4>1. w[k] = q[k] /\ q[k] \in 1 .. n /\ r[q[k]].ch = o[k].ch
        BY <2>2, <3>1 DEF Fitted
      <4> QED
        BY <4>1
    <3>2. CASE k = Len(q) + 1
      BY <2>2, <2>3, <3>2
    <3> QED
      BY <2>4, <3>1, <3>2
  <2>6. ASSUME NEW j \in 1 .. Len(w), NEW k \in 1 .. Len(w), j < k
        PROVE  w[j] < w[k]
    <3>1. j \in 1 .. Len(q) /\ w[j] = q[j] /\ q[j] \in 1 .. n
      BY <1>1, <2>2, <2>4, <2>6, SMTT(40) DEF Fitted
    <3>2. CASE k \in 1 .. Len(q)
      BY <2>2, <2>6, <3>1, <3>2 DEF Fitted
    <3>3. CASE k = Len(q) + 1
      BY <2>2, <3>1, <3>3
    <3> QED
      BY <2>4, <3>2, <3>3
  <2>7. Fitted(o, r, n + 1, w)
    BY <1>1, <2>2, <2>3, <2>5, <2>6 DEF Fitted
  <2> QED
    BY <1>1, <2>1, <2>2, <2>7
<1> QED
  BY <1>2, <1>3

LEMMA GreedyFits ==
    ASSUME NEW o \in Texts, NEW r \in Texts, NEW n \in 0 .. Len(r)
    PROVE  Fitted(o, r, n, At(o, r, n))
<1> DEFINE S == {m \in Nat : m <= Len(r) => Fitted(o, r, m, At(o, r, m))}
<1>0. Len(r) \in Nat /\ Len(o) \in Nat
  BY DEF Texts
<1>1. 0 \in S
  <2>1. Fitted(o, r, 0, <<>>)
    BY <1>0 DEF Fitted
  <2> QED
    BY <1>0, <2>1, GreedyStep
<1>2. ASSUME NEW m \in Nat, m \in S
      PROVE  m + 1 \in S
  <2> SUFFICES ASSUME m + 1 <= Len(r)
               PROVE  Fitted(o, r, m + 1, At(o, r, m + 1))
    OBVIOUS
  <2>1. m \in 0 .. Len(r) /\ Fitted(o, r, m, At(o, r, m))
    BY <1>0, <1>2
  <2>2. At(o, r, m + 1) = Taken(o, r, At(o, r, m), m + 1)
    BY <1>0, <2>1, GreedyStep
  <2> QED
    BY <2>1, <2>2, TakenFits
<1> HIDE DEF S
<1>3. Nat \subseteq S
  BY <1>1, <1>2, Counting
<1> QED
  BY <1>0, <1>3 DEF S

\* Places once taken stay.
LEMMA GreedyGrows ==
    ASSUME NEW o \in Texts, NEW r \in Texts, NEW n \in 0 .. Len(r), NEW l \in n .. Len(r)
    PROVE  /\ Len(At(o, r, n)) <= Len(At(o, r, l))
           /\ \A k \in 1 .. Len(At(o, r, n)) : At(o, r, l)[k] = At(o, r, n)[k]
<1> DEFINE Kept(m) == /\ Len(At(o, r, n)) <= Len(At(o, r, m))
                      /\ \A k \in 1 .. Len(At(o, r, n)) : At(o, r, m)[k] = At(o, r, n)[k]
           S == {d \in Nat : n + d <= Len(r) => Kept(n + d)}
<1>0. Len(r) \in Nat
  BY DEF Texts
<1>a. \A m \in 0 .. Len(r) : Len(At(o, r, m)) \in Nat
  BY GreedyFits DEF Fitted
<1>1. 0 \in S
  <2>1. n + 0 = n /\ Kept(n)
    BY <1>a
  <2> QED
    BY <2>1
<1>2. ASSUME NEW d \in Nat, d \in S
      PROVE  d + 1 \in S
  <2> SUFFICES ASSUME n + (d + 1) <= Len(r)
               PROVE  Kept(n + (d + 1))
    OBVIOUS
  <2> DEFINE m == n + d
  <2>1. m \in 0 .. Len(r) /\ Kept(m) /\ n + (d + 1) = m + 1 /\ m + 1 \in 0 .. Len(r)
    BY <1>0, <1>2
  <2>2. At(o, r, m + 1) = Taken(o, r, At(o, r, m), m + 1)
    BY <1>0, <2>1, GreedyStep
  <2>3. Fitted(o, r, m, At(o, r, m))
    BY <2>1, GreedyFits
  <2>4. /\ Len(At(o, r, m)) <= Len(At(o, r, m + 1))
        /\ \A k \in 1 .. Len(At(o, r, m)) : At(o, r, m + 1)[k] = At(o, r, m)[k]
    BY <2>1, <2>2, <2>3, TakenFits, SMTT(40)
  <2> HIDE DEF m
  <2>5. /\ Len(At(o, r, m)) \in Nat /\ Len(At(o, r, m + 1)) \in Nat
        /\ Len(At(o, r, n)) \in Nat
    BY <1>a, <2>1
  <2>6. Kept(m + 1)
    BY <2>1, <2>4, <2>5
  <2> QED
    BY <2>1, <2>6
<1> HIDE DEF S
<1>3. Nat \subseteq S
  BY <1>1, <1>2, Counting
<1>4. l - n \in Nat /\ n + (l - n) = l
  BY <1>0
<1>5. Kept(n + (l - n))
  BY <1>0, <1>3, <1>4 DEF S
<1> QED
  BY <1>4, <1>5

\* The first place that fits is never later than another choice.
LEMMA GreedyAhead ==
    ASSUME NEW o \in Texts, NEW r \in Texts, NEW f \in Punctuation!Places(o, r)
    PROVE  \A n \in 0 .. Len(r) : \A k \in 1 .. Len(o) : f[k] <= n => k <= Len(At(o, r, n))
<1> DEFINE Ahead(n) == \A k \in 1 .. Len(o) : f[k] <= n => k <= Len(At(o, r, n))
           S == {n \in Nat : n <= Len(r) => Ahead(n)}
<1>0. /\ Len(r) \in Nat /\ Len(o) \in Nat
      /\ \A k \in 1 .. Len(o) : f[k] \in 1 .. Len(r) /\ r[f[k]].ch = o[k].ch
      /\ \A j, k \in 1 .. Len(o) : j < k => f[j] < f[k]
  <2>1. /\ DOMAIN o = 1 .. Len(o) /\ DOMAIN r = 1 .. Len(r)
        /\ Len(r) \in Nat /\ Len(o) \in Nat
    BY DEF Texts
  <2> QED
    BY <2>1 DEF Punctuation!Places
<1>1. 0 \in S
  BY <1>0
<1>2. ASSUME NEW n \in Nat, n \in S
      PROVE  n + 1 \in S
  <2> SUFFICES ASSUME n + 1 <= Len(r), NEW k \in 1 .. Len(o), f[k] <= n + 1
               PROVE  k <= Len(At(o, r, n + 1))
    OBVIOUS
  <2>1. n \in 0 .. Len(r) /\ n + 1 \in 0 .. Len(r) /\ Ahead(n)
    BY <1>0, <1>2
  <2> DEFINE q == At(o, r, n)
  <2>2. Fitted(o, r, n, q) /\ Fitted(o, r, n + 1, At(o, r, n + 1))
    BY <2>1, GreedyFits
  <2>3. At(o, r, n + 1) = Taken(o, r, q, n + 1)
    BY <1>0, <2>1, GreedyStep
  <2> HIDE DEF q
  <2>4. Len(q) <= Len(At(o, r, n + 1)) /\ Len(q) \in Nat /\ Len(At(o, r, n + 1)) \in Nat
    <3>1. Len(q) <= Len(Taken(o, r, q, n + 1))
      BY <2>2, TakenFits
    <3>2. Len(q) \in Nat /\ Len(At(o, r, n + 1)) \in Nat
      BY <2>2 DEF Fitted
    <3> QED
      BY <2>3, <3>1, <3>2
  <2>5. CASE k <= Len(q)
    BY <2>4, <2>5
  <2>6. CASE k > Len(q)
    <3>1. f[k] = n + 1
      <4>1. ~(f[k] <= n)
        BY <2>1, <2>6, <2>4 DEF q
      <4> QED
        BY <1>0, <4>1
    <3>2. k = Len(q) + 1
      <4>1. CASE k = 1
        BY <2>4, <2>6, <4>1
      <4>2. CASE k # 1
        <5>1. k - 1 \in 1 .. Len(o) /\ k - 1 < k
          BY <1>0, <4>2
        <5>2. f[k - 1] < f[k] /\ f[k - 1] \in Nat
          BY <1>0, <5>1
        <5>3. f[k - 1] <= n
          BY <3>1, <5>2
        <5>4. k - 1 <= Len(q)
          BY <2>1, <5>1, <5>3 DEF q
        <5> QED
          BY <2>4, <2>6, <5>4
      <4> QED
        BY <4>1, <4>2
    <3>3. Punctuation!Fits(o, r, Len(q), n + 1)
      <4>1. r[n + 1].ch = o[Len(q) + 1].ch
        BY <1>0, <3>1, <3>2
      <4>2. Len(q) < Len(o)
        BY <1>0, <2>4, <3>2
      <4> QED
        BY <4>1, <4>2 DEF Punctuation!Fits
    <3>4. At(o, r, n + 1) = Append(q, n + 1)
      BY <2>3, <3>3 DEF Taken
    <3>5. Len(Append(q, n + 1)) = Len(q) + 1
      BY <2>2, AppendNat DEF Fitted
    <3> QED
      BY <3>2, <3>4, <3>5, <2>4
  <2> QED
    BY <2>4, <2>5, <2>6
<1> HIDE DEF S
<1>3. Nat \subseteq S
  BY <1>1, <1>2, Counting
<1> QED
  BY <1>0, <1>3 DEF S

\* What _preserves_content() takes, compared with another choice of the places.
LEMMA GreedyPlaces ==
    ASSUME NEW o \in Texts, NEW r \in Texts
    PROVE  LET g == Punctuation!Matched(o, r)
           IN  /\ g \in Seq(Nat)
               /\ Len(g) = Len(o) => g \in Punctuation!Places(o, r)
               /\ \A f \in Punctuation!Places(o, r) :
                    Len(g) = Len(o) /\ \A k \in 1 .. Len(o) : g[k] <= f[k]
<1> DEFINE g == Punctuation!Matched(o, r)
<1>1. /\ g = At(o, r, Len(r)) /\ Len(r) \in 0 .. Len(r) /\ Len(r) \in Nat /\ Len(o) \in Nat
      /\ DOMAIN o = 1 .. Len(o) /\ DOMAIN r = 1 .. Len(r)
  BY MatchedIs DEF At, Texts
<1>2. Fitted(o, r, Len(r), g)
  BY <1>1, GreedyFits
<1> HIDE DEF g
<1>3. g \in Seq(Nat)
  BY <1>2 DEF Fitted
<1>4. ASSUME Len(g) = Len(o)
      PROVE  g \in Punctuation!Places(o, r)
  <2>1. g \in [DOMAIN o -> DOMAIN r]
    BY <1>1, <1>2, <1>3, <1>4 DEF Fitted
  <2> QED
    BY <1>1, <1>2, <1>4, <2>1 DEF Fitted, Punctuation!Places
<1>5. ASSUME NEW f \in Punctuation!Places(o, r)
      PROVE  Len(g) = Len(o) /\ \A k \in 1 .. Len(o) : g[k] <= f[k]
  <2>1. \A k \in 1 .. Len(o) : f[k] \in 1 .. Len(r)
    BY <1>1 DEF Punctuation!Places
  <2>2. \A n \in 0 .. Len(r) : \A k \in 1 .. Len(o) : f[k] <= n => k <= Len(At(o, r, n))
    BY GreedyAhead
  <2>3. Len(g) = Len(o)
    <3>1. Len(g) \in Nat /\ Len(g) <= Len(o)
      BY <1>2 DEF Fitted
    <3>2. Len(o) # 0 => Len(o) <= Len(g)
      BY <1>1, <2>1, <2>2
    <3> QED
      BY <1>1, <3>1, <3>2
  <2>4. ASSUME NEW k \in 1 .. Len(o)
        PROVE  g[k] <= f[k]
    <3>1. f[k] \in 0 .. Len(r) /\ Len(r) \in f[k] .. Len(r) /\ f[k] <= f[k]
      BY <1>1, <2>1
    <3>2. k \in 1 .. Len(At(o, r, f[k])) /\ Fitted(o, r, f[k], At(o, r, f[k]))
      <4>1. k <= Len(At(o, r, f[k]))
        BY <2>2, <3>1
      <4>2. Fitted(o, r, f[k], At(o, r, f[k]))
        BY <3>1, GreedyFits
      <4> QED
        BY <4>1, <4>2 DEF Fitted
    <3>3. g[k] = At(o, r, f[k])[k]
      BY <1>1, <3>1, <3>2, GreedyGrows
    <3>4. At(o, r, f[k])[k] \in 1 .. f[k]
      BY <3>2 DEF Fitted
    <3> QED
      BY <3>1, <3>3, <3>4
  <2> QED
    BY <2>3, <2>4
<1> QED
  BY <1>3, <1>4, <1>5 DEF g

MarksAdded(o, r, f) ==
    \A i \in DOMAIN r : (\A k \in DOMAIN o : f[k] # i) => r[i].ch \in Punctuation!Marks

LEMMA PlacesFacts ==
    ASSUME NEW o \in Texts, NEW r \in Texts, NEW f \in Punctuation!Places(o, r)
    PROVE  /\ DOMAIN o = 1 .. Len(o) /\ DOMAIN r = 1 .. Len(r)
           /\ Len(r) \in Nat /\ Len(o) \in Nat
           /\ \A k \in 1 .. Len(o) : f[k] \in 1 .. Len(r) /\ r[f[k]].ch = o[k].ch
           /\ \A j, k \in 1 .. Len(o) : j < k => f[j] < f[k]
<1>1. /\ DOMAIN o = 1 .. Len(o) /\ DOMAIN r = 1 .. Len(r)
      /\ Len(r) \in Nat /\ Len(o) \in Nat
  BY DEF Texts
<1> QED
  BY <1>1 DEF Punctuation!Places

\* A character that is no mark has one place only: marks alone may be added.
LEMMA OnePlace ==
    ASSUME NEW o \in Texts, NEW r \in Texts,
           NEW f \in Punctuation!Places(o, r), MarksAdded(o, r, f),
           NEW g \in Punctuation!Places(o, r), \A k \in 1 .. Len(o) : g[k] <= f[k]
    PROVE  \A k \in 1 .. Len(o) : o[k].ch \notin Punctuation!Marks => g[k] = f[k]
<1> DEFINE Late(k) == k \in 1 .. Len(o) /\ o[k].ch \notin Punctuation!Marks /\ g[k] # f[k]
           S == {n \in Nat : \A k \in 1 .. n : ~Late(k)}
<1>1. 0 \in S
  OBVIOUS
<1>2. ASSUME NEW n \in Nat, n \in S
      PROVE  n + 1 \in S
  <2>1. \A k \in 1 .. n : ~Late(k)
    BY <1>2
  <2>2. ASSUME Late(n + 1)
        PROVE  FALSE
    <3> DEFINE k == n + 1
    <3>1. k \in 1 .. Len(o) /\ o[k].ch \notin Punctuation!Marks /\ g[k] # f[k]
      BY <2>2
    <3> HIDE DEF Late, S
    <3>2. /\ g[k] \in 1 .. Len(r) /\ f[k] \in 1 .. Len(r) /\ r[g[k]].ch = o[k].ch
          /\ g[k] <= f[k] /\ DOMAIN r = 1 .. Len(r) /\ DOMAIN o = 1 .. Len(o)
          /\ Len(r) \in Nat /\ Len(o) \in Nat
      BY <3>1, PlacesFacts
    <3>3. PICK j \in DOMAIN o : f[j] = g[k]
      BY <3>1, <3>2 DEF MarksAdded
    <3>4. f[j] < f[k] /\ r[f[j]].ch = o[j].ch /\ j \in 1 .. Len(o)
      BY <3>1, <3>2, <3>3, PlacesFacts
    <3> HIDE DEF k
    <3>5. j < k
      <4>1. k < j => f[k] < f[j]
        BY <3>1, <3>4, PlacesFacts
      <4> QED
        BY <3>1, <3>2, <3>3, <3>4, <4>1
    <3>6. g[j] < g[k] /\ g[j] # f[j]
      BY <3>1, <3>2, <3>3, <3>4, <3>5, PlacesFacts
    <3>7. o[j].ch \notin Punctuation!Marks
      BY <3>1, <3>2, <3>3, <3>4
    <3>8. Late(j) /\ j \in 1 .. n
      BY <3>4, <3>5, <3>6, <3>7 DEF Late, k
    <3> QED
      BY <2>1, <3>8
  <2>3. \A k \in 1 .. n + 1 : k \in 1 .. n \/ k = n + 1
    OBVIOUS
  <2> HIDE DEF Late
  <2>4. \A k \in 1 .. n + 1 : ~Late(k)
    BY <2>1, <2>2, <2>3
  <2> QED
    BY <1>2, <2>4
<1> HIDE DEF S
<1>3. Nat \subseteq S
  BY <1>1, <1>2, Counting
<1>4. Len(o) \in Nat /\ \A k \in 1 .. Len(o) : k \in Nat /\ k \in 1 .. k
  BY PlacesFacts
<1>5. \A k \in 1 .. Len(o) : ~Late(k)
  <2> HIDE DEF Late
  <2> QED
    BY <1>3, <1>4 DEF S
<1> QED
  BY <1>5

LEMMA NumberParts ==
    ASSUME NEW o \in Texts, NEW k \in 1 .. Len(o) - 1, Punctuation!InNumber(o, k)
    PROVE  /\ k \in 1 .. Len(o) /\ k + 1 \in 1 .. Len(o)
           /\ o[k].ch \in {"1", ","} /\ o[k + 1].ch \in {"1", ","} /\ ~o[k + 1].gap
           /\ o[k].ch = "," => /\ k - 1 \in 1 .. Len(o) - 1 /\ o[k - 1].ch = "1"
                              /\ Punctuation!InNumber(o, k - 1) /\ o[k + 1].ch = "1"
           /\ o[k + 1].ch = "," => o[k].ch = "1"
<1>0. Len(o) \in Nat /\ k \in 1 .. Len(o) /\ k + 1 \in 1 .. Len(o)
  BY DEF Texts
<1>1. PICK i \in 1 .. k, j \in k + 1 .. Len(o) :
        /\ \A m \in i .. j : o[m].ch \in {"1", ","}
        /\ \A m \in i + 1 .. j : ~o[m].gap
        /\ \A m \in i .. j : o[m].ch = "," =>
              m > i /\ m < j /\ o[m - 1].ch # "," /\ o[m + 1].ch # ","
        /\ \E m \in i .. j : o[m].ch = ","
  BY DEF Punctuation!InNumber, Punctuation!Digits
<1>2. k \in i .. j /\ k + 1 \in i .. j /\ k + 1 \in i + 1 .. j
  BY <1>0
<1>3. ASSUME o[k].ch = ","
      PROVE  /\ k - 1 \in 1 .. Len(o) - 1 /\ o[k - 1].ch = "1"
             /\ Punctuation!InNumber(o, k - 1) /\ o[k + 1].ch = "1"
  <2>1. k > i /\ o[k - 1].ch # "," /\ o[k + 1].ch # ","
    BY <1>1, <1>2, <1>3
  <2>2. k - 1 \in i .. j /\ k - 1 \in 1 .. Len(o) - 1 /\ i \in 1 .. k - 1
        /\ j \in (k - 1) + 1 .. Len(o)
    <3>1. /\ i \in Int /\ j \in Int /\ i >= 1 /\ k + 1 <= j /\ j <= Len(o)
          /\ k \in Int /\ k <= Len(o) - 1
      BY <1>0
    <3>2. k > i
      BY <2>1
    <3> QED
      BY <1>0, <3>1, <3>2
  <2>3. o[k - 1].ch = "1" /\ o[k + 1].ch = "1"
    BY <1>1, <1>2, <2>1, <2>2
  <2>4. Punctuation!InNumber(o, k - 1)
    BY <1>1, <2>2 DEF Punctuation!InNumber, Punctuation!Digits
  <2> QED
    BY <2>2, <2>3, <2>4
<1>4. ASSUME o[k + 1].ch = ","
      PROVE  o[k].ch = "1"
  <2>1. o[(k + 1) - 1].ch # "," /\ (k + 1) - 1 = k
    <3>1. (k + 1) - 1 = k /\ k + 1 \in i .. j
      BY <1>0, <1>2
    <3> QED
      BY <1>1, <1>4, <3>1
  <2>2. o[k].ch # ","
    BY <2>1
  <2> QED
    BY <1>1, <1>2, <2>2
<1> QED
  BY <1>0, <1>1, <1>2, <1>3, <1>4

\* The choice does not matter in a number either.
LEMMA NumberPlaces ==
    ASSUME NEW o \in Texts, NEW r \in Texts,
           NEW f \in Punctuation!Places(o, r), MarksAdded(o, r, f),
           Punctuation!NumbersKept(o, r, f),
           NEW g \in Punctuation!Places(o, r), \A k \in 1 .. Len(o) : g[k] <= f[k],
           NEW k \in 1 .. Len(o) - 1, Punctuation!InNumber(o, k)
    PROVE  g[k] = f[k] /\ g[k + 1] = f[k + 1] /\ f[k + 1] = f[k] + 1
<1>1. /\ Len(o) \in Nat /\ Len(r) \in Nat
      /\ \A i \in 1 .. Len(o) : f[i] \in 1 .. Len(r) /\ g[i] \in 1 .. Len(r)
      /\ \A i, j \in 1 .. Len(o) : i < j => f[i] < f[j] /\ g[i] < g[j]
  BY PlacesFacts
<1>2. \A i \in 1 .. Len(o) : o[i].ch = "1" => g[i] = f[i]
  <2>1. "1" \notin Punctuation!Marks
    BY DEF Punctuation!Marks, Punctuation!AsciiMarks
  <2> QED
    BY <2>1, OnePlace
<1>3. /\ k \in 1 .. Len(o) /\ k + 1 \in 1 .. Len(o)
      /\ o[k].ch \in {"1", ","} /\ o[k + 1].ch \in {"1", ","}
      /\ o[k].ch = "," => /\ k - 1 \in 1 .. Len(o) - 1 /\ o[k - 1].ch = "1"
                         /\ Punctuation!InNumber(o, k - 1) /\ o[k + 1].ch = "1"
      /\ o[k + 1].ch = "," => o[k].ch = "1"
  BY NumberParts
<1>4. f[k + 1] = f[k] + 1
  BY DEF Punctuation!NumbersKept, Punctuation!Unbroken
<1>a. k \in Nat /\ k < k + 1 /\ (k - 1) + 1 = k /\ k - 1 < k
  OBVIOUS
<1>b. /\ g[k] \in Nat /\ g[k + 1] \in Nat /\ f[k] \in Nat /\ f[k + 1] \in Nat
      /\ g[k] < g[k + 1] /\ g[k] <= f[k] /\ g[k + 1] <= f[k + 1]
  <2>1. g[k] \in 1 .. Len(r) /\ g[k + 1] \in 1 .. Len(r) /\ f[k] \in 1 .. Len(r)
        /\ f[k + 1] \in 1 .. Len(r)
    BY <1>1, <1>3
  <2>2. g[k] < g[k + 1] /\ g[k] <= f[k] /\ g[k + 1] <= f[k + 1]
    BY <1>1, <1>3, <1>a
  <2> QED
    BY <1>1, <2>1, <2>2
<1>5. CASE o[k].ch = ","
  <2>0. k - 1 \in 1 .. Len(o) - 1 /\ o[k - 1].ch = "1" /\ Punctuation!InNumber(o, k - 1)
        /\ o[k + 1].ch = "1"
    BY <1>3, <1>5
  <2>1. (k - 1) + 1 = k /\ k - 1 \in 1 .. Len(o) /\ k - 1 < k
    BY <1>1, <2>0, <1>a
  <2>2. f[(k - 1) + 1] = f[k - 1] + 1
    BY <2>0 DEF Punctuation!NumbersKept, Punctuation!Unbroken
  <2>3. g[k - 1] = f[k - 1] /\ g[k + 1] = f[k + 1]
    BY <1>2, <1>3, <2>0, <2>1
  <2>4. g[k - 1] < g[k] /\ g[k] <= f[k] /\ f[k] = f[k - 1] + 1
    BY <1>1, <1>3, <1>b, <2>1, <2>2
  <2>5. f[k - 1] \in Nat
    <3>1. f[k - 1] \in 1 .. Len(r)
      BY <1>1, <2>1
    <3> QED
      BY <1>1, <3>1
  <2> QED
    BY <1>4, <1>b, <2>3, <2>4, <2>5
<1>6. CASE o[k + 1].ch = ","
  <2>1. g[k] = f[k]
    BY <1>2, <1>3, <1>6
  <2> QED
    BY <1>4, <1>b, <2>1
<1>7. CASE o[k].ch = "1" /\ o[k + 1].ch = "1"
  BY <1>2, <1>3, <1>4, <1>7
<1> QED
  BY <1>3, <1>5, <1>6, <1>7

LEMMA EnoughToTakeTheFirst ==
    ASSUME NEW o \in Texts, NEW r \in Texts
    PROVE  Punctuation!PreservesContent(o, r) <=> Punctuation!Preserved(o, r)
<1> DEFINE g == Punctuation!Matched(o, r)
<1>1. /\ g \in Seq(Nat)
      /\ Len(g) = Len(o) => g \in Punctuation!Places(o, r)
      /\ \A f \in Punctuation!Places(o, r) :
            Len(g) = Len(o) /\ \A k \in 1 .. Len(o) : g[k] <= f[k]
  BY GreedyPlaces
<1>0. Punctuation!PreservesContent(o, r) <=>
        /\ Len(g) = Len(o) /\ MarksAdded(o, r, g)
        /\ Punctuation!NumbersKept(o, r, g) /\ Punctuation!WordsApart(o, r, g)
  BY DEF Punctuation!PreservesContent, MarksAdded
<1> HIDE DEF g
<1>2. ASSUME Punctuation!PreservesContent(o, r)
      PROVE  Punctuation!Preserved(o, r)
  BY <1>0, <1>1, <1>2 DEF Punctuation!Preserved, MarksAdded
<1>3. ASSUME Punctuation!Preserved(o, r)
      PROVE  Punctuation!PreservesContent(o, r)
  <2>1. PICK f \in Punctuation!Places(o, r) :
            /\ MarksAdded(o, r, f)
            /\ Punctuation!NumbersKept(o, r, f) /\ Punctuation!WordsApart(o, r, f)
    BY <1>3 DEF Punctuation!Preserved, MarksAdded
  <2>2. /\ Len(g) = Len(o) /\ \A k \in 1 .. Len(o) : g[k] <= f[k]
        /\ g \in Punctuation!Places(o, r)
    BY <1>1
  <2>3. \A k \in 1 .. Len(o) : o[k].ch \notin Punctuation!Marks => g[k] = f[k]
    BY <2>1, <2>2, OnePlace
  <2>4. MarksAdded(o, r, g)
    <3> SUFFICES ASSUME NEW i \in DOMAIN r, r[i].ch \notin Punctuation!Marks
                 PROVE  \E k \in DOMAIN o : g[k] = i
      BY DEF MarksAdded
    <3>1. PICK k \in DOMAIN o : f[k] = i
      BY <2>1 DEF MarksAdded
    <3>2. k \in 1 .. Len(o) /\ o[k].ch = r[i].ch
      BY <3>1, PlacesFacts
    <3> QED
      BY <2>3, <3>1, <3>2
  <2>5. Punctuation!NumbersKept(o, r, g)
    <3> SUFFICES ASSUME NEW k \in 1 .. Len(o) - 1, Punctuation!InNumber(o, k)
                 PROVE  Punctuation!Unbroken(r, g, k)
      BY DEF Punctuation!NumbersKept
    <3>1. g[k] = f[k] /\ g[k + 1] = f[k + 1]
      BY <2>1, <2>2, NumberPlaces
    <3>2. Punctuation!Unbroken(r, f, k)
      BY <2>1 DEF Punctuation!NumbersKept
    <3> QED
      BY <3>1, <3>2 DEF Punctuation!Unbroken
  <2>6. Punctuation!WordsApart(o, r, g)
    <3> SUFFICES ASSUME NEW k \in 1 .. Len(o) - 1, o[k + 1].gap,
                        Punctuation!Between(o, k + 1, Punctuation!Alnum, Punctuation!Alnum),
                        Punctuation!Unbroken(r, g, k)
                 PROVE  FALSE
      BY DEF Punctuation!WordsApart
    <3>1. k \in 1 .. Len(o) /\ k + 1 \in 1 .. Len(o) /\ (k + 1) - 1 = k
      BY PlacesFacts
    <3>2. o[k].ch \notin Punctuation!Marks /\ o[k + 1].ch \notin Punctuation!Marks
      BY <3>1 DEF Punctuation!Between, Punctuation!Alnum, Punctuation!Letters,
                  Punctuation!Digits, Punctuation!Marks, Punctuation!AsciiMarks
    <3>3. g[k] = f[k] /\ g[k + 1] = f[k + 1]
      BY <2>3, <3>1, <3>2
    <3>4. Punctuation!Unbroken(r, f, k)
      BY <3>3 DEF Punctuation!Unbroken
    <3> QED
      BY <2>1, <3>4 DEF Punctuation!WordsApart
  <2> QED
    BY <1>0, <2>2, <2>4, <2>5, <2>6
<1> QED
  BY <1>2, <1>3

(***************************************************************************)
(* What is accepted, after the spacing rules                               *)
(***************************************************************************)
\* No gap is put into a number.
LEMMA NumberTight ==
    ASSUME NEW o \in Texts, NEW r \in Texts,
           NEW f \in Punctuation!Places(o, r), Punctuation!NumbersKept(o, r, f),
           NEW k \in 1 .. Len(o) - 1, Punctuation!InNumber(o, k)
    PROVE  f[k + 1] = f[k] + 1 /\ ~Spaced(r)[f[k + 1]].gap
<1> DEFINE i == f[k + 1]
<1>1. /\ Len(o) \in Nat /\ Len(r) \in Nat /\ DOMAIN r = 1 .. Len(r)
      /\ \A m \in 1 .. Len(o) : f[m] \in 1 .. Len(r) /\ r[f[m]].ch = o[m].ch
  BY PlacesFacts
<1>2. /\ k \in 1 .. Len(o) /\ k + 1 \in 1 .. Len(o)
      /\ o[k].ch \in {"1", ","} /\ o[k + 1].ch \in {"1", ","}
      /\ o[k].ch = "," => /\ k - 1 \in 1 .. Len(o) - 1 /\ o[k - 1].ch = "1"
                         /\ Punctuation!InNumber(o, k - 1) /\ o[k + 1].ch = "1"
  BY NumberParts
<1>3. i = f[k] + 1 /\ ~r[i].gap
  BY DEF Punctuation!NumbersKept, Punctuation!Unbroken
<1>4. /\ i \in DOMAIN r /\ i - 1 = f[k] /\ i > 1 /\ i - 1 \in DOMAIN r
      /\ r[i - 1].ch = o[k].ch /\ r[i].ch = o[k + 1].ch
  <2>1. /\ f[k] \in 1 .. Len(r) /\ i \in 1 .. Len(r)
        /\ r[f[k]].ch = o[k].ch /\ r[i].ch = o[k + 1].ch
    BY <1>1, <1>2
  <2>2. i = f[k] + 1
    BY <1>3
  <2> HIDE DEF i
  <2>3. i \in Nat /\ f[k] \in Nat /\ f[k] >= 1
    BY <1>1, <2>1
  <2>4. i - 1 = f[k] /\ i > 1
    BY <2>2, <2>3
  <2> QED
    BY <1>1, <2>1, <2>4
<1>a. i \in Nat
  BY <1>1, <1>4
<1>5. ASSUME o[k].ch = ","
      PROVE  i > 2 /\ i - 2 \in DOMAIN r /\ r[i - 2].ch = "1" /\ ~r[i - 1].gap
  <2>1. k - 1 \in 1 .. Len(o) - 1 /\ o[k - 1].ch = "1" /\ Punctuation!InNumber(o, k - 1)
    BY <1>2, <1>5
  <2>2. (k - 1) + 1 = k /\ k - 1 \in 1 .. Len(o)
    BY <1>1, <2>1
  <2>3. f[(k - 1) + 1] = f[k - 1] + 1 /\ ~r[f[(k - 1) + 1]].gap
    BY <2>1 DEF Punctuation!NumbersKept, Punctuation!Unbroken
  <2>4. f[k] = f[k - 1] + 1 /\ ~r[f[k]].gap
    BY <2>2, <2>3
  <2>5. f[k - 1] \in 1 .. Len(r) /\ r[f[k - 1]].ch = "1"
    BY <1>1, <2>1, <2>2
  <2> HIDE DEF i
  <2>6. i \in 1 .. Len(r) /\ i - 1 = f[k]
    BY <1>1, <1>4
  <2>7. i - 2 = f[k - 1] /\ i > 2
    BY <1>1, <1>a, <2>4, <2>5, <2>6, SMTT(40)
  <2> QED
    BY <1>1, <2>4, <2>5, <2>6, <2>7
<1> HIDE DEF i
<1>6. Class(r, i - 1) \in {o[k].ch, "url"} /\ Class(r, i) \in {o[k + 1].ch, "url"}
  BY <1>4, Positions
<1>7. ASSUME Class(r, i - 1) = ","
      PROVE  i > 2 /\ Class(r, i - 2) = "1"
  <2>1. o[k].ch = ","
    BY <1>6, <1>7
  <2>2. i > 2 /\ i - 2 \in DOMAIN r /\ r[i - 2].ch = "1" /\ ~r[i - 1].gap
    BY <1>5, <2>1
  <2>3. r[i - 1].ch # "fw"
    BY <1>4, <2>1
  <2>4. ~Spacing!InAddress(r, i - 1)
    BY <1>4, <1>7, Addresses
  <2>5. (i - 1) - 1 = i - 2 /\ i - 1 > 1
    BY <1>a, <2>2
  <2>6. ~Spacing!InAddress(r, i - 2)
    BY <1>4, <2>2, <2>3, <2>4, <2>5, Addresses
  <2> QED
    BY <2>2, <2>6, Positions
<1>8. Class(r, i) = "url" => Class(r, i - 1) = "url"
  BY <1>2, <1>4, Addresses
<1>9. ~Unspaced(r)[i].gap
  BY <1>3, <1>4, Gaps
<1>10. ~Parted(r)[i].gap
  BY <1>2, <1>4, <1>6, <1>7, <1>9, Gaps
  DEF Spacing!Alnum, Spacing!Letters, Spacing!Digits
<1>11. ~Spaced(r)[i].gap
  BY <1>2, <1>4, <1>6, <1>8, <1>10, Gaps
  DEF Spacing!Letters
<1> QED
  BY <1>3, <1>11 DEF i

\* A gap between letters and digits is left.
LEMMA WordsStay ==
    ASSUME NEW r \in Texts, NEW i \in DOMAIN r, i > 1, r[i].gap,
           r[i - 1].ch \in Spacing!Alnum, r[i].ch \in Spacing!Alnum
    PROVE  Spaced(r)[i].gap
<1>1. i - 1 \in DOMAIN r
  BY Positions
<1>2. /\ Class(r, i - 1) \in {r[i - 1].ch, "url"}
      /\ Class(r, i) \in {r[i].ch, "url"}
  BY <1>1, Positions
<1>3. Unspaced(r)[i].gap
  BY <1>2, Gaps
  DEF Spacing!Alnum, Spacing!Letters, Spacing!Digits, Spacing!AsciiMarks
<1> QED
  BY <1>3, Gaps

LEMMA PreservedSpaced ==
    ASSUME NEW o \in Texts, NEW r \in Texts, Punctuation!Preserved(o, r)
    PROVE  Punctuation!Preserved(o, Spacing!Finalized(r))
<1> DEFINE s == Spacing!Finalized(r)
<1>1. PICK f \in Punctuation!Places(o, r) :
        /\ MarksAdded(o, r, f)
        /\ Punctuation!NumbersKept(o, r, f) /\ Punctuation!WordsApart(o, r, f)
  BY DEF Punctuation!Preserved, MarksAdded
<1>2. /\ s \in Texts /\ DOMAIN s = DOMAIN r
      /\ \A i \in DOMAIN r : s[i].ch = r[i].ch /\ s[i].gap = Spaced(r)[i].gap
  BY FinalizedAt
<1> HIDE DEF s
<1>3. /\ DOMAIN o = 1 .. Len(o) /\ DOMAIN r = 1 .. Len(r)
      /\ Len(r) \in Nat /\ Len(o) \in Nat
      /\ \A k \in 1 .. Len(o) : f[k] \in 1 .. Len(r) /\ r[f[k]].ch = o[k].ch
  BY PlacesFacts
<1>4. f \in Punctuation!Places(o, s)
  BY <1>2, <1>3 DEF Punctuation!Places
<1>5. MarksAdded(o, s, f)
  BY <1>1, <1>2 DEF MarksAdded
<1>6. Punctuation!NumbersKept(o, s, f)
  <2> SUFFICES ASSUME NEW k \in 1 .. Len(o) - 1, Punctuation!InNumber(o, k)
               PROVE  f[k + 1] = f[k] + 1 /\ ~s[f[k + 1]].gap
    BY DEF Punctuation!NumbersKept, Punctuation!Unbroken
  <2>1. f[k + 1] = f[k] + 1 /\ ~Spaced(r)[f[k + 1]].gap
    BY <1>1, NumberTight
  <2>2. k + 1 \in 1 .. Len(o)
    BY <1>3
  <2>3. f[k + 1] \in DOMAIN r
    BY <1>3, <2>2
  <2> QED
    BY <1>2, <2>1, <2>3
<1>7. Punctuation!WordsApart(o, s, f)
  <2> SUFFICES ASSUME NEW k \in 1 .. Len(o) - 1, o[k + 1].gap,
                      Punctuation!Between(o, k + 1, Punctuation!Alnum, Punctuation!Alnum),
                      f[k + 1] = f[k] + 1
               PROVE  s[f[k + 1]].gap
    BY DEF Punctuation!WordsApart, Punctuation!Unbroken
  <2>1. k \in 1 .. Len(o) /\ k + 1 \in 1 .. Len(o) /\ (k + 1) - 1 = k
    BY <1>3
  <2>2. o[k].ch \in Spacing!Alnum /\ o[k + 1].ch \in Spacing!Alnum
    BY <2>1 DEF Punctuation!Between, Punctuation!Alnum, Punctuation!Letters,
                Punctuation!Digits, Spacing!Alnum, Spacing!Letters, Spacing!Digits
  <2> DEFINE i == f[k + 1]
  <2>3. /\ i \in 1 .. Len(r) /\ f[k] \in 1 .. Len(r)
        /\ r[i].ch = o[k + 1].ch /\ r[f[k]].ch = o[k].ch
    BY <1>3, <2>1
  <2>4. r[i].gap
    <3>1. ~Punctuation!Unbroken(r, f, k)
      BY <1>1 DEF Punctuation!WordsApart
    <3> QED
      BY <3>1 DEF Punctuation!Unbroken
  <2>5. i = f[k] + 1
    OBVIOUS
  <2> HIDE DEF i
  <2>6. i > 1 /\ i - 1 = f[k]
    BY <1>3, <2>3, <2>5
  <2>7. Spaced(r)[i].gap
    BY <1>3, <2>2, <2>3, <2>4, <2>6, WordsStay
  <2> QED
    BY <1>2, <1>3, <2>3, <2>7 DEF i
<1>8. Punctuation!Preserved(o, s)
  BY <1>4, <1>5, <1>6, <1>7 DEF Punctuation!Preserved, MarksAdded
<1> QED
  BY <1>8 DEF s

LEMMA PreservedItself ==
    ASSUME NEW o \in Texts
    PROVE  Punctuation!Preserved(o, o)
<1> DEFINE f == [k \in DOMAIN o |-> k]
<1>1. DOMAIN o = 1 .. Len(o) /\ Len(o) \in Nat
  BY DEF Texts
<1>2. \A k \in DOMAIN o : f[k] = k
  OBVIOUS
<1>3. f \in Punctuation!Places(o, o)
  BY <1>1 DEF Punctuation!Places
<1> HIDE DEF f
<1>4. \A k \in 1 .. Len(o) - 1 : /\ k \in DOMAIN o /\ k + 1 \in DOMAIN o
                                 /\ f[k] = k /\ f[k + 1] = k + 1
  BY <1>1, <1>2
<1>5. Punctuation!NumbersKept(o, o, f)
  <2> SUFFICES ASSUME NEW k \in 1 .. Len(o) - 1, Punctuation!InNumber(o, k)
               PROVE  f[k + 1] = f[k] + 1 /\ ~o[f[k + 1]].gap
    BY DEF Punctuation!NumbersKept, Punctuation!Unbroken
  <2>1. ~o[k + 1].gap
    BY NumberParts
  <2>2. f[k] = k /\ f[k + 1] = k + 1
    BY <1>4
  <2> QED
    BY <2>1, <2>2
<1>6. Punctuation!WordsApart(o, o, f)
  BY <1>4 DEF Punctuation!WordsApart, Punctuation!Unbroken
<1>7. \A i \in DOMAIN o : \E k \in DOMAIN o : f[k] = i
  BY <1>2
<1> QED
  BY <1>3, <1>5, <1>6, <1>7 DEF Punctuation!Preserved

(***************************************************************************)
(* Text: the invariant                                                     *)
(***************************************************************************)
Bounded ==
    /\ text \in Seq([ch : Alphabet, gap : BOOLEAN]) /\ Len(text) <= MaxPunctuated
    /\ restored \in Seq([ch : Alphabet, gap : BOOLEAN]) /\ Len(restored) <= MaxRestored

Proper ==
    /\ text \in Texts /\ restored \in Texts
    /\ program = "punctuation" => Bounded

LEMMA SameText ==
    /\ Punctuation!Characters = Spacing!Characters
    /\ \A t \in Texts : Punctuation!Finalized(t) = Spacing!Finalized(t)
<1>1. Punctuation!Characters = Spacing!Characters
  BY DEF Punctuation!Characters, Spacing!Characters, Punctuation!Marks, Spacing!Marks,
         Punctuation!Alnum, Spacing!Alnum, Punctuation!AsciiMarks, Spacing!AsciiMarks,
         Punctuation!Letters, Spacing!Letters, Punctuation!Digits, Spacing!Digits
<1>2. /\ Punctuation!Letters = Spacing!Letters /\ Punctuation!Digits = Spacing!Digits
      /\ Punctuation!Alnum = Spacing!Alnum /\ Punctuation!AsciiMarks = Spacing!AsciiMarks
  BY DEF Punctuation!Alnum, Spacing!Alnum, Punctuation!AsciiMarks, Spacing!AsciiMarks,
         Punctuation!Letters, Spacing!Letters, Punctuation!Digits, Spacing!Digits
<1>3. ASSUME NEW t \in Texts
      PROVE  Punctuation!Finalized(t) = Spacing!Finalized(t)
  <2> DEFINE u == [i \in DOMAIN Parsed(t) |->
                     [Parsed(t)[i] EXCEPT !.gap =
                        i > 1 /\ Punctuation!Closed(Parsed(t), i, Parsed(t)[i].gap)]]
             v == [i \in DOMAIN Unspaced(t) |->
                     [Unspaced(t)[i] EXCEPT !.gap =
                        i > 1 /\ Punctuation!Marked(Unspaced(t), i, Unspaced(t)[i].gap)]]
             w == [i \in DOMAIN Parted(t) |->
                     [Parted(t)[i] EXCEPT !.gap =
                        i > 1 /\ Punctuation!Mixed(Parted(t), i, Parted(t)[i].gap)]]
  <2>1. Punctuation!Parsed(t) = Parsed(t)
    BY DEF Parsed, Punctuation!Parsed, Spacing!Parsed,
           Punctuation!InAddress, Spacing!InAddress
  <2>2. \A x, i, gap : Punctuation!Closed(x, i, gap) = Spacing!Closed(x, i, gap)
    BY <1>2 DEF Punctuation!Closed, Spacing!Closed, Punctuation!Between, Spacing!Between
  <2>3. \A x, i, gap : Punctuation!Marked(x, i, gap) = Spacing!Marked(x, i, gap)
    BY <1>2 DEF Punctuation!Marked, Spacing!Marked, Punctuation!Between, Spacing!Between
  <2>4. \A x, i, gap : Punctuation!Mixed(x, i, gap) = Spacing!Mixed(x, i, gap)
    BY <1>2 DEF Punctuation!Mixed, Spacing!Mixed, Punctuation!Between, Spacing!Between,
                Punctuation!WordEnds, Spacing!WordEnds
  <2>5. u = Unspaced(t)
    BY <2>2 DEF Unspaced, Spacing!Pass
  <2>6. v = Parted(t)
    BY <2>3 DEF Parted, Spacing!Pass
  <2>7. w = Spaced(t)
    BY <2>4 DEF Spaced, Spacing!Pass
  <2>8. Punctuation!Pass(Punctuation!Parsed(t), Punctuation!Closed) = u
    BY <2>1 DEF Punctuation!Pass
  <2>9. Punctuation!Pass(Unspaced(t), Punctuation!Marked) = v
    BY DEF Punctuation!Pass
  <2>10. Punctuation!Pass(Parted(t), Punctuation!Mixed) = w
    BY DEF Punctuation!Pass
  <2> HIDE DEF u, v, w
  <2>11. Punctuation!Finalized(t) = [i \in DOMAIN t |-> [t[i] EXCEPT !.gap = Spaced(t)[i].gap]]
    BY <2>5, <2>6, <2>7, <2>8, <2>9, <2>10 DEF Punctuation!Finalized
  <2>12. Spacing!Finalized(t) = [i \in DOMAIN t |-> [t[i] EXCEPT !.gap = Spaced(t)[i].gap]]
    BY DEF Spacing!Finalized, Spaced, Parted, Unspaced, Parsed
  <2> QED
    BY <2>11, <2>12
<1> QED
  BY <1>1, <1>3

LEMMA GrownText ==
    ASSUME NEW t \in Texts, NEW ch \in Spacing!Characters, NEW gap \in BOOLEAN
    PROVE  Spacing!Grown(t, ch, gap) \in Texts /\ Punctuation!Grown(t, ch, gap) \in Texts
<1>1. [ch |-> ch, gap |-> gap /\ t # <<>>] \in Spaceable
  BY DEF Spaceable
<1> QED
  BY <1>1 DEF Spacing!Grown, Punctuation!Grown, Texts

LEMMA GrownBounded ==
    ASSUME NEW t \in Seq([ch : Alphabet, gap : BOOLEAN]), NEW ch \in Alphabet,
           NEW gap \in BOOLEAN
    PROVE  /\ Punctuation!Grown(t, ch, gap) \in Seq([ch : Alphabet, gap : BOOLEAN])
           /\ Len(Punctuation!Grown(t, ch, gap)) = Len(t) + 1 /\ Len(t) \in Nat
<1> DEFINE c == [ch |-> ch, gap |-> gap /\ t # <<>>]
<1>1. c \in [ch : Alphabet, gap : BOOLEAN]
  OBVIOUS
<1>2. Punctuation!Grown(t, ch, gap) = Append(t, c)
  BY DEF Punctuation!Grown
<1> HIDE DEF c
<1> QED
  BY <1>1, <1>2

LEMMA InitProper == TextsInit => Proper
<1>1. <<>> \in Texts /\ <<>> \in Seq([ch : Alphabet, gap : BOOLEAN]) /\ Len(<<>>) = 0
  BY DEF Texts
<1>2. 0 <= MaxPunctuated /\ 0 <= MaxRestored
  BY TextsAssumption DEF Punctuation!TextAssumption
<1> QED
  BY <1>1, <1>2 DEF TextsInit, Spacing!Init, Proper, Bounded

LEMMA NextProper == Proper /\ [TextsNext]_<<program, vars, decoderVars, textVars>> => Proper'
<1> SUFFICES ASSUME Proper, [TextsNext]_<<program, vars, decoderVars, textVars>>
             PROVE  Proper'
  OBVIOUS
<1>0. program' = program
  BY DEF TextsNext
<1>1. CASE UNCHANGED textVars
  BY <1>0, <1>1 DEF textVars, Proper, Bounded
<1>2. CASE program = "spacing" /\ Spacing!Next
  BY <1>0, <1>2, SameText, GrownText
  DEF Spacing!Next, Spacing!Recognized, Spacing!Restored, Proper
<1>3. CASE Punctuation!Next
  <2>1. Alphabet \subseteq Spacing!Characters
    BY DEF Alphabet, Spacing!Characters, Spacing!Marks, Spacing!Alnum, Spacing!Digits,
           Spacing!AsciiMarks
  <2>2. text' \in Texts /\ restored' \in Texts
    BY <1>3, <2>1, GrownText
    DEF Punctuation!Next, Punctuation!Recognized, Punctuation!Restored, Proper
  <2>3. Bounded => Bounded'
    <3> SUFFICES ASSUME Bounded
                 PROVE  Bounded'
      OBVIOUS
    <3>1. MaxPunctuated \in Nat /\ MaxRestored \in Nat
      BY TextsAssumption DEF Punctuation!TextAssumption
    <3>2. PICK ch \in Alphabet, gap \in BOOLEAN :
            Punctuation!Recognized(ch, gap) \/ Punctuation!Restored(ch, gap)
      BY <1>3 DEF Punctuation!Next
    <3> DEFINE C == [ch : Alphabet, gap : BOOLEAN]
    <3>a. /\ text \in Seq(C) /\ Len(text) <= MaxPunctuated
          /\ restored \in Seq(C) /\ Len(restored) <= MaxRestored
      BY DEF Bounded
    <3>b. \A t \in Seq(C) : /\ Punctuation!Grown(t, ch, gap) \in Seq(C)
                            /\ Len(Punctuation!Grown(t, ch, gap)) = Len(t) + 1
                            /\ Len(t) \in Nat
      BY GrownBounded
    <3>c. Bounded' <=> /\ text' \in Seq(C) /\ Len(text') <= MaxPunctuated
                       /\ restored' \in Seq(C) /\ Len(restored') <= MaxRestored
      BY DEF Bounded
    <3> HIDE DEF C
    <3>3. CASE Punctuation!Recognized(ch, gap)
      BY <3>1, <3>3, <3>a, <3>b, <3>c DEF Punctuation!Recognized
    <3>4. CASE Punctuation!Restored(ch, gap)
      BY <3>1, <3>4, <3>a, <3>b, <3>c DEF Punctuation!Restored
    <3> QED
      BY <3>2, <3>3, <3>4
  <2> QED
    BY <1>0, <2>2, <2>3 DEF Proper
<1> QED
  BY <1>1, <1>2, <1>3 DEF TextsNext, textVars

LEMMA TextsProper == TextsSpec => []Proper
BY InitProper, NextProper, PTL DEF TextsSpec

\* A final text that the decoder has spaced stays as it is when the session
\* spaces it again: for texts of any length, although the rules feed one
\* another and an address may have grown in between (text.py:23-60).
THEOREM SettledTheorem == TextsSpec => []Settled
<1>1. Proper => Settled
  BY SpacedOnce DEF Settled, Spacing!Settled, Proper
<1> QED
  BY <1>1, TextsProper, PTL

LEMMA ProperKept ==
    ASSUME Proper, program = "punctuation"
    PROVE  Punctuation!ContentKept
<1>1. text \in Texts /\ restored \in Texts /\ Bounded
  BY DEF Proper
<1>2. Punctuation!GreedyIsEnough
  BY <1>1, EnoughToTakeTheFirst DEF Punctuation!GreedyIsEnough
<1>3. Punctuation!TypeOK
  <2>1. \A i \in DOMAIN text : Punctuation!Finalized(text)[i].ch = text[i].ch
    <3>1. Punctuation!Finalized(text) = Spacing!Finalized(text)
      BY <1>1, SameText
    <3>2. \A t \in Texts : \A i \in DOMAIN t : Spacing!Finalized(t)[i].ch = t[i].ch
      BY FinalizedAt
    <3>3. \A i \in DOMAIN text : Spacing!Finalized(text)[i].ch = text[i].ch
      BY <1>1, <3>2
    <3> QED
      BY <3>1, <3>3
  <2> QED
    BY <1>1, <2>1 DEF Punctuation!TypeOK, Bounded
<1>4. ASSUME NEW t \in Texts, Punctuation!Preserved(text, t)
      PROVE  Punctuation!Preserved(text, Punctuation!Finalized(t))
  <2>1. Punctuation!Preserved(text, Spacing!Finalized(t))
    BY <1>1, <1>4, PreservedSpaced
  <2>2. Punctuation!Finalized(t) = Spacing!Finalized(t)
    BY SameText
  <2> QED
    BY <2>1, <2>2
<1>5. Punctuation!NothingLost
  <2> DEFINE taken == restored # <<>> /\ Punctuation!PreservesContent(text, restored)
             t == IF taken THEN restored ELSE text
  <2>1. t \in Texts
    BY <1>1
  <2>2. Punctuation!Preserved(text, t)
    <3>1. CASE taken
      BY <1>1, <3>1, EnoughToTakeTheFirst
    <3>2. CASE ~taken
      BY <1>1, <3>2, PreservedItself
    <3> QED
      BY <3>1, <3>2
  <2>3. Punctuation!FinalText(text, restored) = Punctuation!Finalized(t)
    BY DEF Punctuation!FinalText
  <2> HIDE DEF t
  <2>4. Punctuation!Preserved(text, Punctuation!Finalized(t))
    BY <1>4, <2>1, <2>2
  <2> QED
    BY <2>3, <2>4 DEF Punctuation!NothingLost
<1> QED
  BY <1>2, <1>3, <1>5 DEF Punctuation!ContentKept

\* Taking the first place that fits loses nothing (punctuation.py:28-64): a
\* result is taken exactly when some choice of the places keeps the content,
\* and what is typed then has every character in its order, numbers whole and
\* words apart, also after the spacing rules: for texts and results of any
\* length.
THEOREM ContentKeptTheorem == TextsSpec => []ContentKept
<1>1. Proper => ContentKept
  BY ProperKept DEF ContentKept
<1> QED
  BY <1>1, TextsProper, PTL

(***************************************************************************)
(* The folds of the decoders, turn by turn                                 *)
(***************************************************************************)
Turn(which, before, x, ends, bad) ==
    IF which = "unit" THEN Decoder!Decoded(before, x, speech, ends)
    ELSE Decoder!BlockTaken(before, x, ends, bad)

\* The function that FoldLeft() applies: on sets of places of s.
IsFold(which, base, s, ends, bad, n, p) ==
    p = [t \in SUBSET (1 .. n) |->
           IF t = {} THEN base
           ELSE Turn(which, p[t \ {Decoder!Max(t)}], s[Decoder!Max(t)], ends, bad)]

LEMMA MaxIs ==
    ASSUME NEW n \in Nat, NEW t \in SUBSET (1 .. n + 1), n + 1 \in t
    PROVE  Decoder!Max(t) = n + 1 /\ t \ {n + 1} \in SUBSET (1 .. n)
<1>1. n + 1 \in t /\ \A y \in t : n + 1 >= y
  OBVIOUS
<1>2. \A x \in t : (\A y \in t : x >= y) => x = n + 1
  OBVIOUS
<1>3. Decoder!Max(t) = n + 1
  BY <1>1, <1>2 DEF Decoder!Max
<1> QED
  BY <1>3

LEMMA FoldExists ==
    ASSUME NEW which, NEW base, NEW s, NEW ends, NEW bad, NEW n \in Nat
    PROVE  \E p : IsFold(which, base, s, ends, bad, n, p)
<1> DEFINE S == {m \in Nat : \E p : IsFold(which, base, s, ends, bad, m, p)}
<1>1. 0 \in S
  <2> DEFINE p == [t \in SUBSET (1 .. 0) |-> base]
  <2>1. \A t \in SUBSET (1 .. 0) : t = {}
    OBVIOUS
  <2>2. IsFold(which, base, s, ends, bad, 0, p)
    BY <2>1 DEF IsFold
  <2> QED
    BY <2>2
<1>2. ASSUME NEW m \in Nat, m \in S
      PROVE  m + 1 \in S
  <2>1. PICK p : IsFold(which, base, s, ends, bad, m, p)
    BY <1>2
  <2> DEFINE q == [t \in SUBSET (1 .. m + 1) |->
                     IF m + 1 \in t THEN Turn(which, p[t \ {m + 1}], s[m + 1], ends, bad)
                     ELSE p[t]]
  <2>2. ASSUME NEW t \in SUBSET (1 .. m + 1)
        PROVE  q[t] = IF t = {} THEN base
                      ELSE Turn(which, q[t \ {Decoder!Max(t)}], s[Decoder!Max(t)], ends, bad)
    <3>1. CASE m + 1 \in t
      <4>1. Decoder!Max(t) = m + 1 /\ t \ {m + 1} \in SUBSET (1 .. m) /\ t # {}
        BY <3>1, MaxIs
      <4>2. q[t] = Turn(which, p[t \ {m + 1}], s[m + 1], ends, bad)
        BY <3>1
      <4>3. t \ {m + 1} \in SUBSET (1 .. m + 1) /\ m + 1 \notin t \ {m + 1}
        OBVIOUS
      <4>4. q[t \ {m + 1}] = p[t \ {m + 1}]
        BY <4>3
      <4> HIDE DEF q
      <4> QED
        BY <4>1, <4>2, <4>4
    <3>2. CASE m + 1 \notin t
      <4>1. t \in SUBSET (1 .. m)
        BY <3>2
      <4>2. q[t] = p[t]
        BY <3>2
      <4>3. t \ {Decoder!Max(t)} \in SUBSET (1 .. m + 1) /\ m + 1 \notin t \ {Decoder!Max(t)}
        BY <3>2
      <4>4. q[t \ {Decoder!Max(t)}] = p[t \ {Decoder!Max(t)}]
        BY <4>3
      <4>5. p[t] = IF t = {} THEN base
                   ELSE Turn(which, p[t \ {Decoder!Max(t)}], s[Decoder!Max(t)], ends, bad)
        BY <2>1, <4>1 DEF IsFold
      <4> HIDE DEF q
      <4> QED
        BY <4>2, <4>4, <4>5
    <3> QED
      BY <3>1, <3>2
  <2>3. q = [t \in SUBSET (1 .. m + 1) |-> q[t]]
    OBVIOUS
  <2> HIDE DEF q
  <2>4. IsFold(which, base, s, ends, bad, m + 1, q)
    BY <2>2, <2>3 DEF IsFold
  <2> QED
    BY <1>2, <2>4
<1> HIDE DEF S
<1>3. Nat \subseteq S
  BY <1>1, <1>2, Counting
<1> QED
  BY <1>3 DEF S

Folded(which, base, s, ends, bad, n) ==
    CHOOSE p : IsFold(which, base, s, ends, bad, n, p)

\* The results after each turn.
IsTurns(which, base, s, ends, bad, n, h) ==
    /\ h[0] = base
    /\ \A m \in 0 .. n : m + 1 <= n =>
         h[m + 1] = Turn(which, h[m], s[m + 1], ends, bad)

LEMMA FoldTurns ==
    ASSUME NEW which, NEW base, NEW s, NEW ends, NEW bad, NEW n \in Nat
    PROVE  \E h : /\ IsTurns(which, base, s, ends, bad, n, h)
                  /\ h[n] = Folded(which, base, s, ends, bad, n)[1 .. n]
<1> DEFINE p == Folded(which, base, s, ends, bad, n)
           h == [m \in 0 .. n |-> p[1 .. m]]
<1>1. IsFold(which, base, s, ends, bad, n, p)
  <2>1. \E z : IsFold(which, base, s, ends, bad, n, z)
    BY FoldExists
  <2> QED
    BY <2>1 DEF Folded
<1> HIDE DEF p
<1>2. \A t \in SUBSET (1 .. n) :
        p[t] = IF t = {} THEN base
               ELSE Turn(which, p[t \ {Decoder!Max(t)}], s[Decoder!Max(t)], ends, bad)
  BY <1>1 DEF IsFold
<1>3. h[0] = base
  <2>1. 1 .. 0 = {} /\ {} \in SUBSET (1 .. n)
    OBVIOUS
  <2>2. p[{}] = base
    BY <1>2, <2>1
  <2> QED
    BY <2>1, <2>2
<1>4. ASSUME NEW m \in 0 .. n, m + 1 <= n
      PROVE  h[m + 1] = Turn(which, h[m], s[m + 1], ends, bad)
  <2> DEFINE t == 1 .. m + 1
  <2>1. t \in SUBSET (1 .. n) /\ m + 1 \in t /\ t # {} /\ t \in SUBSET (1 .. m + 1)
        /\ t \ {m + 1} = 1 .. m /\ m \in Nat
    BY <1>4
  <2>2. h[m + 1] = p[t] /\ h[m] = p[1 .. m]
    BY <1>4
  <2> HIDE DEF t, h
  <2>3. Decoder!Max(t) = m + 1
    BY <2>1, MaxIs
  <2> QED
    BY <1>2, <2>1, <2>2, <2>3
<1>5. h[n] = p[1 .. n]
  OBVIOUS
<1> QED
  BY <1>3, <1>4, <1>5 DEF p, IsTurns

UnitsTaken(base, s, ends) ==
    Decoder!FoldLeft(LAMBDA before, unit : Decoder!Decoded(before, unit, speech, ends), base, s)

BlocksTaken(base, s, ends, bad) ==
    Decoder!FoldLeft(LAMBDA before, block : Decoder!BlockTaken(before, block, ends, bad),
                     base, s)

LEMMA UnitsFold ==
    ASSUME NEW base, NEW s, NEW ends, NEW n \in Nat, DOMAIN s = 1 .. n
    PROVE  UnitsTaken(base, s, ends) = Folded("unit", base, s, ends, {}, n)[1 .. n]
<1> DEFINE F(p) == [t \in SUBSET (1 .. n) |->
                     IF t = {} THEN base
                     ELSE Decoder!Decoded(p[t \ {Decoder!Max(t)}], s[Decoder!Max(t)],
                                          speech, ends)]
<1>1. \A p : IsFold("unit", base, s, ends, {}, n, p) <=> p = F(p)
  BY DEF IsFold, Turn
<1>2. UnitsTaken(base, s, ends) = (CHOOSE p : p = F(p))[1 .. n]
  BY DEF UnitsTaken, Decoder!FoldLeft, Decoder!MapThenFoldSet
<1> HIDE DEF F
<1>3. (CHOOSE p : IsFold("unit", base, s, ends, {}, n, p)) = (CHOOSE p : p = F(p))
  BY <1>1
<1> QED
  BY <1>2, <1>3 DEF Folded

LEMMA BlocksFold ==
    ASSUME NEW base, NEW s, NEW ends, NEW bad, NEW n \in Nat, DOMAIN s = 1 .. n
    PROVE  BlocksTaken(base, s, ends, bad) = Folded("block", base, s, ends, bad, n)[1 .. n]
<1> DEFINE F(p) == [t \in SUBSET (1 .. n) |->
                     IF t = {} THEN base
                     ELSE Decoder!BlockTaken(p[t \ {Decoder!Max(t)}], s[Decoder!Max(t)],
                                             ends, bad)]
<1>1. \A p : IsFold("block", base, s, ends, bad, n, p) <=> p = F(p)
  BY DEF IsFold, Turn
<1>2. BlocksTaken(base, s, ends, bad) = (CHOOSE p : p = F(p))[1 .. n]
  BY DEF BlocksTaken, Decoder!FoldLeft, Decoder!MapThenFoldSet
<1> HIDE DEF F
<1>3. (CHOOSE p : IsFold("block", base, s, ends, bad, n, p)) = (CHOOSE p : p = F(p))
  BY <1>1
<1> QED
  BY <1>2, <1>3 DEF Folded

(***************************************************************************)
(* Lists of events: what their finals hold and what they show at the end   *)
(***************************************************************************)
Spoken(lo, hi) == speech \intersect (lo + 1 .. hi)

Held(ev) == {u \in speech : \E i \in DOMAIN ev : ev[i].kind = "final" /\ u \in ev[i].text}

Ordered(ev) ==
    \A i, j \in DOMAIN ev : i < j /\ ev[i].kind = "final" =>
        \A u \in ev[i].text, v \in ev[j].text : u < v

Shows(ev, last) ==
    IF ev = <<>> THEN last
    ELSE IF ev[Len(ev)].kind = "final" THEN {} ELSE ev[Len(ev)].text

Raw == [kind : {"partial", "final"}, text : SUBSET speech]

LEMMA SpokenFacts ==
    ASSUME NEW a \in Nat, NEW b \in Nat, NEW c \in Nat, a <= b, b <= c
    PROVE  /\ Spoken(a, b) \union Spoken(b, c) = Spoken(a, c) /\ Spoken(a, a) = {}
           /\ Spoken(a, b) \subseteq speech /\ Spoken(a, b) \subseteq Spoken(a, c)
           /\ Spoken(b, c) \subseteq Spoken(a, c)
           /\ \A u \in Spoken(a, b), v \in Spoken(b, c) : u < v
BY DEF Spoken

LEMMA NoEvents ==
    /\ Held(<<>>) = {} /\ Ordered(<<>>) /\ \A x : Shows(<<>>, x) = x
    /\ <<>> \in Seq(Raw)
BY DEF Held, Ordered, Shows

LEMMA ConcatAt ==
    ASSUME NEW E, NEW a \in Seq(E), NEW b \in Seq(E)
    PROVE  /\ a \o b \in Seq(E) /\ Len(a \o b) = Len(a) + Len(b)
           /\ Len(a) \in Nat /\ Len(b) \in Nat
           /\ DOMAIN a = 1 .. Len(a) /\ DOMAIN b = 1 .. Len(b)
           /\ DOMAIN (a \o b) = 1 .. Len(a) + Len(b)
           /\ \A i \in 1 .. Len(a) : (a \o b)[i] = a[i]
           /\ \A i \in 1 .. Len(b) : (a \o b)[Len(a) + i] = b[i]
           /\ \A i \in DOMAIN (a \o b) :
                (a \o b)[i] = IF i <= Len(a) THEN a[i] ELSE b[i - Len(a)]
           /\ a = <<>> <=> Len(a) = 0
           /\ b = <<>> <=> Len(b) = 0
OBVIOUS

\* Events after others, all of whose text is later than every final before.
LEMMA Extended ==
    ASSUME NEW E, NEW a \in Seq(E), NEW b \in Seq(E), Ordered(a), Ordered(b),
           \A i \in DOMAIN b : \A u \in Held(a), v \in b[i].text : u < v,
           \A i \in DOMAIN a : a[i].text \subseteq speech
    PROVE  /\ Ordered(a \o b) /\ Held(a \o b) = Held(a) \union Held(b)
           /\ \A last : Shows(a \o b, last) = Shows(b, Shows(a, last))
<1> DEFINE c == a \o b
<1>1. /\ c \in Seq(E) /\ Len(c) = Len(a) + Len(b)
      /\ Len(a) \in Nat /\ Len(b) \in Nat
      /\ DOMAIN a = 1 .. Len(a) /\ DOMAIN b = 1 .. Len(b)
      /\ DOMAIN c = 1 .. Len(a) + Len(b)
      /\ \A i \in 1 .. Len(a) : c[i] = a[i]
      /\ \A i \in 1 .. Len(b) : c[Len(a) + i] = b[i]
      /\ a = <<>> <=> Len(a) = 0
      /\ b = <<>> <=> Len(b) = 0
  BY ConcatAt
<1>0. c = <<>> <=> Len(c) = 0
  BY <1>1
<1> HIDE DEF c
<1>2. \A i \in DOMAIN c : \/ i \in DOMAIN a /\ c[i] = a[i]
                          \/ /\ i - Len(a) \in DOMAIN b /\ c[i] = b[i - Len(a)]
                             /\ i > Len(a)
  <2> SUFFICES ASSUME NEW i \in DOMAIN c, i \notin DOMAIN a
               PROVE  i - Len(a) \in DOMAIN b /\ c[i] = b[i - Len(a)] /\ i > Len(a)
    BY <1>1
  <2>1. i - Len(a) \in 1 .. Len(b) /\ Len(a) + (i - Len(a)) = i /\ i > Len(a)
    BY <1>1
  <2> QED
    BY <1>1, <2>1
<1>3. ASSUME NEW i \in DOMAIN c, NEW j \in DOMAIN c, i < j, c[i].kind = "final",
             NEW u \in c[i].text, NEW v \in c[j].text
      PROVE  u < v
  <2>1. CASE i \in DOMAIN a /\ c[i] = a[i] /\ j \in DOMAIN a /\ c[j] = a[j]
    BY <1>3, <2>1 DEF Ordered
  <2>2. CASE i \in DOMAIN a /\ c[i] = a[i] /\ j - Len(a) \in DOMAIN b /\ c[j] = b[j - Len(a)]
    <3>1. u \in Held(a)
      BY <1>3, <2>2 DEF Held
    <3> QED
      BY <2>2, <3>1
  <2>3. CASE /\ i - Len(a) \in DOMAIN b /\ c[i] = b[i - Len(a)]
             /\ j - Len(a) \in DOMAIN b /\ c[j] = b[j - Len(a)]
    <3>1. i - Len(a) < j - Len(a)
      BY <1>1, <1>3
    <3> QED
      BY <1>3, <2>3, <3>1 DEF Ordered
  <2>4. ~(i > Len(a) /\ j \in DOMAIN a)
    BY <1>1, <1>3
  <2> QED
    BY <1>2, <2>1, <2>2, <2>3, <2>4
<1>4. Held(c) = Held(a) \union Held(b)
  <2>1. ASSUME NEW u \in Held(c)
        PROVE  u \in Held(a) \union Held(b)
    BY <1>2 DEF Held
  <2>2. ASSUME NEW u \in Held(a)
        PROVE  u \in Held(c)
    <3>1. PICK i \in DOMAIN a : a[i].kind = "final" /\ u \in a[i].text
      BY DEF Held
    <3>2. i \in DOMAIN c /\ c[i] = a[i]
      BY <1>1
    <3> QED
      BY <3>1, <3>2 DEF Held
  <2>3. ASSUME NEW u \in Held(b)
        PROVE  u \in Held(c)
    <3>1. PICK i \in DOMAIN b : b[i].kind = "final" /\ u \in b[i].text
      BY DEF Held
    <3>2. Len(a) + i \in DOMAIN c /\ c[Len(a) + i] = b[i]
      BY <1>1
    <3> QED
      BY <3>1, <3>2 DEF Held
  <2> QED
    BY <2>1, <2>2, <2>3
<1>5. ASSUME NEW last
      PROVE  Shows(c, last) = Shows(b, Shows(a, last))
  <2>1. CASE b = <<>>
    <3>1. Len(c) = Len(a) /\ (Len(a) # 0 => Len(a) \in 1 .. Len(a))
      BY <1>1, <2>1
    <3> QED
      BY <1>0, <1>1, <2>1, <3>1 DEF Shows
  <2>2. CASE b # <<>>
    <3>1. Len(b) \in 1 .. Len(b) /\ Len(c) = Len(a) + Len(b) /\ Len(c) # 0
      BY <1>1, <2>2
    <3>2. c[Len(c)] = b[Len(b)]
      BY <1>1, <3>1
    <3> QED
      BY <1>0, <2>2, <3>1, <3>2 DEF Shows
  <2> QED
    BY <2>1, <2>2
<1>6. Ordered(c)
  BY <1>3 DEF Ordered
<1> QED
  BY <1>4, <1>5, <1>6 DEF c

\* The same for one event.
LEMMA OneMore ==
    ASSUME NEW E, NEW a \in Seq(E), NEW e \in E, Ordered(a),
           \A i \in DOMAIN a : a[i].text \subseteq speech, e.text \subseteq speech,
           \A u \in Held(a), v \in e.text : u < v
    PROVE  /\ Append(a, e) \in Seq(E) /\ Ordered(Append(a, e))
           /\ Held(Append(a, e)) = Held(a) \union (IF e.kind = "final" THEN e.text ELSE {})
           /\ \A last : Shows(Append(a, e), last) = IF e.kind = "final" THEN {} ELSE e.text
           /\ Len(Append(a, e)) = Len(a) + 1
           /\ \A i \in DOMAIN Append(a, e) :
                Append(a, e)[i] = e \/ (i \in DOMAIN a /\ Append(a, e)[i] = a[i])
<1> DEFINE b == <<e>>
<1>1. b \in Seq(E) /\ Append(a, e) = a \o b /\ Len(b) = 1 /\ b[1] = e /\ DOMAIN b = 1 .. 1
  OBVIOUS
<1>2. b # <<>>
  OBVIOUS
<1> HIDE DEF b
<1>3. \A i \in DOMAIN b : i = 1
  BY <1>1
<1>4. Ordered(b)
  BY <1>3 DEF Ordered
<1>5. \A i \in DOMAIN b : \A u \in Held(a), v \in b[i].text : u < v
  BY <1>1, <1>3
<1>6. /\ Ordered(a \o b) /\ Held(a \o b) = Held(a) \union Held(b)
      /\ \A last : Shows(a \o b, last) = Shows(b, Shows(a, last))
  BY <1>1, <1>4, <1>5, Extended
<1>7. Held(b) = IF e.kind = "final" THEN e.text ELSE {}
  BY <1>1, <1>3 DEF Held
<1>8. \A last : Shows(b, last) = IF e.kind = "final" THEN {} ELSE e.text
  BY <1>1, <1>2 DEF Shows
<1>9. /\ Append(a, e) \in Seq(E) /\ Len(Append(a, e)) = Len(a) + 1
      /\ \A i \in DOMAIN Append(a, e) :
           Append(a, e)[i] = e \/ (i \in DOMAIN a /\ Append(a, e)[i] = a[i])
  OBVIOUS
<1> QED
  BY <1>1, <1>6, <1>7, <1>8, <1>9

(***************************************************************************)
(* The streaming decoder                                                   *)
(***************************************************************************)
Streams == [from : Nat, upto : Nat, heard : Nat, last : SUBSET speech,
            active : BOOLEAN, finished : BOOLEAN]

\* What was decoded since the segment began is what was last shown.
Steady(d) ==
    /\ d \in Streams /\ ~d.finished
    /\ d.from <= d.upto /\ d.upto <= d.heard
    /\ d.last = Spoken(d.from, d.upto) /\ (d.active <=> d.last # {})

\* The events since the stream was in the state d0.
Fed(d0, d, ev) ==
    /\ Steady(d) /\ d.heard = d0.heard /\ d0.from <= d.from
    /\ ev \in Seq(Raw) /\ Ordered(ev)
    /\ \A i \in DOMAIN ev : ev[i].text \subseteq Spoken(d0.from, d.upto)
    /\ Held(ev) = Spoken(d0.from, d.from)
    /\ Shows(ev, d0.last) = d.last
    /\ (\E i \in DOMAIN ev : ev[i].kind = "final") =>
            d0.from + MinEndpoint <= d0.heard

\* What one turn of the loop of _decode() does, field by field.
Turned(st, unit, ends, r) ==
    LET said == Spoken(st.d.from, unit)
        ended == unit \in ends /\ unit - st.d.from >= MinEndpoint
    IN  /\ r.d \in Streams /\ r.d.upto = unit /\ r.d.heard = st.d.heard
        /\ r.d.finished = st.d.finished
        /\ ended =>
             /\ r.d.from = unit /\ r.d.last = {} /\ r.d.active = FALSE
             /\ r.events = IF st.d.active \/ said # {}
                           THEN Append(st.events, [kind |-> "final", text |-> said])
                           ELSE st.events
        /\ ~ended /\ said # st.d.last =>
             /\ r.d.from = st.d.from /\ r.d.last = said /\ r.d.active = TRUE
             /\ r.events = Append(st.events, [kind |-> "partial", text |-> said])
        /\ ~ended /\ said = st.d.last =>
             /\ r.d.from = st.d.from /\ r.d.last = st.d.last
             /\ r.d.active = st.d.active /\ r.events = st.events

LEMMA DecodedFields ==
    ASSUME NEW st, st.d \in Streams, NEW unit \in Nat, NEW ends
    PROVE  Turned(st, unit, ends, Decoder!Decoded(st, unit, speech, ends))
<1> DEFINE said == Spoken(st.d.from, unit)
           d == [st.d EXCEPT !.upto = unit]
           ended == unit \in ends /\ unit - st.d.from >= MinEndpoint
           r == Decoder!Decoded(st, unit, speech, ends)
<1>1. /\ d \in Streams /\ d.upto = unit /\ d.from = st.d.from /\ d.heard = st.d.heard
      /\ d.last = st.d.last /\ d.active = st.d.active /\ d.finished = st.d.finished
  BY DEF Streams
<1>2. Decoder!Text(d, speech) = said /\ said \subseteq speech
  BY <1>1 DEF Decoder!Text, Spoken
<1>3. r = IF ended THEN Decoder!Endpoint(d, st.events, said)
          ELSE IF said # d.last
          THEN [d |-> [d EXCEPT !.last = said, !.active = TRUE],
                events |-> Append(st.events, [kind |-> "partial", text |-> said])]
          ELSE [d |-> d, events |-> st.events]
  BY <1>1, <1>2 DEF Decoder!Decoded, Decoder!Partial
<1>4. Decoder!Endpoint(d, st.events, said) =
        [d |-> [d EXCEPT !.from = unit, !.last = {}, !.active = FALSE],
         events |-> IF d.active \/ said # {}
                    THEN Append(st.events, [kind |-> "final", text |-> said])
                    ELSE st.events]
  BY <1>1 DEF Decoder!Endpoint, Decoder!Final
<1> HIDE DEF d, r, said, ended
<1>5. CASE ended
  <2>1. /\ r.d = [d EXCEPT !.from = unit, !.last = {}, !.active = FALSE]
        /\ r.events = IF d.active \/ said # {}
                      THEN Append(st.events, [kind |-> "final", text |-> said])
                      ELSE st.events
    BY <1>3, <1>4, <1>5
  <2>2. /\ r.d \in Streams /\ r.d.upto = unit /\ r.d.heard = st.d.heard
        /\ r.d.finished = st.d.finished
        /\ r.d.from = unit /\ r.d.last = {} /\ r.d.active = FALSE
    BY <1>1, <2>1 DEF Streams
  <2> QED
    BY <1>1, <1>5, <2>1, <2>2 DEF said, r, ended, Turned
<1>6. CASE ~ended /\ said # d.last
  <2>1. /\ r.d = [d EXCEPT !.last = said, !.active = TRUE]
        /\ r.events = Append(st.events, [kind |-> "partial", text |-> said])
    BY <1>3, <1>6
  <2>2. /\ r.d \in Streams /\ r.d.upto = unit /\ r.d.heard = st.d.heard
        /\ r.d.finished = st.d.finished
        /\ r.d.from = st.d.from /\ r.d.last = said /\ r.d.active = TRUE
    BY <1>1, <1>2, <2>1 DEF Streams
  <2> QED
    BY <1>1, <1>6, <2>1, <2>2 DEF said, r, ended, Turned
<1>7. CASE ~ended /\ said = d.last
  <2>1. r.d = d /\ r.events = st.events
    BY <1>3, <1>7
  <2> QED
    BY <1>1, <1>7, <2>1 DEF said, r, ended, Turned
<1> QED
  BY <1>5, <1>6, <1>7

LEMMA DecodedFeeds ==
    ASSUME NEW d0 \in Streams, NEW st, Fed(d0, st.d, st.events),
           NEW unit \in Nat, unit = st.d.upto + 1, unit <= st.d.heard, NEW ends,
           MinEndpoint \in Nat
    PROVE  LET r == Decoder!Decoded(st, unit, speech, ends)
           IN  Fed(d0, r.d, r.events) /\ r.d.upto = unit
<1> DEFINE r == Decoder!Decoded(st, unit, speech, ends)
           said == Spoken(st.d.from, unit)
           ended == unit \in ends /\ unit - st.d.from >= MinEndpoint
           d == st.d
           ev == st.events
<1>1. /\ Steady(d) /\ d.heard = d0.heard /\ d0.from <= d.from
      /\ ev \in Seq(Raw) /\ Ordered(ev)
      /\ \A i \in DOMAIN ev : ev[i].text \subseteq Spoken(d0.from, d.upto)
      /\ Held(ev) = Spoken(d0.from, d.from)
      /\ Shows(ev, d0.last) = d.last
      /\ (\E i \in DOMAIN ev : ev[i].kind = "final") =>
            d0.from + MinEndpoint <= d0.heard
  BY DEF Fed
<1>2. /\ d \in Streams /\ ~d.finished /\ d.from <= d.upto /\ d.upto <= d.heard
      /\ d.last = Spoken(d.from, d.upto) /\ (d.active <=> d.last # {})
  BY <1>1 DEF Steady
<1>3. /\ d.from \in Nat /\ d.upto \in Nat /\ d.heard \in Nat
      /\ d0.from \in Nat /\ d0.heard \in Nat
  BY <1>2 DEF Streams
<1>4. /\ r.d \in Streams /\ r.d.upto = unit /\ r.d.heard = d.heard /\ ~r.d.finished
      /\ ended =>
            /\ r.d.from = unit /\ r.d.last = {} /\ r.d.active = FALSE
            /\ r.events = IF d.active \/ said # {}
                          THEN Append(ev, [kind |-> "final", text |-> said])
                          ELSE ev
      /\ ~ended /\ said # d.last =>
            /\ r.d.from = d.from /\ r.d.last = said /\ r.d.active = TRUE
            /\ r.events = Append(ev, [kind |-> "partial", text |-> said])
      /\ ~ended /\ said = d.last =>
            /\ r.d.from = d.from /\ r.d.last = d.last
            /\ r.d.active = d.active /\ r.events = ev
  <2>1. Turned(st, unit, ends, r)
    BY <1>2, DecodedFields
  <2> HIDE DEF r
  <2> QED
    BY <1>2, <2>1 DEF Turned
<1>a. said = Spoken(d.from, unit)
  OBVIOUS
<1>5. unit = d.upto + 1 /\ unit <= d.heard
  OBVIOUS
<1>b. ended => unit - d.from >= MinEndpoint
  OBVIOUS
<1> HIDE DEF r, d, ev, said, ended
<1>6. /\ d0.from <= d.from /\ d.from <= unit /\ d.upto <= unit /\ d0.from <= d.upto
      /\ d0.from <= unit
  BY <1>1, <1>2, <1>3, <1>5
<1>7. /\ Spoken(d0.from, d.from) \union said = Spoken(d0.from, unit)
      /\ said \subseteq Spoken(d0.from, unit) /\ said \subseteq speech
      /\ Spoken(d0.from, d.upto) \subseteq Spoken(d0.from, unit)
      /\ \A u \in Spoken(d0.from, d.from), v \in said : u < v
      /\ Spoken(d.from, d.upto) \subseteq said
      /\ Spoken(unit, unit) = {}
      /\ Spoken(d0.from, d.upto) \subseteq speech
  <2>1. /\ Spoken(d0.from, d.from) \union said = Spoken(d0.from, unit)
        /\ said \subseteq Spoken(d0.from, unit) /\ said \subseteq speech
        /\ \A u \in Spoken(d0.from, d.from), v \in said : u < v
    BY <1>3, <1>6, <1>a DEF Spoken
  <2>2. /\ Spoken(d0.from, d.upto) \subseteq Spoken(d0.from, unit)
        /\ Spoken(d0.from, d.upto) \subseteq speech
    BY <1>3, <1>6, SpokenFacts
  <2>3. Spoken(d.from, d.upto) \subseteq said
    BY <1>2, <1>3, <1>5, <1>6, <1>a DEF Spoken
  <2>4. Spoken(unit, unit) = {}
    BY SpokenFacts
  <2> QED
    BY <2>1, <2>2, <2>3, <2>4
<1>8. \A i \in DOMAIN ev : /\ ev[i].text \subseteq Spoken(d0.from, unit)
                           /\ ev[i].text \subseteq speech
  BY <1>1, <1>7
<1>9. ASSUME NEW kind \in {"partial", "final"}
      PROVE  LET e == [kind |-> kind, text |-> said]
             IN  /\ Append(ev, e) \in Seq(Raw) /\ Ordered(Append(ev, e))
                 /\ Held(Append(ev, e)) =
                      Held(ev) \union (IF kind = "final" THEN said ELSE {})
                 /\ Shows(Append(ev, e), d0.last) = IF kind = "final" THEN {} ELSE said
                 /\ \A i \in DOMAIN Append(ev, e) :
                      Append(ev, e)[i].text \subseteq Spoken(d0.from, unit)
                 /\ (\E i \in DOMAIN Append(ev, e) : Append(ev, e)[i].kind = "final") =>
                      kind = "final" \/ \E i \in DOMAIN ev : ev[i].kind = "final"
  <2> DEFINE e == [kind |-> kind, text |-> said]
  <2>1. e \in Raw /\ e.text = said /\ e.kind = kind
    BY <1>7 DEF Raw
  <2> HIDE DEF e
  <2>2. \A u \in Held(ev), v \in e.text : u < v
    <3>1. Held(ev) = Spoken(d0.from, d.from)
      BY <1>1
    <3>2. \A u \in Spoken(d0.from, d.from), v \in said : u < v
      BY <1>7
    <3> QED
      BY <2>1, <3>1, <3>2
  <2>3. /\ Append(ev, e) \in Seq(Raw) /\ Ordered(Append(ev, e))
        /\ Held(Append(ev, e)) = Held(ev) \union (IF e.kind = "final" THEN e.text ELSE {})
        /\ \A last : Shows(Append(ev, e), last) = IF e.kind = "final" THEN {} ELSE e.text
        /\ \A i \in DOMAIN Append(ev, e) :
             Append(ev, e)[i] = e \/ (i \in DOMAIN ev /\ Append(ev, e)[i] = ev[i])
    <3>1. e.text \subseteq speech
      BY <1>7, <2>1
    <3> QED
      BY <1>1, <1>8, <2>1, <2>2, <3>1, OneMore
  <2>4. \A i \in DOMAIN Append(ev, e) :
             Append(ev, e)[i].text \subseteq Spoken(d0.from, unit)
    BY <1>7, <1>8, <2>1, <2>3
  <2>5. (\E i \in DOMAIN Append(ev, e) : Append(ev, e)[i].kind = "final") =>
          kind = "final" \/ \E i \in DOMAIN ev : ev[i].kind = "final"
    BY <2>1, <2>3
  <2> QED
    BY <2>1, <2>3, <2>4, <2>5 DEF e
<1>10. CASE ended
  <2>1. /\ r.d.from = unit /\ r.d.last = {} /\ ~r.d.active
        /\ r.events = IF d.active \/ said # {}
                      THEN Append(ev, [kind |-> "final", text |-> said])
                      ELSE ev
    BY <1>4, <1>10
  <2>2. Steady(r.d)
    BY <1>3, <1>4, <1>5, <1>7, <2>1 DEF Steady
  <2>3. d0.from + MinEndpoint <= d0.heard
    <3>1. unit - d.from >= MinEndpoint
      BY <1>10, <1>b
    <3> QED
      BY <1>1, <1>3, <1>5, <3>1, SMTT(40)
  <2>4. CASE d.active \/ said # {}
    <3> DEFINE after == Append(ev, [kind |-> "final", text |-> said])
    <3>1. r.events = after
      BY <2>1, <2>4
    <3>2. /\ after \in Seq(Raw) /\ Ordered(after) /\ Held(after) = Held(ev) \union said
          /\ Shows(after, d0.last) = {}
          /\ \A i \in DOMAIN after : after[i].text \subseteq Spoken(d0.from, unit)
      BY <1>9
    <3> HIDE DEF after
    <3>3. Held(after) = Spoken(d0.from, unit)
      BY <1>1, <1>7, <3>2
    <3>4. d0.from <= r.d.from /\ r.d.upto = unit /\ r.d.heard = d0.heard
      BY <1>1, <1>4, <1>6, <2>1, SMTT(40)
    <3> QED
      BY <2>1, <2>2, <2>3, <3>1, <3>2, <3>3, <3>4 DEF Fed, r
  <2>5. CASE ~(d.active \/ said # {})
    <3>1. r.events = ev /\ said = {} /\ d.last = {}
      BY <1>2, <2>1, <2>5
    <3>2. Held(ev) = Spoken(d0.from, unit)
      BY <1>1, <1>7, <3>1
    <3>3. d0.from <= r.d.from /\ r.d.upto = unit /\ r.d.heard = d0.heard
      BY <1>1, <1>4, <1>6, <2>1
    <3>4. ev \in Seq(Raw) /\ Ordered(ev) /\ Shows(ev, d0.last) = {}
      BY <1>1, <3>1, SMTT(40)
    <3> QED
      BY <1>8, <2>1, <2>2, <2>3, <3>1, <3>2, <3>3, <3>4 DEF Fed, r
  <2> QED
    BY <2>4, <2>5 DEF r
<1>11. CASE ~ended /\ said # d.last
  <2>1. /\ r.d.from = d.from /\ r.d.last = said /\ r.d.active
        /\ r.events = Append(ev, [kind |-> "partial", text |-> said])
    BY <1>4, <1>11
  <2>2. said # {}
    BY <1>2, <1>7, <1>11
  <2>4. Steady(r.d)
    BY <1>3, <1>4, <1>5, <1>6, <2>1, <2>2, <1>a DEF Steady
  <2> DEFINE after == Append(ev, [kind |-> "partial", text |-> said])
  <2>5. r.events = after
    BY <2>1
  <2>6. /\ after \in Seq(Raw) /\ Ordered(after) /\ Held(after) = Held(ev)
        /\ Shows(after, d0.last) = said
        /\ \A i \in DOMAIN after : after[i].text \subseteq Spoken(d0.from, unit)
        /\ (\E i \in DOMAIN after : after[i].kind = "final") =>
              \E i \in DOMAIN ev : ev[i].kind = "final"
    BY <1>9
  <2> HIDE DEF after
  <2>7. Held(after) = Spoken(d0.from, d.from)
    BY <1>1, <2>6
  <2>8. d0.from <= r.d.from /\ r.d.upto = unit /\ r.d.heard = d0.heard
    BY <1>1, <1>4, <1>6, <2>1
  <2>9. (\E i \in DOMAIN after : after[i].kind = "final") => d0.from + MinEndpoint <= d0.heard
    BY <1>1, <2>6
  <2> QED
    BY <2>1, <2>4, <2>5, <2>6, <2>7, <2>8, <2>9 DEF Fed, r
<1>12. CASE ~ended /\ said = d.last
  <2>1. /\ r.d.from = d.from /\ r.d.last = d.last /\ r.d.active = d.active
        /\ r.events = ev
    BY <1>4, <1>12
  <2>4. Steady(r.d)
    BY <1>2, <1>3, <1>4, <1>5, <1>6, <1>12, <2>1, <1>a DEF Steady
  <2> QED
    BY <1>1, <1>4, <1>6, <1>8, <2>1, <2>4 DEF Fed, r
<1> QED
  BY <1>10, <1>11, <1>12 DEF r

\* What accept() of the streaming decoder returns is an account of the audio.
LEMMA AcceptedFeeds ==
    ASSUME NEW d0, Steady(d0), NEW units \in Nat, NEW ends,
           Lookahead \in Nat, MinEndpoint \in Nat
    PROVE  LET r == Decoder!Accepted(d0, units, speech, ends)
           IN  Fed([d0 EXCEPT !.heard = @ + units], r.d, r.events)
<1> DEFINE d1 == [d0 EXCEPT !.heard = @ + units]
           base == [d |-> d1, events |-> <<>>]
           s == Decoder!Positions(d1)
           r == Decoder!Accepted(d0, units, speech, ends)
           n == IF d1.heard - Lookahead - d1.upto > 0 THEN d1.heard - Lookahead - d1.upto ELSE 0
<1>1. /\ d0 \in Streams /\ ~d0.finished /\ d0.from <= d0.upto /\ d0.upto <= d0.heard
      /\ d0.last = Spoken(d0.from, d0.upto) /\ (d0.active <=> d0.last # {})
  BY DEF Steady
<1>2. /\ d1 \in Streams /\ ~d1.finished /\ d1.from = d0.from /\ d1.upto = d0.upto
      /\ d1.heard = d0.heard + units /\ d1.last = d0.last /\ d1.active = d0.active
      /\ d1.from \in Nat /\ d1.upto \in Nat /\ d1.heard \in Nat /\ d0.heard \in Nat
  BY <1>1 DEF Streams
<1>3. r = UnitsTaken(base, s, ends)
  BY DEF Decoder!Accepted, UnitsTaken
<1>4. n \in Nat /\ DOMAIN s = 1 .. n /\ (\A i \in 1 .. n : s[i] = d1.upto + i)
      /\ d1.upto + n <= d1.heard
  <2>1. s = [i \in 1 .. d1.heard - Lookahead - d1.upto |-> d1.upto + i]
    BY DEF Decoder!Positions
  <2> DEFINE k == d1.heard - Lookahead - d1.upto
  <2>2. k \in Int /\ d1.upto <= d1.heard
    BY <1>1, <1>2
  <2>a. Lookahead \in Nat /\ d1.upto \in Nat /\ d1.heard \in Nat
    BY <1>2
  <2>b. n = IF k > 0 THEN k ELSE 0
    OBVIOUS
  <2>c. k = d1.heard - Lookahead - d1.upto
    OBVIOUS
  <2> HIDE DEF d1, s, n, k
  <2>3. n \in Nat /\ 1 .. n = 1 .. k /\ d1.upto + n <= d1.heard
    <3>1. n \in Nat /\ d1.upto + n <= d1.heard
      BY <2>2, <2>a, <2>b, <2>c
    <3>2. 1 .. n = 1 .. k
      BY <2>2, <2>b
    <3> QED
      BY <3>1, <3>2
  <2> QED
    BY <2>1, <2>3, <2>c
<1>5. Fed(d1, d1, <<>>)
  <2>1. Steady(d1)
    BY <1>1, <1>2 DEF Steady
  <2>2. Spoken(d1.from, d1.from) = {}
    BY <1>2, SpokenFacts
  <2> HIDE DEF d1
  <2> QED
    BY <1>2, <2>1, <2>2, NoEvents DEF Fed
<1>6. base.d = d1 /\ base.events = <<>>
  OBVIOUS
<1> HIDE DEF d1, base, s, n, r
<1>7. PICK h : IsTurns("unit", base, s, ends, {}, n, h)
               /\ h[n] = Folded("unit", base, s, ends, {}, n)[1 .. n]
  BY <1>4, FoldTurns
<1>8. r = h[n]
  BY <1>3, <1>4, <1>7, UnitsFold
<1> DEFINE Good(m) == Fed(d1, h[m].d, h[m].events) /\ h[m].d.upto = d1.upto + m
           S == {m \in Nat : m <= n => Good(m)}
<1>9. 0 \in S
  BY <1>2, <1>5, <1>6, <1>7 DEF IsTurns
<1>10. ASSUME NEW m \in Nat, m \in S
       PROVE  m + 1 \in S
  <2> SUFFICES ASSUME m + 1 <= n
               PROVE  Good(m + 1)
    OBVIOUS
  <2>1. Good(m) /\ m \in 0 .. n
    BY <1>4, <1>10
  <2>2. h[m + 1] = Decoder!Decoded(h[m], s[m + 1], speech, ends)
    BY <1>7, <2>1 DEF IsTurns, Turn
  <2>3. /\ s[m + 1] = d1.upto + (m + 1) /\ s[m + 1] \in Nat
        /\ s[m + 1] = h[m].d.upto + 1 /\ s[m + 1] <= d1.heard
    <3>1. m + 1 \in 1 .. n
      BY <1>4
    <3>2. s[m + 1] = d1.upto + (m + 1)
      BY <1>4, <3>1
    <3>3. h[m].d.upto = d1.upto + m
      BY <2>1
    <3>4. d1.upto \in Nat /\ d1.heard \in Nat /\ n \in Nat /\ d1.upto + n <= d1.heard
      BY <1>2, <1>4
    <3> HIDE DEF Good
    <3> QED
      BY <3>2, <3>3, <3>4
  <2>4. s[m + 1] <= h[m].d.heard
    BY <2>1, <2>3 DEF Fed
  <2>5. LET q == Decoder!Decoded(h[m], s[m + 1], speech, ends)
        IN  Fed(d1, q.d, q.events) /\ q.d.upto = s[m + 1]
    BY <1>2, <2>1, <2>3, <2>4, DecodedFeeds
  <2> QED
    BY <2>2, <2>3, <2>5
<1> HIDE DEF S
<1>11. Nat \subseteq S
  BY <1>9, <1>10, Counting
<1>12. Good(n)
  BY <1>4, <1>11 DEF S
<1> QED
  BY <1>8, <1>12 DEF r, d1

(***************************************************************************)
(* The refining decoder: what it has accounted for                         *)
(***************************************************************************)
Decs == [preview : Streams, pcm : Nat, draft : SUBSET speech,
         refining : BOOLEAN, finished : BOOLEAN]

Events == [kind : {"partial", "final"}, text : SUBSET speech,
           model : {"preview", "correction"}, ct : Nat]

\* The finals hold the speech up to here: to the retained audio, or to the
\* segment of the stream in plain streaming.
Base(d) == IF d.refining THEN d.preview.heard - d.pcm ELSE d.preview.from

PunctuatedBy(e) == e.kind = "final" => e.ct = IF e.model = "preview" THEN 1 ELSE 0

Once(ev) == \A i \in DOMAIN ev : PunctuatedBy(ev[i])

Listening(d) ==
    /\ d \in Decs /\ ~d.finished /\ Steady(d.preview)
    /\ d.pcm <= d.preview.heard /\ (~d.refining => d.pcm = 0)
    /\ d.refining =>
         /\ mode = "refined" /\ d.draft = d.preview.last
         /\ d.preview.heard - d.pcm <= d.preview.from
         /\ Spoken(d.preview.heard - d.pcm, d.preview.from) = {}

Account(ev, upto, shown) ==
    /\ ev \in Seq(Events) /\ Ordered(ev) /\ Once(ev)
    /\ Held(ev) = Spoken(0, upto) /\ Shows(ev, {}) = shown

Good(d, ev) == Listening(d) /\ Account(ev, Base(d), d.preview.last)

LEMMA Alike ==
    ASSUME NEW E, NEW F, NEW a \in Seq(E), NEW b \in Seq(F), Len(a) = Len(b),
           \A i \in DOMAIN a : b[i].kind = a[i].kind /\ b[i].text = a[i].text
    PROVE  /\ DOMAIN b = DOMAIN a /\ (Ordered(a) => Ordered(b)) /\ Held(b) = Held(a)
           /\ \A last : Shows(b, last) = Shows(a, last)
<1>1. DOMAIN a = 1 .. Len(a) /\ DOMAIN b = DOMAIN a /\ Len(a) \in Nat
  OBVIOUS
<1>2. Ordered(a) => Ordered(b)
  BY <1>1 DEF Ordered
<1>3. Held(b) = Held(a)
  BY <1>1 DEF Held
<1>4. ASSUME NEW last
      PROVE  Shows(b, last) = Shows(a, last)
  <2>1. CASE Len(a) = 0
    <3>1. a = <<>>
      BY <2>1
    <3>2. Len(b) = 0
      BY <2>1
    <3>3. b = <<>>
      BY <3>2
    <3> QED
      BY <3>1, <3>3 DEF Shows
  <2>2. CASE Len(a) # 0
    <3>1. a # <<>> /\ b # <<>> /\ Len(a) \in DOMAIN a
      BY <2>2
    <3> QED
      BY <1>1, <3>1 DEF Shows
  <2> QED
    BY <2>1, <2>2
<1> QED
  BY <1>1, <1>2, <1>3, <1>4

\* Events of the preview as they are handed on.
LEMMA FallbackIs ==
    ASSUME NEW e \in Raw
    PROVE  LET x == Decoder!Fallback(e)
           IN  /\ x \in Events /\ x.kind = e.kind /\ x.text = e.text /\ x.model = "preview"
               /\ PunctuatedBy(x)
<1> DEFINE n == Decoder!FallbackCt + Decoder!SessionCt
           x == Decoder!Fallback(e)
<1>1. n = 1
  BY DEF Decoder!FallbackCt, Decoder!SessionCt
<1>2. x = [kind |-> e.kind, text |-> e.text, model |-> "preview",
           ct |-> IF e.kind = "final" THEN n ELSE 0]
  BY DEF Decoder!Fallback, Decoder!Shown
<1> HIDE DEF n, x
<1>3. e.kind \in {"partial", "final"} /\ e.text \in SUBSET speech
  BY DEF Raw
<1>4. x \in Events
  BY <1>1, <1>2, <1>3 DEF Events
<1> QED
  BY <1>1, <1>2, <1>4 DEF x, PunctuatedBy

LEMMA ShownIs ==
    ASSUME NEW e \in Raw, e.kind = "partial"
    PROVE  Decoder!Shown(e) = Decoder!Fallback(e)
BY DEF Decoder!Shown, Decoder!Fallback

LEMMA FallbackEventsAre ==
    ASSUME NEW ev \in Seq(Raw)
    PROVE  LET w == Decoder!FallbackEvents(ev)
           IN  /\ w \in Seq(Events) /\ Len(w) = Len(ev) /\ DOMAIN w = DOMAIN ev
               /\ (Ordered(ev) => Ordered(w)) /\ Held(w) = Held(ev) /\ Once(w)
               /\ \A last : Shows(w, last) = Shows(ev, last)
               /\ \A i \in DOMAIN ev : w[i] = Decoder!Fallback(ev[i]) /\ w[i].text = ev[i].text
<1> DEFINE w == Decoder!FallbackEvents(ev)
<1>1. w = [i \in DOMAIN ev |-> Decoder!Fallback(ev[i])]
  BY DEF Decoder!FallbackEvents
<1>2. DOMAIN ev = 1 .. Len(ev) /\ Len(ev) \in Nat /\ \A i \in DOMAIN ev : ev[i] \in Raw
  OBVIOUS
<1> HIDE DEF w
<1>3. ASSUME NEW i \in DOMAIN ev
      PROVE  /\ w[i] \in Events /\ w[i].kind = ev[i].kind /\ w[i].text = ev[i].text
             /\ PunctuatedBy(w[i]) /\ w[i] = Decoder!Fallback(ev[i])
  <2>1. w[i] = Decoder!Fallback(ev[i])
    BY <1>1
  <2> QED
    BY <1>2, <2>1, FallbackIs
<1>4. w \in [1 .. Len(ev) -> Events]
  BY <1>1, <1>2, <1>3
<1>5. w \in Seq(Events) /\ Len(w) = Len(ev) /\ DOMAIN w = DOMAIN ev
  BY <1>2, <1>4
<1>6. (Ordered(ev) => Ordered(w)) /\ Held(w) = Held(ev)
      /\ \A last : Shows(w, last) = Shows(ev, last)
  BY <1>3, <1>5, Alike
<1>7. Once(w)
  BY <1>3, <1>5 DEF Once
<1> QED
  BY <1>3, <1>5, <1>6, <1>7 DEF w

(***************************************************************************)
(* A correction                                                            *)
(***************************************************************************)
\* What _correct() answers, field by field.
Answered(d, ev, bad, r) ==
    LET e == Decoder!Correction(d, bad)
    IN  /\ r = [d |-> r.d, events |-> Append(ev, e)]
        /\ r.d \in Decs /\ r.d.pcm = 0 /\ r.d.preview = d.preview /\ r.d.draft = d.draft
        /\ r.d.finished = d.finished /\ r.d.refining = ~Decoder!Fails(d, bad)
        /\ e \in Events /\ e.kind = "final" /\ PunctuatedBy(e)
        /\ Decoder!Prepared(d) <=>
             d.pcm >= MinPcm /\ Spoken(d.preview.heard - d.pcm, d.preview.heard) # {}
        /\ Decoder!Fails(d, bad) => Decoder!Prepared(d)
        /\ e.text = IF Decoder!Prepared(d) /\ ~Decoder!Fails(d, bad)
                    THEN Spoken(d.preview.heard - d.pcm, d.preview.heard) ELSE d.draft
        /\ ~(Decoder!Prepared(d) /\ ~Decoder!Fails(d, bad)) =>
             e = Decoder!Fallback([kind |-> "final", text |-> d.draft])

LEMMA Negation ==
    ASSUME NEW flag
    PROVE  (~flag) \in BOOLEAN
OBVIOUS

LEMMA Emptied ==
    ASSUME NEW d \in Decs, NEW flag \in BOOLEAN
    PROVE  LET r == [d EXCEPT !.pcm = 0, !.refining = flag]
           IN  /\ r \in Decs /\ r.preview = d.preview /\ r.pcm = 0 /\ r.draft = d.draft
               /\ r.refining = flag /\ r.finished = d.finished
BY DEF Decs

LEMMA CorrectAnswers ==
    ASSUME mode = "refined", NEW d \in Decs, NEW ev \in Seq(Events), NEW bad
    PROVE  Answered(d, ev, bad, Decoder!Correct([d |-> d, events |-> ev], bad))
<1> DEFINE e == Decoder!Correction(d, bad)
           fails == Decoder!Fails(d, bad)
           prepared == Decoder!Prepared(d)
           r == Decoder!Correct([d |-> d, events |-> ev], bad)
           all == Spoken(d.preview.heard - d.pcm, d.preview.heard)
<1>1. r = [d |-> [d EXCEPT !.pcm = 0, !.refining = ~fails], events |-> Append(ev, e)]
  BY DEF Decoder!Correct
<1>2. fails \in BOOLEAN /\ (fails => prepared)
  BY DEF Decoder!Fails
<1>3. prepared <=> d.pcm >= MinPcm /\ all # {}
  BY DEF Decoder!Prepared, Decoder!Retained, Spoken
<1>4. Decoder!Retained(d) = all /\ all \in SUBSET speech
  BY DEF Decoder!Retained, Spoken
<1>5. Decoder!SessionCt = 0
  BY DEF Decoder!SessionCt
<1>6. e = IF prepared /\ ~fails
          THEN [kind |-> "final", text |-> all, model |-> "correction", ct |-> 0]
          ELSE Decoder!Fallback([kind |-> "final", text |-> d.draft])
  BY <1>4, <1>5 DEF Decoder!Correction, Decoder!Corrected, Decoder!Final
<1>7. d.draft \in SUBSET speech
  BY DEF Decs
<1>8. [kind |-> "final", text |-> d.draft] \in Raw
  BY <1>7 DEF Raw
<1> HIDE DEF e, fails, prepared, all, r
<1>11. (~fails) \in BOOLEAN
  BY Negation
<1>12. r.d = [d EXCEPT !.pcm = 0, !.refining = ~fails] /\ r.events = Append(ev, e)
       /\ r = [d |-> r.d, events |-> Append(ev, e)]
  BY <1>1
<1>13. /\ r.d \in Decs /\ r.d.pcm = 0 /\ r.d.preview = d.preview /\ r.d.draft = d.draft
       /\ r.d.finished = d.finished /\ r.d.refining = ~fails
  BY <1>11, <1>12, Emptied, ZenonT(60)
<1>9. CASE prepared /\ ~fails
  <2>1. e = [kind |-> "final", text |-> all, model |-> "correction", ct |-> 0]
    BY <1>6, <1>9
  <2>2. e \in Events /\ e.kind = "final" /\ PunctuatedBy(e) /\ e.text = all
    BY <1>4, <2>1 DEF Events, PunctuatedBy
  <2> QED
    BY <1>2, <1>3, <1>9, <1>12, <1>13, <2>2 DEF Answered, e, fails, prepared, all, r
<1>10. CASE ~(prepared /\ ~fails)
  <2>1. e = Decoder!Fallback([kind |-> "final", text |-> d.draft])
    BY <1>6, <1>10
  <2>2. e \in Events /\ e.kind = "final" /\ PunctuatedBy(e) /\ e.text = d.draft
    BY <1>8, <2>1, FallbackIs
  <2> QED
    BY <1>2, <1>3, <1>10, <1>12, <1>13, <2>1, <2>2 DEF Answered, e, fails, prepared, all, r
<1> QED
  BY <1>9, <1>10

LEMMA OnceConcat ==
    ASSUME NEW a \in Seq(Events), NEW b \in Seq(Events), Once(a), Once(b)
    PROVE  Once(a \o b)
<1>1. /\ DOMAIN a = 1 .. Len(a) /\ DOMAIN b = 1 .. Len(b)
      /\ Len(a) \in Nat /\ Len(b) \in Nat
      /\ DOMAIN (a \o b) = 1 .. Len(a) + Len(b)
      /\ \A i \in DOMAIN (a \o b) :
           (a \o b)[i] = IF i <= Len(a) THEN a[i] ELSE b[i - Len(a)]
  BY ConcatAt
<1> DEFINE c == a \o b
<1> HIDE DEF c
<1>2. ASSUME NEW i \in DOMAIN c
      PROVE  PunctuatedBy(c[i])
  <2>1. i \in 1 .. Len(a) + Len(b) /\ c[i] = IF i <= Len(a) THEN a[i] ELSE b[i - Len(a)]
    BY <1>1 DEF c
  <2>2. CASE i <= Len(a)
    <3>1. i \in DOMAIN a
      BY <1>1, <2>1, <2>2
    <3> QED
      BY <2>1, <2>2, <3>1 DEF Once
  <2>3. CASE ~(i <= Len(a))
    <3>1. i - Len(a) \in DOMAIN b
      BY <1>1, <2>1, <2>3
    <3> QED
      BY <2>1, <2>3, <3>1 DEF Once
  <2> QED
    BY <2>2, <2>3
<1> QED
  BY <1>2 DEF Once, c

LEMMA TextsSpoken ==
    ASSUME NEW a \in Seq(Events)
    PROVE  \A i \in DOMAIN a : a[i].text \subseteq speech
<1> SUFFICES ASSUME NEW i \in DOMAIN a
             PROVE  a[i].text \subseteq speech
  OBVIOUS
<1>1. a[i] \in Events
  OBVIOUS
<1> QED
  BY <1>1 DEF Events

\* Drafts and finals after the audio that is already held.
Continued(lo, shown, b, c) ==
    /\ c \in Seq(Events) /\ Ordered(c) /\ Once(c)
    /\ Held(c) = Spoken(0, lo) \union Held(b) /\ Shows(c, {}) = Shows(b, shown)

LEMMA AccountConcat ==
    ASSUME NEW lo \in Nat, NEW from \in Nat, NEW shown, NEW a, Account(a, lo, shown),
           lo <= from,
           NEW b \in Seq(Events), Ordered(b), Once(b),
           NEW top \in Nat, \A i \in DOMAIN b : b[i].text \subseteq Spoken(from, top)
    PROVE  Continued(lo, shown, b, a \o b)
<1>1. /\ a \in Seq(Events) /\ Ordered(a) /\ Once(a)
      /\ Held(a) = Spoken(0, lo) /\ Shows(a, {}) = shown
  BY DEF Account
<1>2. \A u \in Spoken(0, lo), v \in Spoken(from, top) : u < v
  BY DEF Spoken
<1>3. \A i \in DOMAIN b : \A u \in Held(a), v \in b[i].text : u < v
  BY <1>1, <1>2
<1>4. \A i \in DOMAIN a : a[i].text \subseteq speech
  BY <1>1, TextsSpoken
<1>5. /\ Ordered(a \o b) /\ Held(a \o b) = Held(a) \union Held(b)
      /\ \A last : Shows(a \o b, last) = Shows(b, Shows(a, last))
  BY <1>1, <1>3, <1>4, Extended
<1>6. a \o b \in Seq(Events)
  BY <1>1
<1>7. Once(a \o b)
  BY <1>1, OnceConcat
<1> QED
  BY <1>1, <1>5, <1>6, <1>7 DEF Continued

\* Everything the preview said since is handed on.
LEMMA Onward ==
    ASSUME NEW p, NEW units \in Nat, Steady(p), NEW n, NEW pending,
           Fed([p EXCEPT !.heard = @ + units], n, pending),
           NEW lo \in Nat, lo <= p.from, Spoken(lo, p.from) = {},
           NEW ev, Account(ev, lo, p.last)
    PROVE  Account(ev \o Decoder!FallbackEvents(pending), n.from, n.last)
<1> DEFINE w == Decoder!FallbackEvents(pending)
           q == [p EXCEPT !.heard = @ + units]
           from == p.from
           top == n.upto
           shown == p.last
<1>1. p \in Streams /\ q.from = p.from /\ q.last = p.last /\ p.from \in Nat
  BY DEF Steady, Streams
<1> HIDE DEF q
<1>2. /\ Steady(n) /\ q.from <= n.from /\ pending \in Seq(Raw) /\ Ordered(pending)
      /\ \A i \in DOMAIN pending : pending[i].text \subseteq Spoken(q.from, n.upto)
      /\ Held(pending) = Spoken(q.from, n.from)
      /\ Shows(pending, q.last) = n.last
  BY DEF Fed, q
<1>3. n.from \in Nat /\ n.upto \in Nat
  BY <1>2 DEF Steady, Streams
<1>4. /\ w \in Seq(Events) /\ Len(w) = Len(pending) /\ DOMAIN w = DOMAIN pending
      /\ Ordered(w) /\ Held(w) = Held(pending) /\ Once(w)
      /\ \A last : Shows(w, last) = Shows(pending, last)
      /\ \A i \in DOMAIN pending : w[i].text = pending[i].text
  BY <1>2, FallbackEventsAre
<1> HIDE DEF w
<1>5. \A i \in DOMAIN w : w[i].text \subseteq Spoken(p.from, n.upto)
  BY <1>1, <1>2, <1>4
<1>a. lo <= p.from /\ p.from \in Nat /\ n.upto \in Nat /\ lo \in Nat
  BY <1>1, <1>3
<1>b. /\ Account(ev, lo, shown) /\ lo <= from /\ from \in Nat /\ top \in Nat
      /\ \A i \in DOMAIN w : w[i].text \subseteq Spoken(from, top)
  BY <1>5, <1>a
<1> HIDE DEF from, top, shown
<1>c. Continued(lo, shown, w, ev \o w)
  BY <1>4, <1>b, AccountConcat
<1>6. /\ ev \o w \in Seq(Events) /\ Ordered(ev \o w) /\ Once(ev \o w)
      /\ Held(ev \o w) = Spoken(0, lo) \union Held(w)
      /\ Shows(ev \o w, {}) = Shows(w, p.last)
  BY <1>c DEF shown, Continued
<1>7. Spoken(0, lo) \union Spoken(p.from, n.from) = Spoken(0, n.from)
  <2>1. 0 <= lo /\ lo <= p.from /\ p.from <= n.from
    BY <1>1, <1>2
  <2>2. Spoken(0, lo) \union Spoken(lo, p.from) = Spoken(0, p.from)
    BY <1>a, <2>1 DEF Spoken
  <2>3. Spoken(0, p.from) \union Spoken(p.from, n.from) = Spoken(0, n.from)
    BY <1>1, <1>3, <2>1, SpokenFacts
  <2> QED
    BY <2>2, <2>3
<1> QED
  BY <1>1, <1>2, <1>4, <1>6, <1>7 DEF Account, w

(***************************************************************************)
(* The end of a segment                                                    *)
(***************************************************************************)
LEMMA DrainedIs ==
    ASSUME NEW d, Listening(d), d.refining
    PROVE  LET x == Decoder!Drained(d)
           IN  /\ x \in Decs /\ x.pcm = d.pcm /\ x.refining = d.refining
               /\ x.finished = d.finished /\ x.preview.heard = d.preview.heard
               /\ x.draft = Spoken(d.preview.heard - d.pcm, d.preview.heard)
<1> DEFINE p == d.preview
           lo == p.heard - d.pcm
           all == Spoken(p.from, p.heard)
           end == Decoder!Finished(p, speech)
           draft == Decoder!LastText(end.events, d.draft)
           x == Decoder!Drained(d)
<1>1. /\ d \in Decs /\ ~d.finished /\ d.pcm <= p.heard /\ d.draft = p.last
      /\ lo <= p.from /\ Spoken(lo, p.from) = {}
      /\ p \in Streams /\ ~p.finished /\ p.from <= p.upto /\ p.upto <= p.heard
      /\ p.last = Spoken(p.from, p.upto) /\ (p.active <=> p.last # {})
  BY DEF Listening, Steady
<1>2. p.from \in Nat /\ p.upto \in Nat /\ p.heard \in Nat /\ d.pcm \in Nat /\ lo \in Nat
  BY <1>1 DEF Streams, Decs
<1>3. Decoder!Flushed(p, speech) = all /\ all \in SUBSET speech
  BY <1>1 DEF Decoder!Flushed, Decoder!Text, Spoken, Streams
<1>4. end.d = [p EXCEPT !.upto = p.heard, !.from = p.heard, !.last = {},
                        !.active = FALSE, !.finished = TRUE]
      /\ end.events = IF p.active \/ all # {}
                      THEN <<[kind |-> "final", text |-> all]>> ELSE <<>>
  BY <1>1, <1>3 DEF Decoder!Finished, Decoder!Final
<1>5. end.d \in Streams /\ end.d.heard = p.heard
  BY <1>1, <1>4 DEF Streams
<1>6. x = [d EXCEPT !.preview = end.d, !.draft = draft]
  BY DEF Decoder!Drained
<1>7. draft = all
  <2>1. CASE p.active \/ all # {}
    <3>1. end.events = <<[kind |-> "final", text |-> all]>>
      BY <1>4, <2>1
    <3> HIDE DEF end, all
    <3> QED
      BY <3>1 DEF Decoder!LastText, Decoder!Last
  <2>2. CASE ~(p.active \/ all # {})
    <3>1. end.events = <<>> /\ all = {} /\ p.last = {}
      BY <1>1, <1>4, <2>2
    <3> HIDE DEF end, all
    <3> QED
      BY <1>1, <3>1 DEF Decoder!LastText
  <2> QED
    BY <2>1, <2>2
<1>8. all = Spoken(lo, p.heard)
  <2>1. lo <= p.from /\ p.from <= p.heard
    BY <1>1, <1>2
  <2>2. Spoken(lo, p.from) \union Spoken(p.from, p.heard) = Spoken(lo, p.heard)
    BY <1>2, <2>1, SpokenFacts
  <2> QED
    BY <1>1, <2>2
<1> HIDE DEF x, draft, end, all
<1>9. /\ x \in Decs /\ x.pcm = d.pcm /\ x.refining = d.refining
      /\ x.finished = d.finished /\ x.preview = end.d /\ x.draft = draft
  BY <1>1, <1>3, <1>5, <1>6, <1>7 DEF Decs
<1> QED
  BY <1>5, <1>7, <1>8, <1>9 DEF x

Ended(d, c) ==
    /\ c = [d |-> c.d, events |-> c.events]
    /\ c.d \in Decs /\ ~c.d.finished /\ c.d.pcm = 0 /\ c.d.preview = d.preview
    /\ Account(c.events, d.preview.heard, {})

\* The final of a segment that ends here, and of which nothing is final yet.
LEMMA SegmentEnds ==
    ASSUME mode = "refined", NEW d \in Decs, ~d.finished, NEW lo \in Nat,
           lo <= d.preview.heard, lo = d.preview.heard - d.pcm,
           NEW ev, NEW shown, Account(ev, lo, shown), NEW bad,
           \/ d.draft = Spoken(lo, d.preview.heard)
           \/ Decoder!Prepared(d) /\ ~Decoder!Fails(d, bad)
    PROVE  Ended(d, Decoder!Correct([d |-> d, events |-> ev], bad))
<1> DEFINE c == Decoder!Correct([d |-> d, events |-> ev], bad)
           e == Decoder!Correction(d, bad)
           h == d.preview.heard
<1>1. /\ ev \in Seq(Events) /\ Ordered(ev) /\ Once(ev) /\ Held(ev) = Spoken(0, lo)
  BY DEF Account
<1>2. h \in Nat
  BY DEF Decs, Streams
<1>3. Answered(d, ev, bad, c)
  BY <1>1, CorrectAnswers
<1> HIDE DEF c
<1> HIDE DEF e
<1> HIDE DEF h
<1>4. /\ c = [d |-> c.d, events |-> Append(ev, e)]
      /\ c.d \in Decs /\ c.d.pcm = 0 /\ c.d.preview = d.preview
      /\ c.d.finished = d.finished
      /\ e \in Events /\ e.kind = "final" /\ PunctuatedBy(e)
      /\ e.text = IF Decoder!Prepared(d) /\ ~Decoder!Fails(d, bad)
                  THEN Spoken(lo, h) ELSE d.draft
  BY <1>3 DEF Answered, e, h
<1>5. c.events = Append(ev, e)
  BY <1>4
<1>6. e.text = Spoken(lo, h)
  BY <1>4 DEF h
<1>7. lo <= h /\ 0 <= lo
  BY DEF h
<1>8. /\ Spoken(0, lo) \union Spoken(lo, h) = Spoken(0, h) /\ Spoken(lo, h) \subseteq speech
      /\ \A u \in Spoken(0, lo), v \in Spoken(lo, h) : u < v
  BY <1>2, <1>7, SpokenFacts
<1>9. \A i \in DOMAIN ev : ev[i].text \subseteq speech
  BY <1>1, TextsSpoken
<1>10. /\ Append(ev, e) \in Seq(Events) /\ Ordered(Append(ev, e))
       /\ Held(Append(ev, e)) = Held(ev) \union (IF e.kind = "final" THEN e.text ELSE {})
       /\ \A last : Shows(Append(ev, e), last) = IF e.kind = "final" THEN {} ELSE e.text
       /\ \A i \in DOMAIN Append(ev, e) :
            Append(ev, e)[i] = e \/ (i \in DOMAIN ev /\ Append(ev, e)[i] = ev[i])
  BY <1>1, <1>4, <1>6, <1>8, <1>9, OneMore
<1>11. Once(Append(ev, e))
  BY <1>1, <1>4, <1>10 DEF Once
<1>12. Account(Append(ev, e), h, {})
  BY <1>1, <1>4, <1>6, <1>8, <1>10, <1>11 DEF Account
<1>13. c = [d |-> c.d, events |-> c.events] /\ ~c.d.finished /\ Account(c.events, h, {})
  BY <1>4, <1>5, <1>12
<1>14. Ended(d, c)
  BY <1>4, <1>13 DEF h, Ended
<1>15. Ended(d, Decoder!Correct([d |-> d, events |-> ev], bad))
  BY <1>14 DEF c
<1> QED
  BY <1>15

LEMMA NewGood ==
    ASSUME NEW d \in Decs, ~d.finished, d.pcm = 0, d.refining => mode = "refined", NEW ev,
           Account(ev, d.preview.heard, {})
    PROVE  LET x == Decoder!NewPreview(d)
           IN  /\ Good(x, ev) /\ x.pcm = 0 /\ x.preview.heard = d.preview.heard
               /\ x.refining = d.refining
<1> DEFINE h == d.preview.heard
           q == Decoder!Stream(h)
           x == Decoder!NewPreview(d)
<1>1. h \in Nat
  BY DEF Decs, Streams
<1>2. q = [from |-> h, upto |-> h, heard |-> h, last |-> {}, active |-> FALSE,
           finished |-> FALSE]
  BY DEF Decoder!Stream
<1> HIDE DEF q
<1>3. /\ q \in Streams /\ q.from = h /\ q.upto = h /\ q.heard = h /\ q.last = {}
      /\ q.active = FALSE /\ q.finished = FALSE
  BY <1>1, <1>2 DEF Streams
<1>4. Spoken(h, h) = {}
  BY <1>1, SpokenFacts
<1>5. Steady(q)
  BY <1>1, <1>3, <1>4 DEF Steady
<1>6. x = [d EXCEPT !.preview = q, !.draft = {}]
  BY DEF Decoder!NewPreview, q
<1> HIDE DEF x
<1>7. /\ x \in Decs /\ x.preview = q /\ x.draft = {} /\ x.pcm = d.pcm
      /\ x.refining = d.refining /\ x.finished = d.finished
  BY <1>3, <1>6 DEF Decs
<1>8. x.preview.heard - x.pcm = h /\ 0 <= h
  BY <1>1, <1>3, <1>7
<1>9. Listening(x)
  BY <1>1, <1>3, <1>4, <1>5, <1>7, <1>8 DEF Listening
<1>10. Base(x) = h
  BY <1>3, <1>7, <1>8 DEF Base
<1> QED
  BY <1>3, <1>7, <1>9, <1>10 DEF Good, x

(***************************************************************************)
(* The events of the preview up to the first final                         *)
(***************************************************************************)
LEMMA Least ==
    ASSUME NEW S, S \subseteq Nat, S # {}
    PROVE  \E x \in S : \A y \in S : x <= y
<1> DEFINE R == {p \in Nat \X Nat : p[1] < p[2]}
<1>1. R = OpToRel(<, Nat)
  BY DEF OpToRel
<1>2. IsWellFoundedOn(R, Nat)
  BY <1>1, NatLessThanWellFounded
<1>3. PICK x \in S : \A y \in S : <<y, x>> \notin R
  <2> HIDE DEF R
  <2> QED
    BY <1>2, WFMin
<1>4. ASSUME NEW y \in S
      PROVE  x <= y
  <2>1. <<y, x>> \notin R /\ x \in Nat /\ y \in Nat
    BY <1>3
  <2>2. ~(y < x)
    BY <2>1
  <2> QED
    BY <2>1, <2>2
<1> QED
  BY <1>3, <1>4

HeardTo(pending, k, h) ==
    /\ k \in DOMAIN pending /\ pending[k].kind = "final"
    /\ \A i \in 1 .. k - 1 : pending[i].kind = "partial"
    /\ h = SubSeq(pending, 1, k)

LEMMA HeardIs ==
    ASSUME NEW pending \in Seq(Raw)
    PROVE  LET h == Decoder!Heard(pending)
           IN  \/ h = pending /\ \A i \in DOMAIN pending : pending[i].kind = "partial"
               \/ \E k \in DOMAIN pending : HeardTo(pending, k, h)
<1> DEFINE finals == {i \in DOMAIN pending : pending[i].kind = "final"}
           h == Decoder!Heard(pending)
           k == CHOOSE i \in finals : \A j \in finals : i <= j
<1>1. h = IF finals = {} THEN pending ELSE SubSeq(pending, 1, k)
  BY DEF Decoder!Heard
<1>2. DOMAIN pending = 1 .. Len(pending) /\ Len(pending) \in Nat
  OBVIOUS
<1>3. \A i \in DOMAIN pending : pending[i].kind \in {"partial", "final"}
  <2> SUFFICES ASSUME NEW i \in DOMAIN pending
               PROVE  pending[i].kind \in {"partial", "final"}
    OBVIOUS
  <2>1. pending[i] \in Raw
    OBVIOUS
  <2> QED
    BY <2>1 DEF Raw
<1>4. \A i \in DOMAIN pending : i \in finals <=> pending[i].kind = "final"
  OBVIOUS
<1>5. finals \subseteq DOMAIN pending
  OBVIOUS
<1>6. finals # {} => k \in finals /\ \A j \in finals : k <= j
  <2> SUFFICES ASSUME finals # {}
               PROVE  k \in finals /\ \A j \in finals : k <= j
    OBVIOUS
  <2>1. finals \subseteq Nat
    BY <1>2, <1>5
  <2> HIDE DEF finals
  <2>2. \E i \in finals : \A j \in finals : i <= j
    BY <2>1, Least
  <2> QED
    BY <2>2
<1> HIDE DEF finals, k, h
<1>7. CASE finals = {}
  BY <1>1, <1>3, <1>4, <1>7 DEF h
<1>8. CASE finals # {}
  <2>1. k \in DOMAIN pending /\ pending[k].kind = "final" /\ h = SubSeq(pending, 1, k)
    BY <1>1, <1>4, <1>5, <1>6, <1>8
  <2>2. ASSUME NEW i \in 1 .. k - 1
        PROVE  pending[i].kind = "partial"
    <3>1. i \in DOMAIN pending /\ ~(k <= i)
      BY <1>2, <2>1
    <3>2. i \notin finals
      BY <1>6, <1>8, <3>1
    <3> QED
      BY <1>3, <1>4, <3>1, <3>2
  <2> QED
    BY <2>1, <2>2 DEF HeardTo, h
<1> QED
  BY <1>7, <1>8

LEMMA HeardAll ==
    ASSUME NEW pending \in Seq(Raw), \A i \in DOMAIN pending : pending[i].kind = "partial",
           NEW draft
    PROVE  ~Decoder!SegmentOver(pending)
           /\ Decoder!LastText(pending, draft) = Shows(pending, draft)
<1>1. DOMAIN pending = 1 .. Len(pending) /\ Len(pending) \in Nat
  OBVIOUS
<1>2. CASE pending = <<>>
  BY <1>2 DEF Decoder!SegmentOver, Decoder!LastText, Shows
<1>3. CASE pending # <<>>
  <2>1. Len(pending) \in DOMAIN pending
    BY <1>3
  <2>2. pending[Len(pending)].kind = "partial"
    BY <2>1
  <2>3. pending[Len(pending)].kind # "final"
    BY <2>2
  <2> QED
    BY <1>3, <2>3 DEF Decoder!SegmentOver, Decoder!LastText, Decoder!Last, Shows
<1> QED
  BY <1>2, <1>3

LEMMA HeardEnd ==
    ASSUME NEW pending \in Seq(Raw), NEW k, NEW h, HeardTo(pending, k, h), NEW draft
    PROVE  /\ Decoder!SegmentOver(h) /\ Len(h) = k /\ k \in 1 .. Len(pending)
           /\ Decoder!LastText(h, draft) = pending[k].text
           /\ DOMAIN Decoder!Front(h) = 1 .. k - 1
           /\ \A i \in 1 .. k - 1 : Decoder!Front(h)[i] = pending[i]
<1>1. /\ k \in DOMAIN pending /\ pending[k].kind = "final" /\ h = SubSeq(pending, 1, k)
  BY DEF HeardTo
<1>2. DOMAIN pending = 1 .. Len(pending) /\ Len(pending) \in Nat /\ k \in Nat /\ k # 0
      /\ k \in 1 .. Len(pending)
  BY <1>1
<1>3. /\ h \in Seq(Raw) /\ Len(h) = k /\ DOMAIN h = 1 .. k
      /\ \A i \in 1 .. k : h[i] = pending[i]
  BY <1>1, <1>2
<1>4. h # <<>> /\ h[Len(h)] = pending[k]
  BY <1>2, <1>3
<1>5. Decoder!Front(h) = SubSeq(h, 1, k - 1)
  BY <1>3 DEF Decoder!Front
<1>6. DOMAIN Decoder!Front(h) = 1 .. k - 1
      /\ \A i \in 1 .. k - 1 : Decoder!Front(h)[i] = pending[i]
  <2>1. k - 1 \in Nat /\ k - 1 <= Len(h)
    BY <1>2, <1>3
  <2>2. DOMAIN SubSeq(h, 1, k - 1) = 1 .. k - 1
        /\ \A i \in 1 .. k - 1 : SubSeq(h, 1, k - 1)[i] = h[i]
    BY <1>3, <2>1
  <2>3. \A i \in 1 .. k - 1 : i \in 1 .. k
    BY <1>2
  <2> QED
    BY <1>3, <1>5, <2>2, <2>3
<1> QED
  BY <1>1, <1>2, <1>3, <1>4, <1>6 DEF Decoder!SegmentOver, Decoder!LastText, Decoder!Last

\* Partial events, handed on, that hold nothing.
Drafts(pending, k, w) ==
    /\ w \in Seq(Events) /\ Len(w) = k /\ DOMAIN w = 1 .. k
    /\ Ordered(w) /\ Once(w) /\ Held(w) = {}
    /\ \A i \in 1 .. k : w[i] = Decoder!Fallback(pending[i]) /\ w[i].text = pending[i].text

LEMMA DraftsAre ==
    ASSUME NEW pending \in Seq(Raw), NEW k \in Nat, k <= Len(pending),
           \A i \in 1 .. k : pending[i].kind = "partial",
           NEW part, DOMAIN part = 1 .. k, \A i \in 1 .. k : part[i] = pending[i]
    PROVE  Drafts(pending, k, [i \in DOMAIN part |-> Decoder!Shown(part[i])])
<1> DEFINE w == [i \in DOMAIN part |-> Decoder!Shown(part[i])]
<1>1. DOMAIN w = 1 .. k /\ w = [i \in 1 .. k |-> w[i]]
  OBVIOUS
<1>2. \A i \in 1 .. k : w[i] = Decoder!Shown(pending[i])
  OBVIOUS
<1> HIDE DEF w
<1>3. ASSUME NEW i \in 1 .. k
      PROVE  /\ w[i] = Decoder!Fallback(pending[i]) /\ w[i] \in Events
             /\ w[i].kind = "partial" /\ w[i].text = pending[i].text /\ PunctuatedBy(w[i])
  <2>1. pending[i] \in Raw /\ pending[i].kind = "partial"
    OBVIOUS
  <2>2. w[i] = Decoder!Fallback(pending[i])
    BY <1>2, <2>1, ShownIs
  <2> QED
    BY <2>1, <2>2, FallbackIs
<1>4. w \in [1 .. k -> Events]
  BY <1>1, <1>3
<1>5. w \in Seq(Events) /\ Len(w) = k
  BY <1>1, <1>4
<1>6. \A i \in DOMAIN w : w[i].kind # "final"
  BY <1>1, <1>3
<1>7. Ordered(w) /\ Held(w) = {}
  BY <1>6 DEF Ordered, Held
<1>8. Once(w)
  BY <1>1, <1>3 DEF Once
<1> QED
  BY <1>1, <1>3, <1>5, <1>7, <1>8 DEF Drafts, w

Joined(E, a, b, c) ==
    /\ c \in Seq(E) /\ Len(c) = Len(a) + Len(b) /\ DOMAIN c = 1 .. Len(a) + Len(b)
    /\ Len(a) \in Nat /\ Len(b) \in Nat
    /\ \A i \in 1 .. Len(a) : c[i] = a[i]
    /\ \A i \in 1 .. Len(b) : c[Len(a) + i] = b[i]

LEMMA Joins ==
    ASSUME NEW E, NEW a \in Seq(E), NEW b \in Seq(E)
    PROVE  Joined(E, a, b, a \o b)
BY ConcatAt DEF Joined

LEMMA PlacesSplit ==
    ASSUME NEW l \in Nat, NEW k \in Nat, NEW n \in Nat, 1 <= k, k <= n, NEW i \in 1 .. l + n
    PROVE  \/ i \in 1 .. l \/ i - l \in 1 .. k - 1 \/ i = l + k
           \/ i - (l + k) \in 1 .. n - k
OBVIOUS

\* Text that ends in a failed correction: the drafts, the first final and the
\* rest are what plain streaming would have handed on.
LEMMA Rejoined ==
    ASSUME NEW a \in Seq(Events), NEW pending \in Seq(Raw), NEW k \in 1 .. Len(pending),
           NEW w, Drafts(pending, k - 1, w), NEW x, x = Decoder!Fallback(pending[k])
    PROVE  Append(a \o w, x) \o Decoder!Rest(pending, k) = a \o Decoder!FallbackEvents(pending)
<1> DEFINE n == Len(pending)
           sub == SubSeq(pending, k + 1, n)
           rest == Decoder!FallbackEvents(sub)
           all == Decoder!FallbackEvents(pending)
           left == Append(a \o w, x) \o rest
           right == a \o all
<1>1. n \in Nat /\ k \in Nat /\ 1 <= k /\ k <= n
  OBVIOUS
<1>2. /\ sub \in Seq(Raw) /\ Len(sub) = n - k /\ DOMAIN sub = 1 .. n - k
      /\ \A i \in 1 .. n - k : sub[i] = pending[k + i]
  BY <1>1
<1>3. Decoder!Rest(pending, k) = rest
  BY DEF Decoder!Rest
<1>4. /\ rest \in Seq(Events) /\ Len(rest) = n - k
      /\ \A i \in 1 .. n - k : rest[i] = Decoder!Fallback(pending[k + i])
  <2> HIDE DEF sub, n
  <2> QED
    BY <1>2, FallbackEventsAre
<1>5. /\ all \in Seq(Events) /\ Len(all) = n /\ DOMAIN pending = 1 .. n
      /\ \A i \in 1 .. n : all[i] = Decoder!Fallback(pending[i])
  BY FallbackEventsAre
<1>6. /\ w \in Seq(Events) /\ Len(w) = k - 1
      /\ \A i \in 1 .. k - 1 : w[i] = Decoder!Fallback(pending[i])
  BY DEF Drafts
<1>7. x \in Events
  BY <1>1, <1>5
<1> HIDE DEF n, sub, rest, all
<1>8. /\ a \o w \in Seq(Events) /\ Len(a \o w) = Len(a) + (k - 1) /\ Len(a) \in Nat
      /\ \A i \in 1 .. Len(a) : (a \o w)[i] = a[i]
      /\ \A i \in 1 .. k - 1 : (a \o w)[Len(a) + i] = w[i]
  <2>1. Joined(Events, a, w, a \o w)
    BY <1>6, Joins
  <2> QED
    BY <1>6, <2>1 DEF Joined
<1> DEFINE b == a \o w
           c == Append(b, x)
<1> HIDE DEF b
<1>9. /\ c \in Seq(Events) /\ Len(c) = Len(a) + k /\ c[Len(a) + k] = x
      /\ \A i \in 1 .. Len(a) + (k - 1) : c[i] = b[i]
  BY <1>1, <1>7, <1>8 DEF b
<1> HIDE DEF c
<1>10. /\ left \in Seq(Events) /\ Len(left) = Len(a) + n
       /\ \A i \in 1 .. Len(a) + k : left[i] = c[i]
       /\ \A i \in 1 .. n - k : left[Len(a) + k + i] = rest[i]
       /\ DOMAIN left = 1 .. Len(a) + n
  <2>1. left = c \o rest
    BY DEF b, c
  <2>2. /\ c \o rest \in Seq(Events) /\ Len(c \o rest) = Len(c) + Len(rest)
        /\ \A i \in 1 .. Len(c) : (c \o rest)[i] = c[i]
        /\ \A i \in 1 .. Len(rest) : (c \o rest)[Len(c) + i] = rest[i]
        /\ DOMAIN (c \o rest) = 1 .. Len(c) + Len(rest)
    <3>1. Joined(Events, c, rest, c \o rest)
      BY <1>4, <1>9, Joins
    <3> QED
      BY <3>1 DEF Joined
  <2>3. Len(c) + Len(rest) = Len(a) + n
    BY <1>1, <1>4, <1>8, <1>9
  <2> HIDE DEF left
  <2> QED
    BY <1>4, <1>9, <2>1, <2>2, <2>3
<1>11. /\ right \in Seq(Events) /\ Len(right) = Len(a) + n /\ DOMAIN right = 1 .. Len(a) + n
       /\ \A i \in 1 .. Len(a) : right[i] = a[i]
       /\ \A i \in 1 .. n : right[Len(a) + i] = all[i]
  <2>1. Joined(Events, a, all, a \o all)
    BY <1>5, Joins
  <2> QED
    BY <1>5, <2>1 DEF Joined
<1> HIDE DEF left, right
<1>12. ASSUME NEW i \in 1 .. Len(a) + n
       PROVE  left[i] = right[i]
  <2>1. CASE i \in 1 .. Len(a)
    <3>1. i \in 1 .. Len(a) + k /\ i \in 1 .. Len(a) + (k - 1)
      BY <1>1, <1>8, <2>1
    <3>2. left[i] = c[i] /\ c[i] = b[i] /\ b[i] = a[i]
      BY <1>8, <1>9, <1>10, <2>1, <3>1 DEF b
    <3> QED
      BY <1>11, <2>1, <3>2
  <2>2. CASE i - Len(a) \in 1 .. k - 1
    <3> DEFINE j == i - Len(a)
    <3>1. i = Len(a) + j /\ j \in 1 .. n /\ j \in 1 .. k - 1
          /\ i \in 1 .. Len(a) + k /\ i \in 1 .. Len(a) + (k - 1)
      BY <1>1, <1>8, <2>2
    <3> HIDE DEF j
    <3>2. left[i] = c[i] /\ c[i] = b[i]
      BY <1>9, <1>10, <3>1
    <3>3. b[i] = w[j]
      BY <1>8, <3>1 DEF b
    <3>4. right[i] = all[j]
      BY <1>11, <3>1
    <3> QED
      BY <1>5, <1>6, <3>1, <3>2, <3>3, <3>4
  <2>3. CASE i = Len(a) + k
    <3>1. i \in 1 .. Len(a) + k /\ k \in 1 .. n
      BY <1>1, <1>8, <2>3
    <3> QED
      BY <1>5, <1>9, <1>10, <1>11, <2>3, <3>1
  <2>4. CASE i - (Len(a) + k) \in 1 .. n - k
    <3> DEFINE j == i - (Len(a) + k)
    <3>1. i = Len(a) + k + j /\ j \in 1 .. n - k /\ k + j \in 1 .. n
          /\ i = Len(a) + (k + j)
      BY <1>1, <1>8, <2>4
    <3> HIDE DEF j
    <3>2. left[i] = rest[j]
      BY <1>10, <3>1
    <3>3. right[i] = all[k + j]
      BY <1>11, <3>1
    <3> QED
      BY <1>4, <1>5, <3>1, <3>2, <3>3
  <2>5. \/ i \in 1 .. Len(a) \/ i - Len(a) \in 1 .. k - 1 \/ i = Len(a) + k
        \/ i - (Len(a) + k) \in 1 .. n - k
    BY <1>1, <1>8, PlacesSplit
  <2> QED
    BY <2>1, <2>2, <2>3, <2>4, <2>5
<1>13. left = right
  BY <1>10, <1>11, <1>12
<1> QED
  BY <1>3, <1>13 DEF left, right, rest, all, sub, n

(***************************************************************************)
(* A part of the audio                                                     *)
(***************************************************************************)
LEMMA ThreeFields ==
    ASSUME NEW P, NEW T, NEW d \in [preview : P, pcm : Nat, draft : T, refining : BOOLEAN,
                                     finished : BOOLEAN],
           NEW n \in P, NEW m \in Nat, NEW x \in T
    PROVE  LET t == [d EXCEPT !.preview = n, !.pcm = m, !.draft = x]
           IN  /\ t \in [preview : P, pcm : Nat, draft : T, refining : BOOLEAN,
                          finished : BOOLEAN]
               /\ t.preview = n /\ t.pcm = m /\ t.draft = x
               /\ t.refining = d.refining /\ t.finished = d.finished
OBVIOUS

TakenAs(d, n, units, x, t) ==
    /\ t \in Decs /\ t.preview = n /\ t.pcm = d.pcm + units /\ t.draft = x
    /\ t.refining = d.refining /\ t.finished = d.finished

LEMMA TakenFields ==
    ASSUME NEW d \in Decs, NEW n \in Streams, NEW units \in Nat, NEW x \in SUBSET speech
    PROVE  TakenAs(d, n, units, x, [d EXCEPT !.preview = n, !.pcm = @ + units, !.draft = x])
<1>1. d.pcm + units \in Nat
  BY DEF Decs
<1> QED
  BY <1>1, ThreeFields DEF Decs, TakenAs

LEMMA PreviewFields ==
    ASSUME NEW d \in Decs, NEW n \in Streams
    PROVE  LET t == [d EXCEPT !.preview = n]
           IN  /\ t \in Decs /\ t.preview = n /\ t.pcm = d.pcm /\ t.draft = d.draft
               /\ t.refining = d.refining /\ t.finished = d.finished
BY DEF Decs

LEMMA PlainGood ==
    ASSUME NEW d \in Decs, ~d.finished, ~d.refining, d.pcm = 0, Steady(d.preview), NEW ev,
           Account(ev, d.preview.from, d.preview.last)
    PROVE  Good(d, ev)
<1>1. d.preview.heard \in Nat
  BY DEF Steady, Streams
<1>2. d.pcm <= d.preview.heard
  BY <1>1
<1> QED
  BY <1>2 DEF Good, Listening, Base

\* What a part leaves behind.
PartDone(d, units, r) ==
    /\ r = [d |-> r.d, events |-> r.events]
    /\ Good(r.d, r.events) /\ r.d.pcm < Capacity
    /\ r.d.preview.heard = d.preview.heard + units
    /\ ~d.refining => ~r.d.refining
    /\ r.d.refining /\ d.pcm + units = Capacity => r.d.pcm = 0

\* What the preview made of it.
Heeded(d, units, n, pending) ==
    /\ Fed([d.preview EXCEPT !.heard = @ + units], n, pending)
    /\ n \in Streams /\ n.heard = d.preview.heard + units /\ d.preview.from <= n.from
    /\ Steady(n) /\ pending \in Seq(Raw)
    /\ \A i \in DOMAIN pending : pending[i].text \subseteq Spoken(d.preview.from, n.upto)
    /\ Held(pending) = Spoken(d.preview.from, n.from)
    /\ Shows(pending, d.preview.last) = n.last
    /\ (\E i \in DOMAIN pending : pending[i].kind = "final") =>
         d.preview.from + MinEndpoint <= d.preview.heard + units

LEMMA Heeds ==
    ASSUME NEW d, Listening(d), NEW units \in Nat, NEW ends,
           Lookahead \in Nat, MinEndpoint \in Nat
    PROVE  LET next == Decoder!Accepted(d.preview, units, speech, ends)
           IN  Heeded(d, units, next.d, next.events)
<1> DEFINE p == d.preview
           q == [p EXCEPT !.heard = @ + units]
           n == Decoder!Accepted(p, units, speech, ends).d
           pending == Decoder!Accepted(p, units, speech, ends).events
<1>1. Steady(p)
  BY DEF Listening
<1>2. Fed(q, n, pending)
  BY <1>1, AcceptedFeeds
<1>3. p \in Streams
  BY <1>1 DEF Steady
<1>4. q.from = p.from /\ q.last = p.last /\ q.heard = p.heard + units
  BY <1>3 DEF Streams
<1> HIDE DEF p, q, n, pending
<1>5. /\ Steady(n) /\ n.heard = q.heard /\ q.from <= n.from
      /\ pending \in Seq(Raw)
      /\ \A i \in DOMAIN pending : pending[i].text \subseteq Spoken(q.from, n.upto)
      /\ Held(pending) = Spoken(q.from, n.from)
      /\ Shows(pending, q.last) = n.last
      /\ (\E i \in DOMAIN pending : pending[i].kind = "final") =>
            q.from + MinEndpoint <= q.heard
  BY <1>2 DEF Fed
<1>6. n \in Streams
  BY <1>5 DEF Steady
<1>7. Fed([p EXCEPT !.heard = @ + units], n, pending)
  BY <1>2 DEF q
<1> QED
  BY <1>4, <1>5, <1>6, <1>7 DEF Heeded, p, n, pending

LEMMA PlainPart ==
    ASSUME NEW d, NEW ev, Good(d, ev), ~d.refining, NEW units \in Nat, NEW n, NEW pending,
           Heeded(d, units, n, pending), Capacity \in Nat \ {0}
    PROVE  PartDone(d, units, [d |-> [d EXCEPT !.preview = n],
                               events |-> ev \o Decoder!FallbackEvents(pending)])
<1> DEFINE x == [d EXCEPT !.preview = n]
           w == ev \o Decoder!FallbackEvents(pending)
           p == d.preview
<1>1. /\ d \in Decs /\ ~d.finished /\ d.pcm = 0 /\ Steady(p) /\ Account(ev, p.from, p.last)
  BY DEF Good, Listening, Base
<1>2. p.from \in Nat
  BY <1>1 DEF Steady, Streams
<1>3. Spoken(p.from, p.from) = {} /\ p.from <= p.from
  BY <1>2, SpokenFacts
<1>4. /\ Fed([p EXCEPT !.heard = @ + units], n, pending) /\ n \in Streams
      /\ n.heard = p.heard + units /\ Steady(n)
  BY DEF Heeded
<1>5. Account(w, n.from, n.last)
  <2> HIDE DEF p
  <2> QED
    BY <1>1, <1>2, <1>3, <1>4, Onward
<1> HIDE DEF w
<1>6. /\ x \in Decs /\ x.preview = n /\ x.pcm = 0 /\ ~x.refining /\ ~x.finished
  BY <1>1, <1>4, PreviewFields
<1> HIDE DEF x
<1>7. Good(x, w)
  BY <1>4, <1>5, <1>6, PlainGood
<1>8. [d |-> x, events |-> w].d = x /\ [d |-> x, events |-> w].events = w
  OBVIOUS
<1>9. x.pcm < Capacity
  BY <1>6
<1>10. PartDone(d, units, [d |-> x, events |-> w])
  BY <1>4, <1>6, <1>7, <1>8, <1>9 DEF PartDone
<1> QED
  BY <1>10 DEF x, w

TakenWell(d, units, n, ev, t, w) ==
    Good(t, ev \o w) /\ t.pcm = d.pcm + units /\ t.refining /\ t.preview = n

\* Without a final the segment goes on.
LEMMA TakenGood ==
    ASSUME NEW d, NEW ev, Good(d, ev), d.refining, NEW units \in Nat, NEW n, NEW pending,
           Heeded(d, units, n, pending),
           NEW w, Drafts(pending, Len(pending), w),
           NEW t, TakenAs(d, n, units, n.last, t),
           \A i \in DOMAIN pending : pending[i].kind = "partial"
    PROVE  TakenWell(d, units, n, ev, t, w)
<1> DEFINE p == d.preview
           lo == p.heard - d.pcm
           all == ev \o w
<1>1. /\ d \in Decs /\ ~d.finished /\ Steady(p) /\ d.pcm <= p.heard
      /\ mode = "refined" /\ d.draft = p.last /\ lo <= p.from /\ Spoken(lo, p.from) = {}
      /\ Account(ev, lo, p.last)
  BY DEF Good, Listening, Base
<1>2. /\ Fed([p EXCEPT !.heard = @ + units], n, pending) /\ n \in Streams
      /\ n.heard = p.heard + units /\ Steady(n) /\ p.from <= n.from
      /\ pending \in Seq(Raw) /\ Held(pending) = Spoken(p.from, n.from)
      /\ Shows(pending, p.last) = n.last
  BY DEF Heeded
<1>3. /\ p.from \in Nat /\ p.heard \in Nat /\ d.pcm \in Nat /\ lo \in Nat /\ n.from \in Nat
      /\ p.last \in SUBSET speech /\ n.last \in SUBSET speech
  BY <1>1, <1>2 DEF Decs, Steady, Streams
<1>5. Spoken(p.from, n.from) = {}
  <2>1. Held(pending) = {}
    BY DEF Held
  <2> QED
    BY <1>2, <2>1
<1>6. w = Decoder!FallbackEvents(pending)
  <2> DEFINE f == Decoder!FallbackEvents(pending)
  <2>1. /\ w \in Seq(Events) /\ Len(w) = Len(pending) /\ DOMAIN w = 1 .. Len(pending)
        /\ \A i \in 1 .. Len(pending) : w[i] = Decoder!Fallback(pending[i])
    BY DEF Drafts
  <2>2. DOMAIN pending = 1 .. Len(pending) /\ Len(pending) \in Nat
    BY <1>2
  <2>3. /\ f \in Seq(Events) /\ Len(f) = Len(pending)
        /\ \A i \in 1 .. Len(pending) : f[i] = Decoder!Fallback(pending[i])
    BY <1>2, <2>2, FallbackEventsAre
  <2> HIDE DEF f
  <2>4. \A i \in 1 .. Len(pending) : w[i] = f[i]
    BY <2>1, <2>3
  <2>5. w = f
    BY <2>1, <2>2, <2>3, <2>4
  <2> QED
    BY <2>5 DEF f
<1>7. Account(all, n.from, n.last)
  <2> HIDE DEF p, lo
  <2>1. Account(ev \o Decoder!FallbackEvents(pending), n.from, n.last)
    BY <1>1, <1>2, <1>3, Onward
  <2> QED
    BY <1>6, <2>1
<1>8. /\ t \in Decs /\ t.preview = n /\ t.pcm = d.pcm + units /\ t.draft = n.last
      /\ t.refining = d.refining /\ t.finished = d.finished
  BY DEF TakenAs
<1> HIDE DEF all
<1>9. Spoken(lo, n.from) = {}
  <2>1. Spoken(lo, p.from) \union Spoken(p.from, n.from) = Spoken(lo, n.from)
    BY <1>1, <1>2, <1>3, SpokenFacts, SMTT(40)
  <2> QED
    BY <1>1, <1>5, <2>1
<1>10. Spoken(0, lo) = Spoken(0, n.from)
  <2>1. lo <= n.from /\ 0 <= lo
    BY <1>1, <1>2, <1>3
  <2>2. Spoken(0, lo) \union Spoken(lo, n.from) = Spoken(0, n.from)
    <3> HIDE DEF lo
    <3> QED
      BY <1>3, <2>1, SpokenFacts
  <2> QED
    BY <1>9, <2>2
<1>11. Account(all, lo, n.last)
  BY <1>7, <1>10 DEF Account
<1>12. n.heard - t.pcm = lo /\ t.pcm <= n.heard /\ lo <= n.from
  BY <1>1, <1>2, <1>3, <1>8, SMTT(40)
<1>13. Listening(t)
  BY <1>1, <1>2, <1>8, <1>9, <1>12 DEF Listening
<1>14. Good(t, all)
  BY <1>8, <1>11, <1>12, <1>13 DEF Good, Base
<1> QED
  BY <1>8, <1>14 DEF TakenWell, all

(***************************************************************************)
(* A cut: at the limit, or where the preview found the end of a segment    *)
(***************************************************************************)
CutTo(heard, r) ==
    /\ r = [d |-> r.d, events |-> r.events] /\ Good(r.d, r.events)
    /\ r.d.pcm = 0 /\ r.d.preview.heard = heard

\* The audio is recognised and a new preview begins.
LEMMA Renewed ==
    ASSUME mode = "refined", NEW d, NEW c, Ended(d, c)
    PROVE  CutTo(d.preview.heard, [c EXCEPT !.d = Decoder!NewPreview(@)])
<1> DEFINE x == Decoder!NewPreview(c.d)
           r == [c EXCEPT !.d = Decoder!NewPreview(@)]
           h == d.preview.heard
<1>1. /\ c = [d |-> c.d, events |-> c.events]
      /\ c.d \in Decs /\ ~c.d.finished /\ c.d.pcm = 0 /\ c.d.preview = d.preview
      /\ Account(c.events, h, {})
  BY DEF Ended
<1>2. c.d.preview.heard = h
  BY <1>1
<1>3. Account(c.events, c.d.preview.heard, {})
  BY <1>1, <1>2
<1>4. /\ Good(x, c.events) /\ x.pcm = 0 /\ x.preview.heard = c.d.preview.heard
  BY <1>1, <1>3, NewGood
<1>5. r = [d |-> x, events |-> c.events]
  BY <1>1
<1> HIDE DEF x, r, h
<1>6. r.d = x /\ r.events = c.events
  BY <1>5
<1>7. r = [d |-> r.d, events |-> r.events]
  BY <1>5, <1>6
<1>8. CutTo(h, r)
  BY <1>2, <1>4, <1>6, <1>7 DEF CutTo
<1> QED
  BY <1>8 DEF h, r

LEMMA MoreEvents ==
    ASSUME NEW x, NEW y, NEW z
    PROVE  [[d |-> x, events |-> y] EXCEPT !.events = @ \o z] = [d |-> x, events |-> y \o z]
<1> DEFINE r == [d |-> x, events |-> y]
           v == r.events \o z
<1>1. r.events = y /\ r = [d |-> x, events |-> y]
  OBVIOUS
<1>2. v = y \o z
  BY <1>1
<1> HIDE DEF v
<1>3. [r EXCEPT !.events = v] = [d |-> x, events |-> v]
  OBVIOUS
<1>4. [r EXCEPT !.events = @ \o z] = [r EXCEPT !.events = v]
  BY DEF v
<1> QED
  BY <1>2, <1>3, <1>4

LEMMA CutIs ==
    ASSUME NEW before, NEW pending, NEW h, NEW bad
    PROVE  LET over == Decoder!SegmentOver(h)
               cut == Decoder!Correct([before EXCEPT !.d = IF over THEN @
                                                            ELSE Decoder!Drained(@)], bad)
           IN  Decoder!Cut(before, pending, h, bad) =
                 IF over /\ ~cut.d.refining
                 THEN [cut EXCEPT !.events = @ \o Decoder!Rest(pending, Len(h))]
                 ELSE [cut EXCEPT !.d = Decoder!NewPreview(@)]
BY DEF Decoder!Cut, Decoder!StreamKept

LEMMA CutAtLimit ==
    ASSUME NEW t, NEW e, Good(t, e), t.refining, NEW pending, NEW h,
           ~Decoder!SegmentOver(h), NEW bad
    PROVE  CutTo(t.preview.heard, Decoder!Cut([d |-> t, events |-> e], pending, h, bad))
<1> DEFINE x == Decoder!Drained(t)
           lo == t.preview.heard - t.pcm
           top == t.preview.heard
           cut == Decoder!Correct([d |-> x, events |-> e], bad)
           shown == t.preview.last
<1>1. /\ Listening(t) /\ mode = "refined" /\ ~t.finished /\ t \in Decs
      /\ Account(e, lo, shown) /\ t.pcm <= top
  BY DEF Good, Listening, Base
<1>2. top \in Nat /\ t.pcm \in Nat /\ lo \in Nat /\ lo <= top
  BY <1>1 DEF Decs, Streams
<1>3. /\ x \in Decs /\ x.pcm = t.pcm /\ x.finished = t.finished /\ x.preview.heard = top
      /\ x.draft = Spoken(lo, top)
  BY <1>1, DrainedIs
<1> HIDE DEF x, shown
<1>4. /\ ~x.finished /\ lo <= x.preview.heard /\ lo = x.preview.heard - x.pcm
      /\ x.draft = Spoken(lo, x.preview.heard)
  BY <1>1, <1>2, <1>3
<1>5. Ended(x, cut)
  <2> HIDE DEF lo, top
  <2> QED
    BY <1>1, <1>2, <1>3, <1>4, SegmentEnds
<1>6. CutTo(x.preview.heard, [cut EXCEPT !.d = Decoder!NewPreview(@)])
  <2> HIDE DEF cut
  <2> QED
    BY <1>1, <1>5, Renewed
<1>7. [[d |-> t, events |-> e] EXCEPT !.d = Decoder!Drained(@)] = [d |-> x, events |-> e]
  BY DEF x
<1>8. Decoder!Cut([d |-> t, events |-> e], pending, h, bad) =
        [cut EXCEPT !.d = Decoder!NewPreview(@)]
  <2> DEFINE b == [d |-> t, events |-> e]
             cb == Decoder!Correct([b EXCEPT !.d = IF Decoder!SegmentOver(h) THEN @
                                                   ELSE Decoder!Drained(@)], bad)
  <2>1. Decoder!Cut(b, pending, h, bad) = [cb EXCEPT !.d = Decoder!NewPreview(@)]
    <3> HIDE DEF b
    <3> QED
      BY CutIs
  <2>2. [b EXCEPT !.d = IF Decoder!SegmentOver(h) THEN @ ELSE Decoder!Drained(@)]
          = [d |-> x, events |-> e]
    BY <1>7
  <2>3. cb = cut
    BY <2>2
  <2> HIDE DEF cb, cut
  <2> QED
    BY <2>1, <2>3
<1> QED
  BY <1>3, <1>6, <1>8

LEMMA CutAtEnd ==
    ASSUME NEW d, NEW ev, Good(d, ev), d.refining, NEW units \in Nat, NEW n, NEW pending,
           Heeded(d, units, n, pending), NEW k, NEW h, HeardTo(pending, k, h),
           MinPcm \in Nat, MinEndpoint \in Nat, MinPcm <= MinEndpoint,
           NEW t, TakenAs(d, n, units, pending[k].text, t),
           NEW w, Drafts(pending, k - 1, w), NEW bad
    PROVE  CutTo(n.heard, Decoder!Cut([d |-> t, events |-> ev \o w], pending, h, bad))
<1> DEFINE p == d.preview
           lo == p.heard - d.pcm
           top == n.heard
           all == ev \o w
           cut == Decoder!Correct([d |-> t, events |-> all], bad)
           e == Decoder!Correction(t, bad)
<1>1. /\ d \in Decs /\ ~d.finished /\ Steady(p) /\ d.pcm <= p.heard
      /\ mode = "refined" /\ lo <= p.from /\ Spoken(lo, p.from) = {}
      /\ Account(ev, lo, p.last)
  BY DEF Good, Listening, Base
<1>2. /\ Fed([p EXCEPT !.heard = @ + units], n, pending) /\ n \in Streams
      /\ n.heard = p.heard + units /\ Steady(n) /\ p.from <= n.from
      /\ pending \in Seq(Raw)
      /\ \A i \in DOMAIN pending : pending[i].text \subseteq Spoken(p.from, n.upto)
      /\ (\E i \in DOMAIN pending : pending[i].kind = "final") =>
            p.from + MinEndpoint <= p.heard + units
  BY DEF Heeded
<1>3. /\ p.from \in Nat /\ p.heard \in Nat /\ d.pcm \in Nat /\ lo \in Nat
      /\ n.upto \in Nat /\ n.upto <= n.heard /\ n.heard \in Nat
  BY <1>1, <1>2, SMTT(40) DEF Decs, Steady, Streams
<1>4. /\ t \in Decs /\ t.preview = n /\ t.pcm = d.pcm + units /\ t.draft = pending[k].text
      /\ t.refining = d.refining /\ t.finished = d.finished
  BY DEF TakenAs
<1>5. /\ k \in DOMAIN pending /\ pending[k].kind = "final" /\ Len(h) = k
      /\ k \in 1 .. Len(pending) /\ Decoder!SegmentOver(h)
  BY <1>2, HeardEnd, ZenonT(60) DEF HeardTo
<1>6. /\ lo <= t.preview.heard /\ lo = t.preview.heard - t.pcm /\ ~t.finished
      /\ lo <= top /\ p.from <= top
  <2>1. /\ t.preview.heard = p.heard + units /\ t.pcm = d.pcm + units /\ n.heard = p.heard + units
        /\ d.pcm <= p.heard /\ lo <= p.from /\ n.upto <= n.heard /\ p.from <= p.heard
    BY <1>1, <1>2, <1>3, <1>4, SMTT(40) DEF Steady, Streams
  <2>2. ~t.finished
    BY <1>1, <1>4
  <2>3. p.heard \in Nat /\ d.pcm \in Nat /\ p.from \in Nat
    BY <1>3
  <2>4. lo <= p.heard + units /\ lo = (p.heard + units) - (d.pcm + units)
        /\ p.from <= p.heard + units
    BY <2>1, <2>3
  <2> HIDE DEF lo
  <2> QED
    BY <2>1, <2>2, <2>4
<1>7. t.pcm >= MinPcm
  <2>1. p.from + MinEndpoint <= p.heard + units
    BY <1>2, <1>5
  <2>2. lo + MinEndpoint <= p.heard + units /\ t.pcm = p.heard + units - lo
    BY <1>1, <1>3, <1>4, <2>1
  <2> QED
    BY <1>3, <2>2
<1>8. Account(all, lo, Shows(w, p.last))
  <2>1. /\ w \in Seq(Events) /\ Len(w) = k - 1 /\ DOMAIN w = 1 .. k - 1
        /\ Ordered(w) /\ Once(w) /\ Held(w) = {}
        /\ \A i \in 1 .. k - 1 : w[i].text = pending[i].text
    BY DEF Drafts
  <2>2. \A i \in 1 .. k - 1 : i \in DOMAIN pending
    BY <1>2, <1>5
  <2>3. \A i \in DOMAIN w : w[i].text \subseteq Spoken(p.from, n.upto)
    BY <1>2, <2>1, <2>2
  <2> DEFINE from == p.from
             reach == n.upto
             shown == p.last
  <2>4. /\ Account(ev, lo, shown) /\ lo <= from /\ from \in Nat /\ reach \in Nat
        /\ \A i \in DOMAIN w : w[i].text \subseteq Spoken(from, reach)
    BY <1>1, <1>3, <2>3
  <2>6. lo \in Nat
    BY <1>3
  <2> HIDE DEF from, reach, shown, lo
  <2>5. Continued(lo, shown, w, all)
    BY <2>1, <2>4, <2>6, AccountConcat
  <2> HIDE DEF all
  <2>7. Held(all) = Spoken(0, lo)
    BY <2>1, <2>5 DEF Continued
  <2> QED
    BY <2>5, <2>7 DEF Continued, Account, shown
<1>9. all \in Seq(Events)
  BY <1>8 DEF Account
<1>10. Answered(t, all, bad, cut)
  <2> HIDE DEF all
  <2> QED
    BY <1>1, <1>4, <1>9, CorrectAnswers
<1> HIDE DEF cut, e
<1>11. Decoder!Prepared(t) <=> Spoken(lo, top) # {}
  BY <1>4, <1>6, <1>7, <1>10 DEF Answered

<1>12. /\ cut = [d |-> cut.d, events |-> Append(all, e)]
       /\ cut.d \in Decs /\ cut.d.pcm = 0 /\ cut.d.preview = n /\ ~cut.d.finished
       /\ cut.d.refining = ~Decoder!Fails(t, bad)
       /\ Decoder!Fails(t, bad) => Decoder!Prepared(t)
       /\ ~(Decoder!Prepared(t) /\ ~Decoder!Fails(t, bad)) =>
             e = Decoder!Fallback([kind |-> "final", text |-> t.draft])
  BY <1>4, <1>6, <1>10 DEF Answered, e
<1> DEFINE b == [d |-> t, events |-> all]
           r == Decoder!Cut(b, pending, h, bad)
<1>13. r = IF ~cut.d.refining
           THEN [cut EXCEPT !.events = @ \o Decoder!Rest(pending, Len(h))]
           ELSE [cut EXCEPT !.d = Decoder!NewPreview(@)]
  <2> DEFINE cb == Decoder!Correct([b EXCEPT !.d = IF Decoder!SegmentOver(h) THEN @
                                                   ELSE Decoder!Drained(@)], bad)
  <2>1. Decoder!Cut(b, pending, h, bad) =
          IF Decoder!SegmentOver(h) /\ ~cb.d.refining
          THEN [cb EXCEPT !.events = @ \o Decoder!Rest(pending, Len(h))]
          ELSE [cb EXCEPT !.d = Decoder!NewPreview(@)]
    <3> HIDE DEF b
    <3> QED
      BY CutIs
  <2>2. [b EXCEPT !.d = IF Decoder!SegmentOver(h) THEN @ ELSE Decoder!Drained(@)] = b
    BY <1>5
  <2>3. cb = cut
    <3> HIDE DEF b
    <3>1. cb = Decoder!Correct(b, bad)
      BY <2>2
    <3> QED
      BY <3>1 DEF b, cut
  <2> HIDE DEF cb, b
  <2> QED
    BY <1>5, <2>1, <2>3
<1>14. CASE ~Decoder!Fails(t, bad)
  <2>1. \/ t.draft = Spoken(lo, top)
        \/ Decoder!Prepared(t) /\ ~Decoder!Fails(t, bad)
    <3>1. CASE Spoken(lo, top) = {}
      <4>1. t.draft \subseteq Spoken(p.from, n.upto)
        BY <1>2, <1>4, <1>5
      <4>2. Spoken(p.from, n.upto) \subseteq Spoken(lo, top)
        <5>1. lo <= p.from /\ n.upto <= top /\ p.from \in Nat /\ lo \in Nat /\ top \in Nat
              /\ n.upto \in Nat
          BY <1>1, <1>3
        <5> HIDE DEF lo, top
        <5> QED
          BY <5>1 DEF Spoken
      <4> QED
        BY <3>1, <4>1, <4>2
    <3>2. CASE Spoken(lo, top) # {}
      BY <1>11, <1>14, <3>2
    <3> QED
      BY <3>1, <3>2
  <2>2. Ended(t, cut)
    <3>1. t.preview.heard = top
      BY <1>4
    <3>2. \/ t.draft = Spoken(lo, t.preview.heard)
          \/ Decoder!Prepared(t) /\ ~Decoder!Fails(t, bad)
      BY <2>1, <3>1
    <3>3. lo \in Nat
      BY <1>3
    <3> HIDE DEF all, lo, top
    <3> QED
      BY <1>1, <1>4, <1>6, <1>8, <3>2, <3>3, SegmentEnds DEF cut
  <2>3. CutTo(t.preview.heard, [cut EXCEPT !.d = Decoder!NewPreview(@)])
    BY <1>1, <2>2, Renewed
  <2>4. cut.d.refining
    BY <1>12, <1>14
  <2>5. r = [cut EXCEPT !.d = Decoder!NewPreview(@)]
    BY <1>13, <2>4
  <2> HIDE DEF r
  <2>6. CutTo(n.heard, r)
    BY <1>4, <2>3, <2>5
  <2> QED
    BY <2>6 DEF r
<1>15. CASE Decoder!Fails(t, bad)
  <2>1. e = Decoder!Fallback(pending[k])
    <3>1. e = Decoder!Fallback([kind |-> "final", text |-> t.draft])
      BY <1>12, <1>15
    <3>2. pending[k] \in Raw
      BY <1>2, <1>5
    <3>3. pending[k] = [kind |-> "final", text |-> pending[k].text]
      BY <1>5, <3>2 DEF Raw
    <3> QED
      BY <1>4, <3>1, <3>3
  <2>2. Append(ev \o w, e) \o Decoder!Rest(pending, k)
          = ev \o Decoder!FallbackEvents(pending)
    <3>1. ev \in Seq(Events)
      BY <1>1 DEF Account
    <3> QED
      BY <1>2, <1>5, <2>1, <3>1, Rejoined
  <2> DEFINE told == ev \o Decoder!FallbackEvents(pending)
  <2>3. ~cut.d.refining
    BY <1>12, <1>15
  <2>4. r = [cut EXCEPT !.events = @ \o Decoder!Rest(pending, Len(h))]
    BY <1>13, <2>3
  <2>5. [cut EXCEPT !.events = @ \o Decoder!Rest(pending, Len(h))] =
          [d |-> cut.d, events |-> Append(all, e) \o Decoder!Rest(pending, Len(h))]
    <3> DEFINE rest == Decoder!Rest(pending, Len(h))
               y == Append(all, e)
               x == cut.d
    <3>1. cut = [d |-> x, events |-> y]
      BY <1>12
    <3> HIDE DEF rest, x, y
    <3>2. [cut EXCEPT !.events = @ \o rest] = [d |-> x, events |-> y \o rest]
      BY <3>1, MoreEvents
    <3> QED
      BY <3>2 DEF rest, x, y
  <2>6. Append(all, e) \o Decoder!Rest(pending, Len(h)) = told
    BY <1>5, <2>2
  <2>7. Account(told, n.from, n.last)
    <3>1. lo \in Nat
      BY <1>3
    <3> HIDE DEF p, lo
    <3> QED
      BY <1>1, <1>2, <3>1, Onward
  <2> HIDE DEF r, told
  <2>8. r = [d |-> cut.d, events |-> told]
    BY <2>4, <2>5, <2>6
  <2>9. Good(cut.d, told)
    BY <1>2, <1>12, <2>3, <2>7, PlainGood
  <2>10. r.d = cut.d /\ r.events = told
    BY <2>8
  <2>11. CutTo(n.heard, r)
    BY <1>12, <2>8, <2>9, <2>10 DEF CutTo
  <2> QED
    BY <2>11 DEF r
<1> QED
  BY <1>14, <1>15

DecoderBounds ==
    /\ Lookahead \in Nat /\ MinEndpoint \in Nat /\ MinPcm \in Nat /\ MinPcm <= MinEndpoint
    /\ Capacity \in Nat \ {0} /\ Block \in Nat \ {0} /\ Block <= Capacity
    /\ MaxUnits \in Nat /\ MaxChunk \in Nat

LEMMA DecoderAssumed == DecoderBounds
BY TextsAssumption DEF DecoderBounds, Decoder!RefinedAssumption, Decoder!DecoderAssumption

LEMMA PartOfNothing ==
    ASSUME NEW before, NEW ends, NEW bad
    PROVE  Decoder!Part(before, 0, ends, bad) = before
BY DEF Decoder!Part

LEMMA CutDone ==
    ASSUME NEW d, d.refining, NEW units, NEW r, CutTo(d.preview.heard + units, r),
           Capacity \in Nat \ {0}
    PROVE  PartDone(d, units, r)
<1>1. 0 < Capacity
  OBVIOUS
<1> QED
  BY <1>1 DEF CutTo, PartDone

LEMMA PartIsDone ==
    ASSUME NEW d, NEW ev, Good(d, ev), d.pcm < Capacity, NEW units \in Nat,
           d.refining => d.pcm + units <= Capacity, NEW ends, NEW bad
    PROVE  PartDone(d, units, Decoder!Part([d |-> d, events |-> ev], units, ends, bad))
<1> DEFINE r == Decoder!Part([d |-> d, events |-> ev], units, ends, bad)
           n == Decoder!Accepted(d.preview, units, speech, ends).d
           pending == Decoder!Accepted(d.preview, units, speech, ends).events
           h == Decoder!Heard(pending)
           part == IF Decoder!SegmentOver(h) THEN Decoder!Front(h) ELSE h
           t == [d EXCEPT !.preview = n, !.pcm = @ + units, !.draft = Decoder!LastText(h, @)]
           w == [i \in DOMAIN part |-> Decoder!Shown(part[i])]
<1>1. /\ Lookahead \in Nat /\ MinEndpoint \in Nat /\ MinPcm \in Nat
      /\ MinPcm <= MinEndpoint /\ Capacity \in Nat \ {0}
  BY DecoderAssumed DEF DecoderBounds
<1>2. Listening(d) /\ d \in Decs /\ d.pcm \in Nat /\ d.preview.heard \in Nat
  BY DEF Good, Listening, Decs, Streams
<1>3. Heeded(d, units, n, pending)
  BY <1>1, <1>2, Heeds
<1>4. n \in Streams /\ n.heard = d.preview.heard + units /\ pending \in Seq(Raw)
  BY <1>3 DEF Heeded
<1>5. CASE units = 0
  <2>1. r = [d |-> d, events |-> ev]
    BY <1>5, PartOfNothing
  <2> HIDE DEF r
  <2>2. r.d = d /\ r.events = ev /\ r = [d |-> r.d, events |-> r.events]
    BY <2>1
  <2>3. d.preview.heard + units = d.preview.heard /\ d.pcm + units # Capacity
    BY <1>1, <1>2, <1>5
  <2>4. PartDone(d, units, r)
    BY <2>2, <2>3, SMTT(40) DEF PartDone
  <2> QED
    BY <2>4 DEF r
<1>6. CASE units # 0 /\ ~d.refining
  <2>1. r = [d |-> [d EXCEPT !.preview = n], events |-> ev \o Decoder!FallbackEvents(pending)]
    BY <1>6 DEF Decoder!Part
  <2>2. PartDone(d, units, [d |-> [d EXCEPT !.preview = n],
                            events |-> ev \o Decoder!FallbackEvents(pending)])
    <3> HIDE DEF n, pending
    <3> QED
      BY <1>1, <1>3, <1>6, PlainPart
  <2> HIDE DEF r, n, pending
  <2>3. PartDone(d, units, r)
    BY <2>1, <2>2
  <2> QED
    BY <2>3 DEF r
<1>7. CASE units # 0 /\ d.refining
  <2>1. r = IF Decoder!SegmentOver(h) \/ t.pcm = Capacity
            THEN Decoder!Cut([d |-> t, events |-> ev \o w], pending, h, bad)
            ELSE [d |-> t, events |-> ev \o w]
    <3> HIDE DEF r
    <3>1. r = IF ~d.refining
              THEN [d |-> [d EXCEPT !.preview = n],
                    events |-> ev \o Decoder!FallbackEvents(pending)]
              ELSE IF Decoder!SegmentOver(h) \/ t.pcm = Capacity
              THEN Decoder!Cut([d |-> t, events |-> ev \o w], pending, h, bad)
              ELSE [d |-> t, events |-> ev \o w]
      BY <1>7 DEF r, Decoder!Part
    <3> HIDE DEF t, w, h
    <3> QED
      BY <1>7, <3>1
  <2> HIDE DEF r, n, pending
  <2>2. CASE h = pending /\ \A i \in DOMAIN pending : pending[i].kind = "partial"
    <3>1. ~Decoder!SegmentOver(h)
      <4> HIDE DEF h
      <4> QED
        BY <1>4, <2>2, HeardAll
    <3>2. part = pending
      <4> HIDE DEF h
      <4> QED
        BY <2>2, <3>1
    <3>3. Drafts(pending, Len(pending), w)
      <4>1. DOMAIN pending = 1 .. Len(pending) /\ Len(pending) \in Nat
        BY <1>4
      <4>2. DOMAIN part = 1 .. Len(pending) /\ \A i \in 1 .. Len(pending) : part[i] = pending[i]
        <5> HIDE DEF part
        <5> QED
          BY <3>2, <4>1
      <4>3. \A i \in 1 .. Len(pending) : pending[i].kind = "partial"
        BY <2>2, <4>1
      <4> HIDE DEF part
      <4> QED
        BY <1>4, <4>1, <4>2, <4>3, DraftsAre, SMTT(40)
    <3>7. Decoder!LastText(h, d.draft) = n.last /\ n.last \in SUBSET speech
      <4>1. d.draft = d.preview.last
        BY <1>2, <1>7 DEF Listening
      <4>2. Shows(pending, d.preview.last) = n.last
        BY <1>3 DEF Heeded
      <4>3. Decoder!LastText(pending, d.draft) = Shows(pending, d.draft)
        BY <1>4, <2>2, HeardAll
      <4>4. n.last \in SUBSET speech
        BY <1>4 DEF Streams
      <4> HIDE DEF h
      <4> QED
        BY <2>2, <4>1, <4>2, <4>3, <4>4
    <3>8. TakenAs(d, n, units, n.last, t)
      <4> DEFINE x == n.last
      <4>2. t = [d EXCEPT !.preview = n, !.pcm = @ + units, !.draft = x]
        <5> HIDE DEF h
        <5> QED
          BY <3>7
      <4>1. x \in SUBSET speech
        BY <3>7
      <4> HIDE DEF x, t
      <4>3. TakenAs(d, n, units, x, [d EXCEPT !.preview = n, !.pcm = @ + units, !.draft = x])
        BY <1>2, <1>4, <4>1, TakenFields
      <4>4. TakenAs(d, n, units, x, t)
        BY <4>2, <4>3
      <4> QED
        BY <4>4 DEF x
    <3> HIDE DEF t, w, h, part
    <3>4. Good(t, ev \o w) /\ t.pcm = d.pcm + units /\ t.refining /\ t.preview = n
      <4>1. \A i \in DOMAIN pending : pending[i].kind = "partial"
        BY <2>2
      <4>2. TakenWell(d, units, n, ev, t, w)
        BY <1>3, <1>7, <3>3, <3>8, <4>1, TakenGood
      <4> QED
        BY <4>2 DEF TakenWell
    <3>5. CASE t.pcm = Capacity
      <4>1. r = Decoder!Cut([d |-> t, events |-> ev \o w], pending, h, bad)
        BY <2>1, <3>5
      <4>2. CutTo(t.preview.heard, r)
        BY <3>1, <3>4, <4>1, CutAtLimit
      <4>3. t.preview.heard = d.preview.heard + units
        BY <1>4, <3>4
      <4>4. PartDone(d, units, r)
        BY <1>1, <1>7, <4>2, <4>3, CutDone
      <4> QED
        BY <4>4 DEF r
    <3>6. CASE t.pcm # Capacity
      <4>1. r = [d |-> t, events |-> ev \o w]
        BY <2>1, <3>1, <3>6
      <4>2. r.d = t /\ r.events = ev \o w /\ r = [d |-> r.d, events |-> r.events]
        BY <4>1
      <4>3. d.pcm + units < Capacity
        <5>1. d.pcm + units <= Capacity /\ d.pcm + units # Capacity
          BY <1>7, <3>4, <3>6
        <5> QED
          BY <1>1, <1>2, <5>1
      <4>4. t.preview.heard = d.preview.heard + units
        BY <1>4, <3>4
      <4>5. d.pcm + units # Capacity
        BY <1>1, <1>2, <4>3
      <4>6. PartDone(d, units, r)
        BY <1>7, <3>4, <4>2, <4>3, <4>4, <4>5 DEF PartDone
      <4> QED
        BY <4>6 DEF r
    <3> QED
      BY <3>5, <3>6
  <2>3. ASSUME NEW k \in DOMAIN pending, HeardTo(pending, k, h)
        PROVE  PartDone(d, units, r)
    <3>1. /\ Decoder!SegmentOver(h) /\ k \in 1 .. Len(pending)
          /\ Decoder!LastText(h, d.draft) = pending[k].text
          /\ DOMAIN Decoder!Front(h) = 1 .. k - 1
          /\ \A i \in 1 .. k - 1 : Decoder!Front(h)[i] = pending[i]
      <4> HIDE DEF h
      <4> QED
        BY <1>4, <2>3, HeardEnd
    <3>2. part = Decoder!Front(h)
      BY <3>1
    <3>3. /\ DOMAIN part = 1 .. k - 1 /\ \A i \in 1 .. k - 1 : part[i] = pending[i]
          /\ k - 1 \in Nat /\ k - 1 <= Len(pending)
          /\ \A i \in 1 .. k - 1 : pending[i].kind = "partial"
      <4>1. DOMAIN part = 1 .. k - 1 /\ \A i \in 1 .. k - 1 : part[i] = pending[i]
        BY <3>1, <3>2
      <4>2. k - 1 \in Nat /\ k - 1 <= Len(pending)
        BY <1>4, <3>1
      <4>3. \A i \in 1 .. k - 1 : pending[i].kind = "partial"
        BY <2>3 DEF HeardTo
      <4> QED
        BY <4>1, <4>2, <4>3
    <3>4. Drafts(pending, k - 1, w)
      <4> HIDE DEF part
      <4> QED
        BY <1>4, <3>3, DraftsAre
    <3>5. TakenAs(d, n, units, pending[k].text, t)
      <4> DEFINE x == pending[k].text
      <4>1. x \in SUBSET speech
        <5>1. pending[k] \in Raw
          BY <1>4, <2>3
        <5> QED
          BY <5>1 DEF Raw
      <4>2. t = [d EXCEPT !.preview = n, !.pcm = @ + units, !.draft = x]
        <5> HIDE DEF h
        <5> QED
          BY <3>1
      <4> HIDE DEF x, t
      <4>3. TakenAs(d, n, units, x, [d EXCEPT !.preview = n, !.pcm = @ + units, !.draft = x])
        BY <1>2, <1>4, <4>1, TakenFields
      <4>4. TakenAs(d, n, units, x, t)
        BY <4>2, <4>3
      <4> QED
        BY <4>4 DEF x
    <3> HIDE DEF t, w, h, part
    <3>6. r = Decoder!Cut([d |-> t, events |-> ev \o w], pending, h, bad)
      BY <2>1, <3>1
    <3>7. CutTo(n.heard, r)
      <4>1. CutTo(n.heard, Decoder!Cut([d |-> t, events |-> ev \o w], pending, h, bad))
        BY <1>1, <1>3, <1>7, <2>3, <3>4, <3>5, CutAtEnd
      <4> QED
        BY <3>6, <4>1
    <3>8. CutTo(d.preview.heard + units, r)
      BY <1>4, <3>7
    <3> QED
      BY <1>1, <1>7, <3>8, CutDone
  <2>4. \/ h = pending /\ \A i \in DOMAIN pending : pending[i].kind = "partial"
        \/ \E k \in DOMAIN pending : HeardTo(pending, k, h)
    BY <1>4, HeardIs
  <2>5. PartDone(d, units, r)
    <3> HIDE DEF h
    <3> QED
      BY <2>2, <2>3, <2>4 DEF r
  <2> QED
    BY <2>5 DEF r
<1> QED
  BY <1>5, <1>6, <1>7

LEMMA QuotientIs ==
    ASSUME NEW u \in Nat, NEW b \in Nat \ {0}
    PROVE  \E q, r \in Nat : q = u \div b /\ r = u % b /\ q * b + r = u /\ r < b
<1>1. u \div b \in Nat /\ u % b \in Nat /\ u % b < b
  OBVIOUS
<1>2. \A q, r \in Nat : q = u \div b /\ r = u % b => q * b + r = u
  <2> SUFFICES ASSUME NEW q \in Nat, NEW r \in Nat, q = u \div b, r = u % b
               PROVE  q * b + r = u
    OBVIOUS
  <2> QED
    BY SMTT(30)
<1> QED
  BY <1>1, <1>2

LEMMA TimesLess ==
    ASSUME NEW b \in Nat \ {0}, NEW q \in Nat, NEW m \in Nat, q < m
    PROVE  q * b + b <= m * b
<1>1. PICK k \in Nat : m = q + 1 + k
  <2>1. m - q - 1 \in Nat /\ m = q + 1 + (m - q - 1)
    OBVIOUS
  <2> QED
    BY <2>1
<1>2. m * b = q * b + b + k * b /\ k * b >= 0
  BY <1>1
<1> QED
  BY <1>2

LEMMA LastBlock ==
    ASSUME NEW u \in Nat, NEW b \in Nat \ {0}, NEW m \in Nat, m * b <= u, u < m * b + b
    PROVE  u % b = u - m * b
<1>1. PICK q \in Nat, r \in Nat : q = u \div b /\ r = u % b /\ q * b + r = u /\ r < b
  BY QuotientIs
<1>2. ~(q < m)
  BY <1>1, TimesLess
<1>3. ~(m < q)
  BY <1>1, TimesLess
<1>5. q = m
  BY <1>1, <1>2, <1>3
<1> QED
  BY <1>1, <1>5

LEMMA BlockCount ==
    ASSUME NEW u \in Nat, NEW b \in Nat \ {0}
    PROVE  \E n \in Nat : /\ n = (u + b - 1) \div b /\ u <= n * b
                          /\ \A m \in Nat : m + 1 <= n => m * b < u
<1>0. u + b - 1 \in Nat
  OBVIOUS
<1>1. PICK n \in Nat, r \in Nat : n = (u + b - 1) \div b /\ n * b + r = u + b - 1 /\ r < b
  BY <1>0, QuotientIs
<1>2. u <= n * b
  BY <1>1
<1>3. ASSUME NEW m \in Nat, m + 1 <= n
      PROVE  m * b < u
  <2>1. m * b + b <= n * b
    BY <1>3, TimesLess
  <2> QED
    BY <1>1, <2>1
<1> QED
  BY <1>1, <1>2, <1>3

\* Audio was taken: everything is accounted for, and the retained audio is
\* under its limit.
Run(heard, r) ==
    /\ r = [d |-> r.d, events |-> r.events] /\ Good(r.d, r.events)
    /\ r.d.pcm < Capacity /\ r.d.preview.heard = heard

LEMMA BlockRuns ==
    ASSUME NEW before, NEW heard \in Nat, Run(heard, before), NEW units \in Nat,
           units <= Capacity, NEW ends, NEW bad
    PROVE  Run(heard + units, Decoder!BlockTaken(before, units, ends, bad))
<1> DEFINE d == before.d
           ev == before.events
           first == Decoder!FirstPart(before, units)
           r1 == Decoder!Part(before, first, ends, bad)
           r == Decoder!Part(r1, units - first, ends, bad)
<1>1. Decoder!BlockTaken(before, units, ends, bad) = r
  BY DEF Decoder!BlockTaken
<1>2. /\ before = [d |-> d, events |-> ev] /\ Good(d, ev) /\ d.pcm < Capacity
      /\ d.preview.heard = heard
  BY DEF Run
<1>3. d.pcm \in Nat /\ Capacity \in Nat
  BY <1>2, DecoderAssumed DEF DecoderBounds, Good, Listening, Decs
<1>4. first = IF units < Capacity - d.pcm THEN units ELSE Capacity - d.pcm
  BY DEF Decoder!FirstPart
<1> HIDE DEF d, ev, first
<1>5. /\ first \in Nat /\ first <= units /\ d.pcm + first <= Capacity
      /\ units - first \in Nat
      /\ (first # units => d.pcm + first = Capacity) /\ units - first <= units
  BY <1>2, <1>3, <1>4
<1>6. PartDone(d, first, r1)
  <2>1. PartDone(d, first, Decoder!Part([d |-> d, events |-> ev], first, ends, bad))
    BY <1>2, <1>5, PartIsDone
  <2> QED
    BY <1>2, <2>1
<1> DEFINE d1 == r1.d
           ev1 == r1.events
           left == units - first
<1>7. /\ r1 = [d |-> d1, events |-> ev1] /\ Good(d1, ev1) /\ d1.pcm < Capacity
      /\ d1.preview.heard = heard + first
      /\ ~d.refining => ~d1.refining
      /\ d1.refining /\ d.pcm + first = Capacity => d1.pcm = 0
  BY <1>2, <1>6 DEF PartDone
<1>8. d1.pcm \in Nat
  BY <1>7 DEF Good, Listening, Decs
<1> HIDE DEF r1, d1, ev1
<1>9. d1.refining => d1.pcm + left <= Capacity
  <2> SUFFICES ASSUME d1.refining
               PROVE  d1.pcm + left <= Capacity
    OBVIOUS
  <2>1. CASE first = units
    BY <1>3, <1>5, <1>7, <1>8, <2>1
  <2>2. CASE first # units
    <3>1. d1.pcm = 0
      BY <1>5, <1>7, <2>2
    <3> QED
      BY <1>3, <1>5, <3>1
  <2> QED
    BY <2>1, <2>2
<1>10. PartDone(d1, left, r)
  <2>1. left \in Nat
    BY <1>5
  <2> HIDE DEF left
  <2>2. PartDone(d1, left, Decoder!Part([d |-> d1, events |-> ev1], left, ends, bad))
    BY <1>7, <1>9, <2>1, PartIsDone
  <2>3. r = Decoder!Part([d |-> d1, events |-> ev1], left, ends, bad)
    BY <1>7 DEF left
  <2> HIDE DEF r
  <2> QED
    BY <2>2, <2>3
<1>11. heard + first + left = heard + units
  BY <1>5
<1> HIDE DEF r, left
<1>12. Run(heard + units, r)
  BY <1>7, <1>10, <1>11 DEF PartDone, Run
<1> QED
  BY <1>1, <1>12

\* What accept() was given, cut into blocks, is taken.
LEMMA AllRuns ==
    ASSUME NEW base, NEW heard \in Nat, Run(heard, base), NEW units \in Nat, NEW ends, NEW bad
    PROVE  Run(heard + units, BlocksTaken(base, Decoder!Blocks(units), ends, bad))
<1> DEFINE s == Decoder!Blocks(units)
           P(m) == IF m * Block <= units THEN m * Block ELSE units
<1>1. Block \in Nat \ {0} /\ Capacity \in Nat /\ Block <= Capacity
  BY DecoderAssumed DEF DecoderBounds
<1>2. PICK n \in Nat : /\ n = (units + Block - 1) \div Block /\ units <= n * Block
                       /\ \A m \in Nat : m + 1 <= n => m * Block < units
  BY <1>1, BlockCount
<1>3. /\ DOMAIN s = 1 .. n
      /\ \A i \in 1 .. n : s[i] = IF i * Block <= units THEN Block ELSE units % Block
  BY <1>2 DEF Decoder!Blocks
<1> HIDE DEF s
<1>4. PICK h : IsTurns("block", base, s, ends, bad, n, h)
               /\ h[n] = Folded("block", base, s, ends, bad, n)[1 .. n]
  BY FoldTurns
<1>5. BlocksTaken(base, s, ends, bad) = h[n]
  BY <1>3, <1>4, BlocksFold
<1> DEFINE S == {m \in Nat : m <= n => Run(heard + P(m), h[m])}
<1>6. 0 \in S
  <2>1. h[0] = base /\ P(0) = 0 /\ heard + 0 = heard
    BY <1>1, <1>4 DEF IsTurns
  <2> HIDE DEF P
  <2> QED
    BY <2>1
<1>7. ASSUME NEW m \in Nat, m \in S
      PROVE  m + 1 \in S
  <2> SUFFICES ASSUME m + 1 <= n
               PROVE  Run(heard + P(m + 1), h[m + 1])
    OBVIOUS
  <2>1. m \in 0 .. n /\ m + 1 \in 1 .. n /\ m <= n
    BY <1>2
  <2>2. Run(heard + P(m), h[m])
    BY <1>7, <2>1
  <2>3. m * Block < units /\ m * Block \in Nat /\ P(m) = m * Block
    BY <1>1, <1>2
  <2>4. h[m + 1] = Decoder!BlockTaken(h[m], s[m + 1], ends, bad)
    BY <1>4, <2>1 DEF IsTurns, Turn
  <2>5. (m + 1) * Block = m * Block + Block
    BY <1>1
  <2>6. s[m + 1] = IF m * Block + Block <= units THEN Block ELSE units % Block
    BY <1>3, <2>1, <2>5
  <2>7. /\ s[m + 1] \in Nat /\ s[m + 1] <= Capacity /\ P(m) + s[m + 1] = P(m + 1)
        /\ P(m) \in Nat
    <3>1. CASE m * Block + Block <= units
      BY <1>1, <2>3, <2>5, <2>6, <3>1
    <3>2. CASE ~(m * Block + Block <= units)
      <4>1. s[m + 1] = units - m * Block
        <5>1. m * Block <= units /\ units < m * Block + Block
          BY <1>1, <2>3, <3>2
        <5>2. units % Block = units - m * Block
          BY <1>1, <5>1, LastBlock
        <5> QED
          BY <2>6, <3>2, <5>2
      <4>2. P(m + 1) = units
        BY <2>5, <3>2
      <4> HIDE DEF P
      <4> QED
        BY <1>1, <2>3, <3>2, <4>1, <4>2
    <3> QED
      BY <3>1, <3>2
  <2> HIDE DEF P, S
  <2>8. Run(heard + P(m) + s[m + 1], h[m + 1])
    <3>1. heard + P(m) \in Nat
      BY <2>7
    <3>2. Run((heard + P(m)) + s[m + 1], Decoder!BlockTaken(h[m], s[m + 1], ends, bad))
      BY <2>2, <2>7, <3>1, BlockRuns
    <3> QED
      BY <2>4, <3>2
  <2>9. heard + P(m) + s[m + 1] = heard + P(m + 1)
    BY <2>7
  <2> QED
    BY <2>8, <2>9
<1> HIDE DEF S
<1>8. Nat \subseteq S
  BY <1>6, <1>7, Counting
<1>9. Run(heard + P(n), h[n])
  BY <1>8 DEF S
<1>10. P(n) = units
  BY <1>1, <1>2
<1> HIDE DEF P
<1> QED
  BY <1>5, <1>9, <1>10 DEF s

(***************************************************************************)
(* The recording                                                           *)
(***************************************************************************)
RecordedAt(d, ev) ==
    /\ mode \in {"refined", "plain"} /\ speech \subseteq 1 .. MaxUnits
    /\ d.preview.heard <= MaxUnits
    /\ ~d.finished => Good(d, ev) /\ d.pcm < Capacity
    /\ d.finished => d \in Decs /\ d.pcm = 0 /\ Account(ev, d.preview.heard, {})

Recorded == RecordedAt(dec, out)

LEMMA BeginsRecorded ==
    ASSUME Decoder!Init
    PROVE  Recorded
<1> DEFINE q == Decoder!Stream(0)
           flag == (mode = "refined")
<1>1. /\ mode \in {"refined", "plain"} /\ speech \in SUBSET (1 .. MaxUnits)
      /\ dec = [preview |-> q, pcm |-> 0, draft |-> {}, refining |-> flag, finished |-> FALSE]
      /\ out = <<>>
  BY DEF Decoder!Init, Decoder!Decoder
<1>2. q = [from |-> 0, upto |-> 0, heard |-> 0, last |-> {}, active |-> FALSE,
           finished |-> FALSE]
  BY DEF Decoder!Stream
<1>3. flag \in BOOLEAN /\ (flag => mode = "refined")
  <2>1. (~(~flag)) \in BOOLEAN
    BY Negation
  <2> QED
    BY <2>1
<1> HIDE DEF q, flag
<1>4. /\ q \in Streams /\ q.from = 0 /\ q.upto = 0 /\ q.heard = 0 /\ q.last = {}
      /\ q.active = FALSE /\ q.finished = FALSE
  BY <1>2 DEF Streams
<1>5. dec \in Decs
  BY <1>1, <1>3, <1>4 DEF Decs
<1>6. /\ dec.preview = q /\ dec.pcm = 0 /\ dec.draft = {} /\ dec.refining = flag
      /\ dec.finished = FALSE
  BY <1>1
<1>7. Spoken(0, 0) = {}
  BY SpokenFacts
<1>8. Steady(q)
  BY <1>4, <1>7 DEF Steady
<1>9. Listening(dec)
  BY <1>3, <1>4, <1>5, <1>6, <1>7, <1>8 DEF Listening
<1>10. Base(dec) = 0
  BY <1>4, <1>6 DEF Base
<1>11. Account(out, 0, {})
  <2>1. <<>> \in Seq(Events) /\ Once(<<>>)
    BY DEF Once
  <2> QED
    BY <1>1, <1>7, <2>1, NoEvents DEF Account
<1>12. Good(dec, out)
  BY <1>4, <1>6, <1>9, <1>10, <1>11 DEF Good
<1>13. 0 < Capacity /\ 0 <= MaxUnits
  BY DecoderAssumed DEF DecoderBounds
<1> QED
  BY <1>1, <1>4, <1>6, <1>12, <1>13 DEF Recorded, RecordedAt

LEMMA AcceptRecords ==
    ASSUME Recorded, NEW units \in Nat, dec.preview.heard + units <= MaxUnits, NEW ends, NEW bad,
           Decoder!Accept(units, ends, bad)
    PROVE  RecordedAt(dec', out')
<1> DEFINE base == [d |-> dec, events |-> out]
           heard == dec.preview.heard
           after == BlocksTaken(base, Decoder!Blocks(units), ends, bad)
<1>1. ~dec.finished /\ dec' = after.d /\ out' = after.events
  BY DEF Decoder!Accept, BlocksTaken
<1>2. Good(dec, out) /\ dec.pcm < Capacity
  BY <1>1 DEF Recorded, RecordedAt
<1>3. heard \in Nat
  BY <1>2 DEF Good, Listening, Decs, Streams
<1>4. Run(heard, base)
  BY <1>2 DEF Run
<1> HIDE DEF base
<1>5. Run(heard + units, after)
  <2> HIDE DEF heard
  <2> QED
    BY <1>3, <1>4, AllRuns
<1> HIDE DEF after
<1>6. Good(dec', out') /\ dec'.pcm < Capacity /\ dec'.preview.heard = heard + units
  BY <1>1, <1>5 DEF Run
<1>7. ~dec'.finished
  BY <1>6 DEF Good, Listening
<1> QED
  BY <1>6, <1>7 DEF Recorded, RecordedAt

Flushing(p, end) ==
    /\ end.d \in Streams /\ end.d.heard = p.heard
    /\ end.events \in Seq(Raw) /\ Ordered(end.events)
    /\ \A i \in DOMAIN end.events : end.events[i].text \subseteq Spoken(p.from, p.heard)
    /\ Held(end.events) = Spoken(p.from, p.heard) /\ Shows(end.events, p.last) = {}

LEMMA FinishedFlushes ==
    ASSUME NEW p, Steady(p)
    PROVE  Flushing(p, Decoder!Finished(p, speech))
<1> DEFINE all == Spoken(p.from, p.heard)
           end == Decoder!Finished(p, speech)
           e == [kind |-> "final", text |-> all]
<1>1. /\ p \in Streams /\ ~p.finished /\ p.from <= p.upto /\ p.upto <= p.heard
      /\ p.last = Spoken(p.from, p.upto) /\ (p.active <=> p.last # {})
  BY DEF Steady
<1>2. Decoder!Flushed(p, speech) = all /\ all \in SUBSET speech
  BY <1>1 DEF Decoder!Flushed, Decoder!Text, Spoken, Streams
<1>3. end.d = [p EXCEPT !.upto = p.heard, !.from = p.heard, !.last = {},
                        !.active = FALSE, !.finished = TRUE]
      /\ end.events = IF p.active \/ all # {} THEN <<e>> ELSE <<>>
  BY <1>1, <1>2 DEF Decoder!Finished, Decoder!Final
<1>4. end.d \in Streams /\ end.d.heard = p.heard
  BY <1>1, <1>3 DEF Streams
<1>5. e \in Raw /\ e.kind = "final" /\ e.text = all
  BY <1>2 DEF Raw
<1> HIDE DEF end, e, all
<1>6. CASE p.active \/ all # {}
  <2> DEFINE w == <<e>>
  <2>1. w \in Seq(Raw) /\ Len(w) = 1 /\ DOMAIN w = {1} /\ w[1] = e /\ w # <<>>
    BY <1>5
  <2>2. end.events = w
    BY <1>3, <1>6
  <2> HIDE DEF w
  <2>3. Ordered(w)
    BY <2>1 DEF Ordered
  <2>4. Held(w) = all
    BY <1>2, <1>5, <2>1 DEF Held
  <2>5. Shows(w, p.last) = {}
    BY <1>5, <2>1 DEF Shows
  <2>6. \A i \in DOMAIN w : w[i].text \subseteq all
    BY <1>5, <2>1
  <2> QED
    BY <1>4, <2>1, <2>2, <2>3, <2>4, <2>5, <2>6 DEF Flushing, all, end
<1>7. CASE ~(p.active \/ all # {})
  <2>1. end.events = <<>> /\ all = {} /\ p.last = {}
    BY <1>1, <1>3, <1>7
  <2>2. \A i \in DOMAIN end.events : end.events[i].text \subseteq all
    BY <2>1
  <2>3. end.events \in Seq(Raw)
    BY <2>1
  <2> QED
    BY <1>4, <2>1, <2>2, <2>3, NoEvents DEF Flushing, all, end
<1> QED
  BY <1>6, <1>7

EndedWell(d, ev, heard) ==
    /\ d \in Decs /\ d.pcm = 0 /\ d.finished /\ d.preview.heard = heard
    /\ Account(ev, heard, {})

LEMMA MarkedFinished ==
    ASSUME NEW d \in Decs
    PROVE  LET x == [d EXCEPT !.finished = TRUE]
           IN  x \in Decs /\ x.pcm = d.pcm /\ x.finished /\ x.preview = d.preview
BY DEF Decs

LEMMA EndsPlain ==
    ASSUME Good(dec, out), ~dec.refining, NEW x, x = Decoder!Finished(dec.preview, speech)
    PROVE  EndedWell([[dec EXCEPT !.preview = x.d] EXCEPT !.finished = TRUE],
                     out \o Decoder!FallbackEvents(x.events), dec.preview.heard)
<1> DEFINE p == dec.preview
           w == Decoder!FallbackEvents(x.events)
           all == out \o w
           d == [dec EXCEPT !.preview = x.d]
           from == p.from
           top == p.heard
           shown == p.last
<1>1. /\ dec \in Decs /\ dec.pcm = 0 /\ Steady(p) /\ Account(out, from, shown)
  BY DEF Good, Listening, Base
<1>2. from \in Nat /\ top \in Nat /\ 0 <= from /\ from <= from /\ from <= top
  BY <1>1 DEF Steady, Streams
<1>3. Flushing(p, x)
  BY <1>1, FinishedFlushes
<1>4. /\ x.d \in Streams /\ x.d.heard = top /\ x.events \in Seq(Raw) /\ Ordered(x.events)
      /\ \A i \in DOMAIN x.events : x.events[i].text \subseteq Spoken(from, top)
      /\ Held(x.events) = Spoken(from, top) /\ Shows(x.events, shown) = {}
  BY <1>3 DEF Flushing
<1>5. /\ w \in Seq(Events) /\ DOMAIN w = DOMAIN x.events /\ Ordered(w)
      /\ Held(w) = Held(x.events) /\ Once(w)
      /\ \A last : Shows(w, last) = Shows(x.events, last)
      /\ \A i \in DOMAIN x.events : w[i].text = x.events[i].text
  BY <1>4, FallbackEventsAre
<1> HIDE DEF from, top, shown, w
<1>6. \A i \in DOMAIN w : w[i].text \subseteq Spoken(from, top)
  BY <1>4, <1>5
<1>7. Continued(from, shown, w, all)
  BY <1>1, <1>2, <1>5, <1>6, AccountConcat
<1> HIDE DEF all
<1>8. Held(all) = Spoken(0, top)
  <2>1. Spoken(0, from) \union Spoken(from, top) = Spoken(0, top)
    BY <1>2, SpokenFacts
  <2> QED
    BY <1>4, <1>5, <1>7, <2>1 DEF Continued
<1>9. Account(all, top, {})
  BY <1>4, <1>5, <1>7, <1>8 DEF Account, Continued
<1>10. /\ d \in Decs /\ d.preview = x.d /\ d.pcm = 0
  BY <1>1, <1>4, PreviewFields
<1> HIDE DEF d
<1> DEFINE z == [d EXCEPT !.finished = TRUE]
<1>11. z \in Decs /\ z.pcm = 0 /\ z.finished /\ z.preview.heard = top
  BY <1>4, <1>10, MarkedFinished
<1> HIDE DEF z
<1>12. EndedWell(z, all, top)
  BY <1>9, <1>11 DEF EndedWell
<1> QED
  BY <1>12 DEF z, d, all, w, top

LEMMA EndsBare ==
    ASSUME Good(dec, out), dec.refining, dec.pcm = 0
    PROVE  EndedWell([dec EXCEPT !.finished = TRUE], out, dec.preview.heard)
<1> DEFINE p == dec.preview
           z == [dec EXCEPT !.finished = TRUE]
<1>1. /\ dec \in Decs /\ Steady(p) /\ p.heard - dec.pcm <= p.from
      /\ Account(out, p.heard - dec.pcm, p.last)
  BY DEF Good, Listening, Base
<1>2. /\ p.from \in Nat /\ p.upto \in Nat /\ p.heard \in Nat
      /\ p.from <= p.upto /\ p.upto <= p.heard /\ p.last = Spoken(p.from, p.upto)
  BY <1>1 DEF Steady, Streams
<1>3. p.heard - dec.pcm = p.heard /\ p.from = p.upto
  BY <1>1, <1>2
<1>4. p.last = {}
  BY <1>2, <1>3, SpokenFacts
<1>5. Account(out, p.heard, {})
  BY <1>1, <1>3, <1>4
<1>6. z \in Decs /\ z.pcm = 0 /\ z.finished /\ z.preview.heard = p.heard
  BY <1>1, MarkedFinished
<1> HIDE DEF z
<1>7. EndedWell(z, out, p.heard)
  BY <1>5, <1>6 DEF EndedWell
<1> QED
  BY <1>7 DEF z

LEMMA EndsCorrected ==
    ASSUME Good(dec, out), dec.refining, NEW bad,
           NEW c, c = Decoder!Correct([d |-> Decoder!Drained(dec), events |-> out], bad)
    PROVE  EndedWell([c.d EXCEPT !.finished = TRUE], c.events, dec.preview.heard)
<1> DEFINE x == Decoder!Drained(dec)
           lo == dec.preview.heard - dec.pcm
           top == dec.preview.heard
           shown == dec.preview.last
           z == [c.d EXCEPT !.finished = TRUE]
<1>1. /\ Listening(dec) /\ mode = "refined" /\ ~dec.finished /\ dec \in Decs
      /\ Account(out, dec.preview.heard - dec.pcm, shown) /\ dec.pcm <= dec.preview.heard
  BY DEF Good, Listening, Base
<1>2. top \in Nat /\ dec.pcm \in Nat /\ lo \in Nat /\ lo <= top
  BY <1>1 DEF Decs, Streams
<1>3. /\ x \in Decs /\ x.pcm = dec.pcm /\ x.finished = dec.finished /\ x.preview.heard = top
      /\ x.draft = Spoken(lo, top)
  BY <1>1, DrainedIs
<1>0. c = Decoder!Correct([d |-> x, events |-> out], bad)
  OBVIOUS
<1> HIDE DEF x, shown
<1>4. /\ ~x.finished /\ lo <= x.preview.heard /\ lo = x.preview.heard - x.pcm
      /\ x.draft = Spoken(lo, x.preview.heard) /\ Account(out, lo, shown)
  BY <1>1, <1>2, <1>3
<1>5. Ended(x, c)
  <2> HIDE DEF lo, top
  <2> QED
    BY <1>0, <1>1, <1>2, <1>3, <1>4, SegmentEnds
<1>6. c.d \in Decs /\ c.d.pcm = 0 /\ c.d.preview = x.preview /\ Account(c.events, top, {})
  BY <1>3, <1>5 DEF Ended
<1>7. z \in Decs /\ z.pcm = 0 /\ z.finished /\ z.preview.heard = top
  BY <1>3, <1>6, MarkedFinished
<1> HIDE DEF z
<1>8. EndedWell(z, c.events, top)
  BY <1>6, <1>7 DEF EndedWell
<1> QED
  BY <1>8 DEF z, top

LEMMA FinishRecords ==
    ASSUME Recorded, NEW bad, Decoder!Finish(bad)
    PROVE  RecordedAt(dec', out')
<1>1. ~dec.finished
  BY DEF Decoder!Finish
<1>2. Good(dec, out) /\ dec.preview.heard <= MaxUnits
      /\ mode \in {"refined", "plain"} /\ speech \subseteq 1 .. MaxUnits
  BY <1>1 DEF Recorded, RecordedAt
<1>3. EndedWell(dec', out', dec.preview.heard)
  <2>1. CASE ~dec.refining
    <3> DEFINE x == Decoder!Finished(dec.preview, speech)
    <3>1. /\ dec' = [[dec EXCEPT !.preview = x.d] EXCEPT !.finished = TRUE]
          /\ out' = out \o Decoder!FallbackEvents(x.events)
      BY <2>1 DEF Decoder!Finish
    <3> HIDE DEF x
    <3>2. EndedWell([[dec EXCEPT !.preview = x.d] EXCEPT !.finished = TRUE],
                    out \o Decoder!FallbackEvents(x.events), dec.preview.heard)
      BY <1>2, <2>1, EndsPlain DEF x
    <3> QED
      BY <3>1, <3>2
  <2>2. CASE dec.refining /\ dec.pcm = 0
    <3>1. dec' = [dec EXCEPT !.finished = TRUE] /\ out' = out
      BY <2>2 DEF Decoder!Finish
    <3> QED
      BY <1>2, <2>2, <3>1, EndsBare
  <2>3. CASE dec.refining /\ dec.pcm # 0
    <3> DEFINE c == Decoder!Correct([d |-> Decoder!Drained(dec), events |-> out], bad)
    <3>1. dec' = [c.d EXCEPT !.finished = TRUE] /\ out' = c.events
      BY <2>3 DEF Decoder!Finish
    <3>2. EndedWell([c.d EXCEPT !.finished = TRUE], c.events, dec.preview.heard)
      BY <1>2, <2>3, EndsCorrected
    <3> HIDE DEF c
    <3> QED
      BY <3>1, <3>2
  <2> QED
    BY <2>1, <2>2, <2>3
<1> QED
  BY <1>2, <1>3 DEF EndedWell, RecordedAt

\* What holds of the new decoder holds after the step: the audio is the same.
LEMMA SameAudio ==
    ASSUME mode' = mode, speech' = speech, RecordedAt(dec', out')
    PROVE  Recorded'
<1>1. Held(out)' = Held(out')
  BY DEF Held
<1>2. Ordered(out)' <=> Ordered(out')
  BY DEF Ordered
<1>3. Once(out)' <=> Once(out')
  BY DEF Once, PunctuatedBy
<1>4. Shows(out, {})' = Shows(out', {})
  BY DEF Shows
<1>5. Events' = Events /\ Streams' = Streams /\ Decs' = Decs
  BY DEF Events, Streams, Decs
<1>6. Steady(dec.preview)' <=> Steady(dec'.preview)
  BY <1>5 DEF Steady, Spoken
<1>7. Listening(dec)' <=> Listening(dec')
  BY <1>5, <1>6 DEF Listening, Spoken
<1>8. Base(dec)' = Base(dec')
  BY DEF Base
<1>9. Account(out, Base(dec), dec.preview.last)' <=> Account(out', Base(dec'), dec'.preview.last)
  BY <1>1, <1>2, <1>3, <1>4, <1>5, <1>8 DEF Account, Spoken
<1>10. Account(out, dec.preview.heard, {})' <=> Account(out', dec'.preview.heard, {})
  BY <1>1, <1>2, <1>3, <1>4, <1>5 DEF Account, Spoken
<1>11. Good(dec, out)' <=> Good(dec', out')
  BY <1>7, <1>9 DEF Good
<1> QED
  BY <1>5, <1>10, <1>11 DEF Recorded, RecordedAt

LEMMA NextRecords ==
    ASSUME Recorded, [TextsNext]_<<program, vars, decoderVars, textVars>>
    PROVE  Recorded'
<1>1. CASE UNCHANGED decoderVars
  <2>1. mode' = mode /\ speech' = speech /\ dec' = dec /\ out' = out
    BY <1>1 DEF decoderVars
  <2>2. RecordedAt(dec', out')
    BY <2>1 DEF Recorded
  <2> QED
    BY <2>1, <2>2, SameAudio
<1>2. ASSUME NEW units \in 1 .. MaxChunk, dec.preview.heard + units <= MaxUnits,
             NEW ends, NEW bad, Decoder!Accept(units, ends, bad)
      PROVE  Recorded'
  <2>1. mode' = mode /\ speech' = speech
    BY <1>2 DEF Decoder!Accept
  <2>2. units \in Nat
    BY DecoderAssumed DEF DecoderBounds
  <2>3. RecordedAt(dec', out')
    BY <1>2, <2>2, AcceptRecords
  <2> QED
    BY <2>1, <2>3, SameAudio
<1>3. ASSUME NEW bad, Decoder!Finish(bad)
      PROVE  Recorded'
  <2>1. mode' = mode /\ speech' = speech
    BY <1>3 DEF Decoder!Finish
  <2>2. RecordedAt(dec', out')
    BY <1>3, FinishRecords
  <2> QED
    BY <2>1, <2>2, SameAudio
<1>4. CASE Decoder!Next
  BY <1>1, <1>2, <1>3, <1>4 DEF Decoder!Next, Decoder!vars, decoderVars
<1> QED
  BY <1>1, <1>4 DEF TextsNext

LEMMA RecordedCovers ==
    ASSUME Recorded
    PROVE  Covered
<1> DEFINE heard == dec.preview.heard
<1>1. /\ mode \in {"refined", "plain"} /\ speech \subseteq 1 .. MaxUnits
      /\ heard <= MaxUnits /\ MaxUnits \in Nat /\ Capacity \in Nat \ {0}
  BY DecoderAssumed DEF Recorded, RecordedAt, DecoderBounds
<1>2. /\ dec \in Decs /\ dec.pcm < Capacity /\ dec.pcm <= heard /\ (~dec.refining => dec.pcm = 0)
      /\ out \in Seq(Events) /\ Ordered(out) /\ Once(out)
      /\ dec.finished => Held(out) = Spoken(0, heard) /\ Shows(out, {}) = {}
  <2>1. CASE ~dec.finished
    BY <2>1 DEF Recorded, RecordedAt, Good, Listening, Account
  <2>2. CASE dec.finished
    <3>1. dec \in Decs /\ dec.pcm = 0 /\ Account(out, heard, {})
      BY <2>2 DEF Recorded, RecordedAt
    <3>2. heard \in Nat
      BY <3>1 DEF Decs, Streams
    <3>3. 0 < Capacity /\ 0 <= heard
      BY <1>1, <3>2
    <3> QED
      BY <3>1, <3>3 DEF Account
  <2> QED
    BY <2>1, <2>2
<1>3. /\ dec.preview \in Streams /\ dec.pcm \in Nat /\ dec.draft \in SUBSET speech
      /\ dec.refining \in BOOLEAN /\ dec.finished \in BOOLEAN /\ heard \in 0 .. MaxUnits
  BY <1>1, <1>2 DEF Decs, Streams
<1>4. Decoder!TypeOK
  <2>1. dec.preview \in [from : Nat, upto : Nat, heard : 0 .. MaxUnits, last : SUBSET speech,
                         active : BOOLEAN, finished : BOOLEAN]
    BY <1>3 DEF Streams
  <2>2. out \in Seq([kind : {"partial", "final"}, text : SUBSET speech,
                     model : {"preview", "correction"}, ct : Nat])
    BY <1>2 DEF Events
  <2> QED
    BY <1>1, <1>2, <1>3, <2>1, <2>2 DEF Decoder!TypeOK
<1>5. /\ DOMAIN out = 1 .. Len(out) /\ Len(out) \in Nat
      /\ \A i \in DOMAIN out : out[i].text \subseteq speech
  BY <1>2, TextsSpoken
<1>6. \A i \in Decoder!Finals : i \in DOMAIN out /\ out[i].kind = "final"
  BY DEF Decoder!Finals
<1>7. Decoder!InOrder
  BY <1>2, <1>6 DEF Decoder!InOrder, Ordered
<1>8. ASSUME NEW i \in Decoder!Finals, NEW j \in Decoder!Finals, i # j
      PROVE  out[i].text \intersect out[j].text = {}
  <2>1. i \in DOMAIN out /\ j \in DOMAIN out /\ (i < j \/ j < i)
    BY <1>5, <1>6, <1>8
  <2>2. ASSUME NEW u \in out[i].text, u \in out[j].text
        PROVE  FALSE
    <3>1. u < u
      BY <1>2, <1>6, <2>1, <2>2 DEF Ordered
    <3>2. u \in Int
      <4>1. u \in speech
        BY <1>5, <2>1
      <4>2. speech \subseteq 1 .. MaxUnits
        BY <1>1
      <4> QED
        BY <4>1, <4>2
    <3> QED
      BY <3>1, <3>2
  <2> QED
    BY <2>2
<1>9. ASSUME dec.finished
      PROVE  Decoder!Committed(Len(out) + 1) = speech \intersect (1 .. heard)
  <2>1. \A j \in Decoder!Finals : j < Len(out) + 1
    BY <1>5, <1>6
  <2>2. Decoder!Committed(Len(out) + 1) = UNION {out[i].text : i \in Decoder!Finals}
    BY <2>1 DEF Decoder!Committed
  <2>3. UNION {out[i].text : i \in Decoder!Finals} = Held(out)
    BY <1>5 DEF Decoder!Finals, Held
  <2> QED
    BY <1>2, <1>9, <2>2, <2>3 DEF Spoken
<1>10. Decoder!CoveredOnce
  BY <1>8, <1>9 DEF Decoder!CoveredOnce
<1>11. Decoder!NothingDrafted
  BY <1>2 DEF Decoder!NothingDrafted, Decoder!Current, Shows, Decoder!Last
<1>12. Decoder!PcmBounded
  BY <1>2 DEF Decoder!PcmBounded
<1>13. Decoder!PunctuatedOnce
  BY <1>2, <1>6 DEF Decoder!PunctuatedOnce, Once, PunctuatedBy
<1> QED
  BY <1>4, <1>7, <1>10, <1>11, <1>12, <1>13 DEF Covered, Decoder!Covered

\* Every recording becomes a list of finals that holds its speech once, in
\* order, and went through one punctuation, however the audio is cut into
\* calls, wherever the model finds an endpoint and whichever correction fails.
THEOREM CoveredTheorem == TextsSpec => []Covered
<1>1. TextsInit => Recorded
  BY BeginsRecorded DEF TextsInit
<1>2. Recorded /\ [TextsNext]_<<program, vars, decoderVars, textVars>> => Recorded'
  BY NextRecords
<1>3. Recorded => Covered
  BY RecordedCovers
<1> QED
  BY <1>1, <1>2, <1>3, PTL DEF TextsSpec
===============================================================================
