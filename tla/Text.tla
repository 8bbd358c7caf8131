-------------------------------- MODULE Text --------------------------------
(***************************************************************************)
(* text.py and the acceptance test of punctuation.py.  A text is its       *)
(* characters other than white space, by their class, each with whether    *)
(* white space is before it: runs of it are one space and the ends are     *)
(* stripped.  "url" is the beginning of an address (www and a dot), "fw" a *)
(* full-width mark, "!" also stands for "?" and ";".                       *)
(***************************************************************************)
EXTENDS Naturals, Sequences, FiniteSets

CONSTANTS Alphabet,     \* classes of characters
          MaxText,      \* bound: characters the recognizer returns
          MaxRestored   \* bound: characters the punctuation model returns

Letters == {"a"}
Digits == {"1"}
Alnum == Letters \union Digits
AsciiMarks == {",", "!"}
Marks == AsciiMarks \union {"fw"}
Characters == Alnum \union Marks \union {"han", "url"}

TextAssumption == Alphabet \subseteq Characters /\ MaxText \in Nat /\ MaxRestored \in Nat

VARIABLES text,      \* a final text of the recognizer
          restored   \* what the punctuation model returned for it
vars == <<text, restored>>

Between(t, i, left, right) == t[i - 1].ch \in left /\ t[i].ch \in right

(***************************************************************************)
(* finalize_text().  An address goes on up to white space or a full-width  *)
(* mark; the rules see nothing of it.                                      *)
(***************************************************************************)
InAddress(t, i) ==
    \E j \in 1 .. i : /\ t[j].ch = "url"
                      /\ \A k \in j + 1 .. i : ~t[k].gap /\ t[k].ch # "fw"

Parsed(t) ==
    [i \in DOMAIN t |-> IF InAddress(t, i) THEN [t[i] EXCEPT !.ch = "url"] ELSE t[i]]

(***************************************************************************)
(* Each rule decides on the gap before character i > 1.                    *)
(***************************************************************************)
\* Slip: the Han on both sides are part of the match, so that the next one cannot begin there.
ClosedConsuming(t, i, gap) ==
    gap /\ ~(Between(t, i, {"han"}, {"han"}) /\ ~(i > 2 /\ t[i - 2].ch = "han" /\ t[i - 1].gap))
        /\ "fw" \notin {t[i - 1].ch, t[i].ch} /\ t[i].ch \notin AsciiMarks

\* White space is removed between Han and around marks.
Closed(t, i, gap) ==
    gap /\ ~Between(t, i, {"han"}, {"han"})
        /\ "fw" \notin {t[i - 1].ch, t[i].ch} /\ t[i].ch \notin AsciiMarks

\* Slip: a thousands separator is taken for a comma.
MarkedAlways(t, i, gap) == gap \/ Between(t, i, AsciiMarks, Alnum)

\* A comma after a digit may be a thousands separator.
Marked(t, i, gap) ==
    \/ gap
    \/ Between(t, i, {"!"}, Alnum)
    \/ Between(t, i, {","}, Letters)
    \/ Between(t, i, {","}, Digits) /\ ~(i > 2 /\ t[i - 2].ch \in Digits)

\* A letter with the letters and digits that follow it.
WordEnds(t, i) ==
    \E j \in 1 .. i : /\ t[j].ch \in Letters
                      /\ \A k \in j + 1 .. i : t[k].ch \in Alnum /\ ~t[k].gap

Mixed(t, i, gap) ==
    \/ gap
    \/ Between(t, i, {"han"}, Letters \union {"url"})
    \/ t[i].ch = "han" /\ WordEnds(t, i - 1)

Pass(t, Rule(_, _, _)) ==
    [i \in DOMAIN t |-> [t[i] EXCEPT !.gap = i > 1 /\ Rule(t, i, @)]]

Finalized(t) ==
    LET spaced == Pass(Pass(Pass(Parsed(t), Closed), Marked), Mixed)
    IN  [i \in DOMAIN t |-> [t[i] EXCEPT !.gap = spaced[i].gap]]

(***************************************************************************)
(* format_segment(): a final text after what is committed.                 *)
(***************************************************************************)
LeadingGap(tail, first) ==
    \/ tail \in Alnum \union AsciiMarks /\ first \in Alnum \union {"url"}
    \/ tail = "han" /\ first \in Letters \union {"url"}
    \/ tail \in Letters /\ first = "han"

Committed(segment, next) ==
    segment \o (IF segment = <<>> \/ next = <<>> THEN next
                ELSE [next EXCEPT ![1].gap = LeadingGap(segment[Len(segment)].ch, next[1].ch)])

(***************************************************************************)
(* _preserves_content(): the places of the original characters in the      *)
(* result, each the first that fits; all others must be marks.             *)
(***************************************************************************)
Fits(o, r, n, i) == n < Len(o) /\ r[i].ch = o[n + 1].ch

Matched(o, r) ==
    LET places[i \in 0 .. Len(r)] ==
            IF i = 0 THEN <<>>
            ELSE IF Fits(o, r, Len(places[i - 1]), i) THEN Append(places[i - 1], i)
            ELSE places[i - 1]
    IN  places[Len(r)]

\* Characters k and k + 1 are in one number with separators.
InNumber(o, k) ==
    \E i \in 1 .. k, j \in k + 1 .. Len(o) :
        /\ \A m \in i .. j : o[m].ch \in Digits \union {","}
        /\ \A m \in i + 1 .. j : ~o[m].gap
        /\ \A m \in i .. j : o[m].ch = "," => m > i /\ m < j /\ o[m - 1].ch # "," /\ o[m + 1].ch # ","
        /\ \E m \in i .. j : o[m].ch = ","

Unbroken(r, places, k) == places[k + 1] = places[k] + 1 /\ ~r[places[k + 1]].gap

NumbersKept(o, r, places) ==
    \A k \in 1 .. Len(o) - 1 : InNumber(o, k) => Unbroken(r, places, k)

WordsApart(o, r, places) ==
    \A k \in 1 .. Len(o) - 1 :
        o[k + 1].gap /\ Between(o, k + 1, Alnum, Alnum) => ~Unbroken(r, places, k)

PreservesContent(o, r) ==
    LET places == Matched(o, r)
    IN  /\ Len(places) = Len(o)
        /\ \A i \in DOMAIN r : (\A k \in DOMAIN o : places[k] # i) => r[i].ch \in Marks
        /\ NumbersKept(o, r, places) /\ WordsApart(o, r, places)

\* An empty, refused or failed restoration leaves the text as it was.
FinalText(t, r) == Finalized(IF r # <<>> /\ PreservesContent(t, r) THEN r ELSE t)

(***************************************************************************)
(* Every text, with every result of the model.                             *)
(***************************************************************************)
Init == text = <<>> /\ restored = <<>>

Grown(t, ch, gap) == Append(t, [ch |-> ch, gap |-> gap /\ t # <<>>])

Recognized(ch, gap) ==
    /\ restored = <<>> /\ Len(text) < MaxText
    /\ text' = Grown(text, ch, gap)
    /\ UNCHANGED restored

Restored(ch, gap) ==
    /\ text # <<>> /\ Len(restored) < MaxRestored
    /\ restored' = Grown(restored, ch, gap)
    /\ UNCHANGED text

Next == \E ch \in Alphabet, gap \in BOOLEAN : Recognized(ch, gap) \/ Restored(ch, gap)

Spec == Init /\ [][Next]_vars

(***************************************************************************)
(* Properties.                                                             *)
(***************************************************************************)
TypeOK ==
    /\ text \in Seq([ch: Alphabet, gap: BOOLEAN]) /\ Len(text) <= MaxText
    /\ restored \in Seq([ch: Alphabet, gap: BOOLEAN]) /\ Len(restored) <= MaxRestored
    /\ \A i \in DOMAIN text : Finalized(text)[i].ch = text[i].ch

\* The refining decoder and the session both apply finalize_text() to a text:
\* the second time changes nothing, although the rules feed one another and an address
\* may swallow what the first time moved up to it.
Settled == Finalized(Finalized(text)) = Finalized(text)

\* The reference: some choice of the places keeps every original character in
\* its order with only marks added, numbers whole and words apart.
Places(o, r) ==
    {f \in [DOMAIN o -> DOMAIN r] :
        /\ \A j, k \in DOMAIN o : j < k => f[j] < f[k]
        /\ \A k \in DOMAIN o : r[f[k]].ch = o[k].ch}

Preserved(o, r) ==
    \E f \in Places(o, r) :
        /\ \A i \in DOMAIN r : (\A k \in DOMAIN o : f[k] # i) => r[i].ch \in Marks
        /\ NumbersKept(o, r, f) /\ WordsApart(o, r, f)

\* Taking the first place that fits is as good as looking at all of them.
GreedyIsEnough == PreservesContent(text, restored) <=> Preserved(text, restored)

\* Whatever the punctuation model returns, the text that is typed has all the
\* characters of the recognizer in their order, whole numbers and separate words:
\* also after the spacing rules changed what was accepted.
NothingLost == text # <<>> => Preserved(text, FinalText(text, restored))

\* Both: a result is taken exactly when it keeps the content, and then it does
\* so also after the spacing rules.
ContentKept == TypeOK /\ GreedyIsEnough /\ NothingLost

\* As validation.md says, a result that breaks up a number is not taken.  The code does
\* not keep this (README, Disagreements).
NumbersUnbroken ==
    LET final == FinalText(text, restored) IN
    \A f \in Places(text, final) : \A k \in 1 .. Len(text) - 1 :
        Between(text, k + 1, Digits, Digits) /\ ~text[k + 1].gap => Unbroken(final, f, k)

\* As advanced-usage.md says, a space is between English and Chinese: a text that is
\* committed in two segments is spaced like one.  The code does not keep this
\* (README, Disagreements).
SegmentsSpaced ==
    \A k \in 1 .. Len(text) - 1 :
        LET next == [SubSeq(text, k + 1, Len(text)) EXCEPT ![1].gap = FALSE]
            both == Committed(Finalized(SubSeq(text, 1, k)), Finalized(next))
        IN  Finalized(both) = both
=============================================================================
