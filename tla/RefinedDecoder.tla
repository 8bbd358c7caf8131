---------------------------- MODULE RefinedDecoder ----------------------------
(***************************************************************************)
(* RefinedStreamingDecoder of refined_recognizer.py: the preview decoder   *)
(* shows drafts, and each segment is recognised again from its audio by    *)
(* the correction model before it is final.  A correction fails for the    *)
(* segments that end at a unit of `bad'; then the rest of the recording is *)
(* plain streaming.  Without a correction model (build_streaming) all of   *)
(* it is.  Final texts say which model they come from and how often the    *)
(* punctuation model saw them.                                             *)
(***************************************************************************)
EXTENDS StreamingDecoder, FiniteSets

CONSTANTS Capacity,   \* MAX_BYTES
          Block,      \* BLOCK_BYTES
          MinPcm,     \* the 0.1 s that prepare_pcm asks for
          MaxUnits,   \* bound: units of audio in a recording
          MaxChunk    \* bound: units handed over in one call

RefinedAssumption ==
    /\ DecoderAssumption
    /\ Capacity \in Nat \ {0} /\ Block \in Nat \ {0} /\ MinPcm \in Nat
    /\ MaxUnits \in Nat /\ MaxChunk \in Nat
    /\ MinPcm <= MinEndpoint /\ Block <= Capacity

VARIABLES mode,     \* "refined", or "plain" when there is no correction model
          speech,   \* the units that are not digital silence
          dec,      \* the decoder
          out       \* history of its events

vars == <<mode, speech, dec, out>>

Decoder(refining) == [preview |-> Stream(0), pcm |-> 0, draft |-> {},
                      refining |-> refining, finished |-> FALSE]

Init ==
    /\ mode \in {"refined", "plain"}
    /\ speech \in SUBSET (1 .. MaxUnits)
    /\ dec = Decoder(mode = "refined")
    /\ out = <<>>

(***************************************************************************)
(* Texts.  build_streaming() gives the punctuation model to the decoder's  *)
(* fallback, or to the session when there is no correction.                *)
(***************************************************************************)
Shown(event) == [kind |-> event.kind, text |-> event.text, model |-> "preview", ct |-> 0]

SessionCt == IF mode = "plain" THEN 1 ELSE 0
FallbackCt == IF mode = "plain" THEN 0 ELSE 1

Fallback(event) ==
    [Shown(event) EXCEPT !.ct = IF event.kind = "final" THEN FallbackCt + SessionCt ELSE 0]

FallbackEvents(events) == [i \in DOMAIN events |-> Fallback(events[i])]

Corrected(text) == [kind |-> "final", text |-> text, model |-> "correction", ct |-> SessionCt]

(***************************************************************************)
(* _correct(): the final event of the retained audio.                      *)
(***************************************************************************)
Retained(d) == speech \intersect (d.preview.heard - d.pcm + 1 .. d.preview.heard)

Prepared(d) == d.pcm >= MinPcm /\ Retained(d) # {}

Fails(d, bad) == Prepared(d) /\ d.preview.heard \in bad

Correction(d, bad) ==
    IF Prepared(d) /\ ~Fails(d, bad) THEN Corrected(Retained(d)) ELSE Fallback(Final(d.draft))

Correct(before, bad) ==
    LET d == before.d
    IN  [d |-> [d EXCEPT !.pcm = 0, !.refining = ~Fails(d, bad)],
         events |-> Append(before.events, Correction(d, bad))]

LastText(events, draft) == IF events = <<>> THEN draft ELSE Last(events).text

Drained(d) ==
    LET end == Finished(d.preview, speech)
    IN  [d EXCEPT !.preview = end.d, !.draft = LastText(end.events, @)]

(***************************************************************************)
(* accept(), part by part.                                                 *)
(***************************************************************************)
NewPreview(d) == [d EXCEPT !.preview = Stream(d.preview.heard), !.draft = {}]

Rest(pending, first) == FallbackEvents(SubSeq(pending, first + 1, Len(pending)))

\* Slip: a new preview is begun even when the correction failed.
NeverKept(endpoint, refining) == FALSE

\* A failed correction did not cover what the preview holds back.
StreamKept(endpoint, refining) == endpoint /\ ~refining

\* The preview's events up to the first final.
Heard(pending) ==
    LET finals == {i \in DOMAIN pending : pending[i].kind = "final"}
    IN  IF finals = {} THEN pending
        ELSE SubSeq(pending, 1, CHOOSE i \in finals : \A j \in finals : i <= j)

SegmentOver(heard) == heard # <<>> /\ Last(heard).kind = "final"

\* The audio was taken.
Cut(before, pending, heard, bad) ==
    LET endpoint == SegmentOver(heard)
        cut == Correct([before EXCEPT !.d = IF endpoint THEN @ ELSE Drained(@)], bad)
    IN  IF StreamKept(endpoint, cut.d.refining)
        THEN [cut EXCEPT !.events = @ \o Rest(pending, Len(heard))]
        ELSE [cut EXCEPT !.d = NewPreview(@)]

Part(before, units, ends, bad) ==
    LET d == before.d
        next == Accepted(d.preview, units, speech, ends)
        heard == Heard(next.events)
        partials == IF SegmentOver(heard) THEN Front(heard) ELSE heard
        taken == [d |-> [d EXCEPT !.preview = next.d, !.pcm = @ + units,
                                  !.draft = LastText(heard, @)],
                  events |-> before.events \o [i \in DOMAIN partials |-> Shown(partials[i])]]
    IN  IF units = 0 THEN before
        ELSE IF ~d.refining
        THEN [d |-> [d EXCEPT !.preview = next.d],
              events |-> before.events \o FallbackEvents(next.events)]
        ELSE IF SegmentOver(heard) \/ taken.d.pcm = Capacity
        THEN Cut(taken, next.events, heard, bad)
        ELSE taken

FirstPart(before, units) ==
    LET remaining == Capacity - before.d.pcm IN IF units < remaining THEN units ELSE remaining

BlockTaken(before, units, ends, bad) ==
    LET first == FirstPart(before, units)
    IN  Part(Part(before, first, ends, bad), units - first, ends, bad)

Blocks(units) ==
    [i \in 1 .. (units + Block - 1) \div Block |->
        IF i * Block <= units THEN Block ELSE units % Block]

Accept(units, ends, bad) ==
    /\ ~dec.finished
    /\ LET after == FoldLeft(LAMBDA before, block : BlockTaken(before, block, ends, bad),
                             [d |-> dec, events |-> out], Blocks(units))
       IN  dec' = after.d /\ out' = after.events
    /\ UNCHANGED <<mode, speech>>

Finish(bad) ==
    /\ ~dec.finished
    /\ LET end == Finished(dec.preview, speech)
           after == IF ~dec.refining
                    THEN [d |-> [dec EXCEPT !.preview = end.d],
                          events |-> out \o FallbackEvents(end.events)]
                    ELSE IF dec.pcm = 0 THEN [d |-> dec, events |-> out]
                    ELSE Correct([d |-> Drained(dec), events |-> out], bad)
       IN  dec' = [after.d EXCEPT !.finished = TRUE] /\ out' = after.events
    /\ UNCHANGED <<mode, speech>>

\* A call decides about units it hands over or that are still held back.
Undecided(units) == dec.preview.upto + 1 .. dec.preview.heard + units

Next ==
    \/ \E units \in 1 .. MaxChunk :
          /\ dec.preview.heard + units <= MaxUnits
          /\ \E ends, bad \in SUBSET Undecided(units) : Accept(units, ends, bad)
    \/ \E bad \in SUBSET {dec.preview.heard} : Finish(bad)
    \/ dec.finished /\ UNCHANGED vars

Spec == Init /\ [][Next]_vars

(***************************************************************************)
(* Properties.                                                             *)
(***************************************************************************)
TypeOK ==
    /\ mode \in {"refined", "plain"}
    /\ speech \subseteq 1 .. MaxUnits
    /\ dec.preview \in [from: Nat, upto: Nat, heard: 0 .. MaxUnits, last: SUBSET speech,
                        active: BOOLEAN, finished: BOOLEAN]
    /\ dec.pcm \in Nat /\ dec.draft \subseteq speech
    /\ dec.refining \in BOOLEAN /\ dec.finished \in BOOLEAN
    /\ ~dec.refining => dec.pcm = 0
    /\ out \in Seq([kind: {"partial", "final"}, text: SUBSET speech,
                    model: {"preview", "correction"}, ct: Nat])

Finals == {i \in DOMAIN out : out[i].kind = "final"}
Committed(n) == UNION {out[i].text : i \in {j \in Finals : j < n}}

\* When the recording is over every unit of speech is in one final text, and
\* never in two: not lost between two segments, at the limit of the retained
\* audio, at an endpoint whose lookahead was discarded or after a correction
\* failed, and not repeated either.
CoveredOnce ==
    /\ \A i, j \in Finals : i # j => out[i].text \intersect out[j].text = {}
    /\ dec.finished => Committed(Len(out) + 1) = speech \intersect (1 .. dec.preview.heard)

\* Text comes in the order of the audio, and a draft never shows again what
\* an earlier final already holds.
InOrder ==
    \A i \in Finals, j \in DOMAIN out :
        i < j => \A u \in out[i].text, v \in out[j].text : u < v

\* The draft that apply() of transcribe() has kept, and that the add-on shows.
Current == IF out = <<>> \/ Last(out).kind = "final" THEN {} ELSE Last(out).text

\* At the end no draft is left, that transcribe() would print once more and a
\* dictation would never type.
NothingDrafted == dec.finished => Current = {}

\* The retained audio never exceeds its limit, and a segment that reached it is cut.
PcmBounded == dec.pcm < Capacity /\ dec.pcm <= dec.preview.heard

\* What the streaming model recognised is punctuated once, and what SenseVoice
\* punctuated itself is left alone, whichever models could be loaded.
PunctuatedOnce ==
    \A i \in Finals : out[i].ct = IF out[i].model = "preview" THEN 1 ELSE 0

\* All of them: a recording becomes a list of finals that holds its speech once,
\* in order, and went through one punctuation.
Covered ==
    TypeOK /\ CoveredOnce /\ InOrder /\ NothingDrafted /\ PcmBounded /\ PunctuatedOnce
=============================================================================
