--------------------------- MODULE StreamingDecoder ---------------------------
(***************************************************************************)
(* StreamingDecoder of streaming_recognizer.py over one native stream.     *)
(* Audio is a sequence of numbered units, of which some are speech; a text *)
(* is the set of speech units it was recognised from.  The model decodes   *)
(* unit after unit and keeps Lookahead units back until the input ends.    *)
(* `ends' are the units at which it would detect an endpoint, which it     *)
(* does not do before MinEndpoint units.                                   *)
(***************************************************************************)
EXTENDS Integers, Sequences, SequencesExt

CONSTANTS Lookahead, MinEndpoint

DecoderAssumption == Lookahead \in Nat /\ MinEndpoint \in Nat \ {0}

Partial(text) == [kind |-> "partial", text |-> text]
Final(text) == [kind |-> "final", text |-> text]

\* A new decoder whose stream begins after unit `at'.
Stream(at) == [from |-> at, upto |-> at, heard |-> at,
               last |-> {}, active |-> FALSE, finished |-> FALSE]

Text(d, speech) == speech \intersect (d.from + 1 .. d.upto)

Endpoint(d, events, text) ==
    [d |-> [d EXCEPT !.from = d.upto, !.last = {}, !.active = FALSE],
     events |-> IF d.active \/ text # {} THEN Append(events, Final(text)) ELSE events]

\* One turn of the loop of _decode().
Decoded(before, unit, speech, ends) ==
    LET d == [before.d EXCEPT !.upto = unit]
        text == Text(d, speech)
    IN  IF unit \in ends /\ unit - d.from >= MinEndpoint THEN Endpoint(d, before.events, text)
        ELSE IF text # d.last
        THEN [d |-> [d EXCEPT !.last = text, !.active = TRUE],
              events |-> Append(before.events, Partial(text))]
        ELSE [d |-> d, events |-> before.events]

Positions(d) == [i \in 1 .. d.heard - Lookahead - d.upto |-> d.upto + i]

Accepted(decoder, units, speech, ends) ==
    LET d == [decoder EXCEPT !.heard = @ + units]
    IN  FoldLeft(LAMBDA before, unit : Decoded(before, unit, speech, ends),
                 [d |-> d, events |-> <<>>], Positions(d))

Flushed(d, speech) == Text([d EXCEPT !.upto = d.heard], speech)

Finished(d, speech) ==
    [d |-> [d EXCEPT !.upto = d.heard, !.from = d.heard, !.last = {},
                     !.active = FALSE, !.finished = TRUE],
     events |-> IF ~d.finished /\ (d.active \/ Flushed(d, speech) # {})
                THEN <<Final(Flushed(d, speech))>> ELSE <<>>]
=============================================================================
