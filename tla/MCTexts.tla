------------------------------- MODULE MCTexts -------------------------------
(***************************************************************************)
(* Small instances, in one run, of what happens to a text on its way:      *)
(* its recognition, its punctuation, its spacing and its transport.  Each  *)
(* is a sequential part of the program with state of its own; in each      *)
(* behaviour one of them works.                                            *)
(***************************************************************************)
EXTENDS LineBuffer

CONSTANTS Lookahead, MinEndpoint, Capacity, Block, MinPcm, MaxUnits, MaxChunk,
          MaxSpaced,                  \* bound: characters that are spaced
          MaxPunctuated, MaxRestored  \* bounds: characters before and after punctuation

VARIABLES program, mode, speech, dec, out, text, restored

decoderVars == <<mode, speech, dec, out>>
textVars == <<text, restored>>

MCBytes == {"x", "y"}

Decoder == INSTANCE RefinedDecoder

Alphabet == {"1", ",", "fw"}
Punctuation == INSTANCE Text WITH MaxText <- MaxPunctuated

Spacing == INSTANCE Text WITH
    Alphabet <- Punctuation!Characters, MaxText <- MaxSpaced, MaxRestored <- 0

ASSUME TextsAssumption ==
    Decoder!RefinedAssumption /\ Punctuation!TextAssumption /\ Spacing!TextAssumption

TextsInit ==
    /\ program \in {"lines", "decoder", "spacing", "punctuation"}
    /\ Init /\ Decoder!Init /\ Spacing!Init
    /\ program # "decoder" => mode = "plain" /\ speech = {}

TextsNext ==
    /\ UNCHANGED program
    /\ \/ program = "lines" /\ Next /\ UNCHANGED <<decoderVars, textVars>>
       \/ program = "decoder" /\ Decoder!Next /\ UNCHANGED <<vars, textVars>>
       \/ program = "spacing" /\ Spacing!Next /\ UNCHANGED <<vars, decoderVars>>
       \/ program = "punctuation" /\ Punctuation!Next /\ UNCHANGED <<vars, decoderVars>>

TextsSpec == TextsInit /\ [][TextsNext]_<<program, vars, decoderVars, textVars>>

\* Every unit of speech is in one final text, in order, and punctuated once
\* (RefinedDecoder.Covered).
Covered == Decoder!Covered

\* A text that was spaced stays as it is (Text.Settled).
Settled == Spacing!Settled

\* What is taken from the punctuation model keeps the text (Text.ContentKept).
ContentKept == program = "punctuation" => Punctuation!ContentKept
=============================================================================
