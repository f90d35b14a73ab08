------------------------------ MODULE Chunking ------------------------------
(***************************************************************************)
(* chunkText (chunk/chunk-text.ts): a window of targetTokens over the      *)
(* tokens of a text, moved on by targetTokens - overlapTokens. A text is   *)
(* its number of tokens, a chunk the interval of the tokens it spans.      *)
(***************************************************************************)
EXTENDS Integers, Sequences

CONSTANTS targetTokens, overlapTokens

ASSUME WindowAssumption ==
    /\ targetTokens \in Nat \ {0}
    /\ overlapTokens \in 0..(targetTokens - 1)

\* The loop's locals after each token; "first" is the first span it still holds.
Scan[n \in Nat] ==
    IF n = 0 THEN [first |-> 1, chunks |-> <<>>, tokenAfterLastEmit |-> FALSE]
    ELSE LET before == Scan[n - 1]
         IN IF n - before.first + 1 = targetTokens
            THEN [first |-> before.first + targetTokens - overlapTokens,
                  chunks |-> Append(before.chunks, [first |-> before.first, last |-> n]),
                  tokenAfterLastEmit |-> FALSE]
            ELSE [before EXCEPT !.tokenAfterLastEmit = before.chunks # <<>>]

\* The tail is a chunk of its own, unless all of it is overlap already emitted.
LastChunk(scan, tokens) ==
    IF scan.first <= tokens /\ (scan.chunks = <<>> \/ scan.tokenAfterLastEmit)
    THEN <<[first |-> scan.first, last |-> tokens]>>
    ELSE <<>>

chunkText(tokens) == Scan[tokens].chunks \o LastChunk(Scan[tokens], tokens)

=============================================================================
