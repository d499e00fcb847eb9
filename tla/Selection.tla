----------------------------- MODULE Selection -----------------------------
(***************************************************************************)
(* Parts of sequences: what a filter keeps of a sequence, in a form the    *)
(* proof system can reason about (SelectSeq is beyond it).                 *)
(***************************************************************************)
EXTENDS Naturals, Sequences

\* out is what is at the positions P of seq, in order.
IsSelection(out, seq, P) ==
    \E at \in [DOMAIN out -> P] :
        /\ \A i, j \in DOMAIN out : i < j => at[i] < at[j]
        /\ \A p \in P : \E i \in DOMAIN out : at[i] = p
        /\ \A i \in DOMAIN out : out[i] = seq[at[i]]

\* Iterator::filter and Vec::retain: one element after the other is kept if
\* it is at a position in P.
Keep(seq, P) ==
    LET kept[n \in 0..Len(seq)] ==
            IF n = 0 THEN <<>>
            ELSE IF n \in P THEN Append(kept[n - 1], seq[n]) ELSE kept[n - 1]
    IN  kept[Len(seq)]
=============================================================================
