--------------------------- MODULE SequenceParts ---------------------------
(***************************************************************************)
(* The elements of a set of numbers in order, and the part of a sequence   *)
(* that they number.                                                       *)
(***************************************************************************)
EXTENDS Integers, Sequences

\* The numbers of 1..n that are in S, in order, and the elements of q at the
\* places in S.
Ascending(S, n) ==
    LET upTo[k \in 0..n] == IF k = 0 THEN <<>>
                            ELSE IF k \in S THEN Append(upTo[k - 1], k) ELSE upTo[k - 1]
    IN  upTo[n]
Kept(q, S) == LET order == Ascending(S, Len(q)) IN [i \in DOMAIN order |-> q[order[i]]]
=============================================================================
