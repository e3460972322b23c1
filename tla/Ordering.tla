------------------------------- MODULE Ordering -------------------------------
(* SQL's ORDER BY with no two rows equal in the order, as the ledger and the *)
(* local store use it.                                                       *)
EXTENDS SequencesExt

\* The rows of a finite set, each once, in the order Less.
InOrder(S, Less(_, _)) ==
    CHOOSE s \in SetToSeqs(S) : \A i, j \in DOMAIN s : i < j => Less(s[i], s[j])

================================================================================
