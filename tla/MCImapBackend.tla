----------------------------- MODULE MCImapBackend -----------------------------
(* Two callers and two folders. *)
EXTENDS ImapBackend, TLC

MCLimits == {1, 2, NoLimit}

\* Callers that list the last message only.
LastOne == {1}

Interchangeable == Permutations(Tasks) \cup Permutations(Messages)

================================================================================
