----------------------------- MODULE MCCrabLedger -----------------------------
(* A small ledger: two rules, three keys of which one is no point of the    *)
(* curve, two days, and clients that submit, resubmit with an earlier and a *)
(* later day, and submit bodies the service has to refuse.                  *)
EXTENDS CrabLedger

CONSTANTS k1, k2, k3, h1, h2

MCRules == {1, 2}
MCPatterns == {1, 2}
\* The hash reverses the order of the bodies: ORDER BY pattern and MIN(rule)
\* do not agree by accident.
MCHash == [r \in MCRules |-> 3 - r]
MCKeys == {k1, k2, k3}
MCPoints == {k1, k2}
MCDays == {1, 2}
MCI64Min == 0
MCNonces == {"mined", "unmined"}
MCPowBits == [id \in MCPatterns \X MCKeys \X MCNonces |-> IF id[3] = "mined" THEN 1 ELSE 0]

Submit(signed, nonce) == [kind |-> "submit", signed |-> signed, pow_nonce |-> nonce]

Honest(k, r, d) == Submit(Sign(k, NewSuggestion(r, d)), "mined")

\* The body was changed after it was signed.
Altered == Submit([Sign(k1, NewSuggestion(1, 2)) EXCEPT !.suggestion.submitted_at_day = 1],
                  "mined")
\* Properly signed, but the hash is another rule's.
WrongHash == Submit(Sign(k2, [NewSuggestion(1, 1) EXCEPT !.pattern_hash = MCHash[2]]),
                    "mined")
Unmined == Submit(Sign(k2, NewSuggestion(2, 1)), "unmined")
NoPoint == Submit(Sign(k3, NewSuggestion(1, 1)), "mined")

MCSubmissions ==
    {Honest(k1, 1, 1), Honest(k1, 1, 2), Honest(k2, 1, 2), Honest(k2, 2, 2),
     Altered, WrongHash, Unmined, NoPoint}

Query(min, since, limit) ==
    [kind |-> "suggestions", min_corroborators |-> min, since_day |-> since, limit |-> limit]

MCQueries == {Query(0, MCI64Min, 3), Query(2, MCI64Min, 1), Query(1, 2, 1)}

\* For liveness, which takes every interleaving of the handlers and no
\* symmetry: one key with two days, another it agrees with, one bad body.
MCFewSubmissions == {Honest(k1, 1, 1), Honest(k1, 1, 2), Honest(k2, 1, 2), Altered}

MCFewQueries == {Query(1, MCI64Min, 3)}

HandlerSymmetry == Permutations({h1, h2})

================================================================================
