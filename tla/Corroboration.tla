----------------------------- MODULE Corroboration -----------------------------
(***************************************************************************)
(* What the ledger promises its clients, with no handlers, no table and no *)
(* mutex: a growing set of claims, and answers that are exact about that   *)
(* set at the moment they are produced.  CrabLedger implements it with     *)
(* asked = req and the claims it has committed.                            *)
(*                                                                         *)
(* Answers are described, not computed: a listing is any sequence with the *)
(* properties store.rs:146-151 states.                                     *)
(***************************************************************************)
EXTENDS SignedSuggestions, FiniteSets, Sequences

CONSTANTS Clients, Requests, NoRequest, NoAnswer, PowPaid(_), Limit

VARIABLES
    claims,     \* the submissions counted so far
    asked,      \* what each client is waiting for
    answer      \* the answer the service has for it

cvars == <<claims, asked, answer>>

Init ==
    /\ claims = {}
    /\ asked = [c \in Clients |-> NoRequest]
    /\ answer = [c \in Clients |-> NoAnswer]

Supporters(p) == {c.key : c \in {d \in claims : d.pattern = p}}

DaysOf(p) == {c.day : c \in {d \in claims : d.pattern = p}}

IsFirstDay(d, p) == d \in DaysOf(p) /\ \A e \in DaysOf(p) : d <= e

\* A pattern somebody claims, with enough supporters, first seen late enough.
Eligible(p, q) ==
    /\ Supporters(p) # {}
    /\ Cardinality(Supporters(p)) >= q.min_corroborators
    /\ \A d \in DaysOf(p) : d >= q.since_day

Outranks(p, q) ==
    LET m == Cardinality(Supporters(p))
        n == Cardinality(Supporters(q))
    IN  m > n \/ (m = n /\ p < q)

\* A listing is exact about every pattern in it, ordered, and leaves a
\* pattern out only when the limit is reached by patterns that outrank it.
IsListing(list, q) ==
    LET listed == {list[i].pattern_hash : i \in 1..Len(list)}
        eligible == {p \in Patterns : Eligible(p, q)}
    IN  /\ listed \subseteq eligible
        /\ \A i \in 1..Len(list) :
              /\ Hash[list[i].rule] = list[i].pattern_hash
              /\ list[i].corroborators = Cardinality(Supporters(list[i].pattern_hash))
              /\ IsFirstDay(list[i].first_seen_day, list[i].pattern_hash)
        /\ \A i, j \in 1..Len(list) :
              i < j => Outranks(list[i].pattern_hash, list[j].pattern_hash)
        /\ Len(list) <= q.limit /\ Len(list) <= Limit
        /\ eligible # listed => Len(list) = q.limit \/ Len(list) = Limit
        /\ \A p \in eligible \ listed, r \in listed : Outranks(r, p)

--------------------------------------------------------------------------------

Answer(c, a) == answer' = [answer EXCEPT ![c] = a]

Waiting(c, kind) == answer[c] = NoAnswer /\ asked[c].kind = kind

Ask(c) ==
    /\ asked[c] = NoRequest
    /\ \E r \in Requests : asked' = [asked EXCEPT ![c] = r]
    /\ UNCHANGED <<claims, answer>>

\* A genuine submission is counted; its client is told whether its key is a
\* new corroborator of the pattern.
Accept(c) ==
    /\ Waiting(c, "submit")
    /\ PowPaid(asked[c])
    /\ Verify(asked[c].signed)
    /\ LET signed == asked[c].signed
           claim == [pattern |-> signed.suggestion.pattern_hash,
                     key     |-> signed.public_key,
                     day     |-> signed.suggestion.submitted_at_day]
       IN  /\ claims' = claims \cup {claim}
           /\ Answer(c, [status |-> "accepted",
                         new_corroborator |-> claim.key \notin Supporters(claim.pattern)])
    /\ UNCHANGED asked

\* Any submission or listing may be refused, and then counts for nothing.
Refuse(c) ==
    /\ Waiting(c, "submit") \/ Waiting(c, "suggestions")
    /\ \E e \in {"global_rate_limit", "per_pubkey_rate_limit", "pow_insufficient",
                 "verification_failed", "store_failure"} :
          Answer(c, [status |-> "refused", error |-> e])
    /\ UNCHANGED <<claims, asked>>

List(c) ==
    /\ Waiting(c, "suggestions")
    /\ answer'[c].status = "listing"
    /\ IsListing(answer'[c].suggestions, asked[c])
    /\ answer' = [answer EXCEPT ![c] = answer'[c]]
    /\ UNCHANGED <<claims, asked>>

Report(c) ==
    /\ Waiting(c, "health")
    /\ \E total \in {0, Cardinality({d.pattern : d \in claims})} :
          Answer(c, [status |-> "health", total_unique_patterns |-> total])
    /\ UNCHANGED <<claims, asked>>

\* Clients that were answered, gave up, or lost the service.
Leave(some) ==
    /\ asked' = [c \in Clients |-> IF c \in some THEN NoRequest ELSE asked[c]]
    /\ answer' = [c \in Clients |-> IF c \in some THEN NoAnswer ELSE answer[c]]
    /\ UNCHANGED claims

Next ==
    \/ \E c \in Clients : Ask(c) \/ Accept(c) \/ Refuse(c) \/ List(c) \/ Report(c)
    \/ \E some \in SUBSET Clients : Leave(some)

Spec == Init /\ [][Next]_cvars

================================================================================
