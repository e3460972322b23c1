------------------------------- MODULE Derivation -------------------------------
(***************************************************************************)
(* Candidate rules from recorded flag events                               *)
(* (thundercrab-suggestions/src/derive.rs, fed by the grouped counts of    *)
(* thundercrab-core/src/db.rs).                                            *)
(***************************************************************************)
EXTENDS FederatedSafety, FiniteSets

CONSTANTS
    Messages,           \* message hashes
    NoDomain,           \* "": the sender could not be parsed
    DerivedId,          \* the id derived for a (domain, destination)
    MinObservations,
    DominanceNum,       \* dominance_threshold = DominanceNum / DominanceDen
    DominanceDen

\* sanitize_id maps every character that is no letter or digit to "_" and
\* folds case: different pairs may get the same id.
ASSUME DerivedIdAssumption == DerivedId \in [Domains \X Names -> Ids]

ASSUME ThresholdAssumption ==
    /\ MinObservations \in Int
    /\ DominanceNum \in Nat /\ DominanceDen \in Nat \ {0}
    /\ DominanceNum <= DominanceDen

FlagSource == {"manual_move", "toggle_flag", "explicit_category", "accept_suggestion"}

\* The fields of a FlagEvent that a query reads.
FlagEvent ==
    [message_hash : Messages, source : FlagSource, destination : Names,
     from_domain_with_at : Domains]

\* COUNT(*) .. WHERE destination = ?
CountFlagsTo(rows, destination) ==
    Cardinality({e \in rows : e.destination = destination})

DomainEvents(rows, domain) == {e \in rows : e.from_domain_with_at = domain}

PairEvents(rows, domain, destination) ==
    {e \in rows : e.from_domain_with_at = domain /\ e.destination = destination}

\* COUNT(*) .. GROUP BY from_domain_with_at, destination
FlagCount(rows, domain, destination) == Cardinality(PairEvents(rows, domain, destination))

\* totals[domain]: the sum of the domain's groups is the number of its events.
DomainTotal(rows, domain) == Cardinality(DomainEvents(rows, domain))

RuleFor(domain, destination) ==
    [id     |-> DerivedId[<<domain, destination>>],
     when   |-> [kind |-> "from_domain_in", domain |-> domain],
     action |-> <<[kind |-> "file_into", folder |-> destination]>>,
     score  |-> 30,
     origin |-> "user"]

\* Wrong variant (mutation runs): any number of observations will do.
EnoughAlways(rows, domain, destination) == TRUE

\* Not: *count < min_observations
Enough(rows, domain, destination) ==
    FlagCount(rows, domain, destination) >= MinObservations

\* Wrong variant (mutation runs): any share of the domain's events will do.
DominantAlways(rows, domain, destination) == TRUE

\* Not: frac < dominance_threshold
Dominant(rows, domain, destination) ==
    FlagCount(rows, domain, destination) * DominanceDen
        >= DomainTotal(rows, domain) * DominanceNum

\* The groups of the query (events with a domain, none of them empty) that
\* pass both filters, each with its rule and its count.
DeriveRuleCandidates(rows) ==
    {[rule |-> RuleFor(g[1], g[2]), local_evidence_count |-> FlagCount(rows, g[1], g[2])] :
        g \in {h \in (Domains \ {NoDomain}) \X Names :
                  /\ PairEvents(rows, h[1], h[2]) # {}
                  /\ Enough(rows, h[1], h[2])
                  /\ Dominant(rows, h[1], h[2])}}

================================================================================
