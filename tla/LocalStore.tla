------------------------------- MODULE LocalStore -------------------------------
(***************************************************************************)
(* The local side of rule learning: the tables rules and flag_events of    *)
(* thundercrab-core/src/db.rs, and the calls an install makes on them.     *)
(* Every call is one SQL statement, atomic and durable.                    *)
(*                                                                         *)
(* Four writers share the table of rules, under ids of their own choice:   *)
(* the user and the platform's defaults, derivation, whose candidates wait *)
(* in memory while more events are recorded, and the ledger's suggestions. *)
(* The application that makes the calls is not in the repository; here it  *)
(* makes them in any order, keeping to what the code asks of its callers:  *)
(* a federated rule is saved only as apply_suggestion returned it.         *)
(***************************************************************************)
EXTENDS Derivation, Ordering

CONSTANTS
    NoRule,             \* the table has no row with this id
    Observations,       \* the flag events the application records
    OwnRules,           \* the rules the user writes, and platform defaults
    WireRules           \* the rules that arrive from the ledger

\* The columns of a row other than its id and updated_at.
RuleRow == [json : CrabRule, origin : RuleOrigin, score : Int]

ASSUME NoRuleAssumption == NoRule \notin RuleRow

\* Scores keep to the ranges crab_rule.rs:83 gives for each origin.
ASSUME CallersAssumption ==
    /\ Observations \subseteq FlagEvent
    /\ OwnRules \subseteq CrabRule /\ WireRules \subseteq CrabRule
    /\ \A r \in OwnRules : r.origin \in {"user", "platform"} /\ r.score >= 50

VARIABLES
    rules,          \* table: from ids to rows
    flag_events,    \* table: a set of rows
    candidates,     \* the DerivedRules in the application's memory
    observed,       \* history: what record_flag was ever called with
    writer,         \* history: who saved the rule at each id last
    mine            \* history: ids a user's rule was saved at and not deleted

vars == <<rules, flag_events, candidates, observed, writer, mine>>

Writers == {"nobody", "user", "platform", "ledger"}

Init ==
    /\ rules = [id \in Ids |-> NoRule]
    /\ flag_events = {}
    /\ candidates = {}
    /\ observed = {}
    /\ writer = [id \in Ids |-> "nobody"]
    /\ mine = {}

\* Wrong variant (mutation runs): the update forgets the score column.
SavedScoreKept(rule) ==
    LET old == rules[rule.id]
    IN  [rules EXCEPT ![rule.id] =
            [json |-> rule, origin |-> rule.origin,
             score |-> IF old = NoRule THEN rule.score ELSE old.score]]

\* save_rule: INSERT .. ON CONFLICT(id) DO UPDATE
Saved(rule) ==
    [rules EXCEPT ![rule.id] =
        [json |-> rule, origin |-> rule.origin, score |-> rule.score]]

\* UNIQUE(message_hash, source, destination)
UniqueKey(ev) == <<ev.message_hash, ev.source, ev.destination>>

\* Nothing reads a local_id: it tells rows apart that agree in all else, and
\* here it counts those.
RowOfEvent(ev) ==
    [local_id |-> 1 + Cardinality({e \in flag_events : UniqueKey(e) = UniqueKey(ev)}),
     message_hash        |-> ev.message_hash,
     source              |-> ev.source,
     destination         |-> ev.destination,
     from_domain_with_at |-> ev.from_domain_with_at]

\* Wrong variant (mutation runs): a plain INSERT into a table with no UNIQUE.
InsertedAlways(ev) == flag_events \cup {RowOfEvent(ev)}

\* INSERT OR IGNORE
Inserted(ev) ==
    IF \E e \in flag_events : UniqueKey(e) = UniqueKey(ev)
    THEN flag_events
    ELSE flag_events \cup {RowOfEvent(ev)}

StoredRows == {rules[id] : id \in {i \in Ids : rules[i] # NoRule}}

\* ORDER BY score DESC, id ASC, over the columns
Before(a, b) ==
    \/ a.score > b.score
    \/ a.score = b.score /\ a.json.id < b.json.id

\* load_rules
LoadRules ==
    LET sorted == InOrder(StoredRows, Before)
    IN  [i \in 1..Len(sorted) |-> sorted[i].json]

--------------------------------------------------------------------------------

RecordFlag(ev) ==
    /\ flag_events' = Inserted(ev)
    /\ observed' = observed \cup {ev}
    /\ UNCHANGED <<rules, candidates, writer, mine>>

Derive ==
    /\ candidates' = DeriveRuleCandidates(flag_events)
    /\ UNCHANGED <<rules, flag_events, observed, writer, mine>>

\* A candidate is applied locally, perhaps long after it was derived.
SaveCandidate(c) ==
    /\ rules' = Saved(c.rule)
    /\ candidates' = candidates \ {c}
    /\ writer' = [writer EXCEPT ![c.rule.id] = "user"]
    /\ mine' = mine \cup {c.rule.id}
    /\ UNCHANGED <<flag_events, observed>>

SaveOwnRule(rule) ==
    /\ rules' = Saved(rule)
    /\ writer' = [writer EXCEPT ![rule.id] = rule.origin]
    /\ mine' = IF rule.origin = "user" THEN mine \cup {rule.id} ELSE mine \ {rule.id}
    /\ UNCHANGED <<flag_events, candidates, observed>>

\* The user accepts a suggestion: apply_suggestion, then save_rule.
AcceptSuggestion(rule) ==
    /\ CheckAction(rule.action)
    /\ rules' = Saved(Applied(rule))
    /\ writer' = [writer EXCEPT ![rule.id] = "ledger"]
    /\ UNCHANGED <<flag_events, candidates, observed, mine>>

DeleteRule(id) ==
    /\ rules' = [rules EXCEPT ![id] = NoRule]
    /\ writer' = [writer EXCEPT ![id] = "nobody"]
    /\ mine' = mine \ {id}
    /\ UNCHANGED <<flag_events, candidates, observed>>

\* The application stops, anywhere between two calls, and opens the file again.
Reopen ==
    /\ candidates' = {}
    /\ UNCHANGED <<rules, flag_events, observed, writer, mine>>

Next ==
    \/ \E ev \in Observations : RecordFlag(ev)
    \/ Derive
    \/ \E c \in candidates : SaveCandidate(c)
    \/ \E rule \in OwnRules : SaveOwnRule(rule)
    \/ \E rule \in WireRules : AcceptSuggestion(rule)
    \/ \E id \in Ids : DeleteRule(id)
    \/ Reopen

Spec == Init /\ [][Next]_vars

--------------------------------------------------------------------------------
(* Properties. *)

\* The tables hold what their columns are for: a row's columns repeat what
\* its JSON says (load_rules orders by the one and returns the other).
TypeOK ==
    /\ rules \in [Ids -> RuleRow \cup {NoRule}]
    /\ \A id \in Ids : rules[id] # NoRule =>
          /\ rules[id].json.id = id
          /\ rules[id].origin = rules[id].json.origin
          /\ rules[id].score = rules[id].json.score
    /\ \A e \in flag_events :
          /\ e.local_id \in Nat
          /\ e.message_hash \in Messages /\ e.source \in FlagSource
          /\ e.destination \in Names /\ e.from_domain_with_at \in Domains
    /\ \A c \in candidates : c.rule \in CrabRule /\ c.local_evidence_count \in Nat
    /\ observed \subseteq FlagEvent
    /\ writer \in [Ids -> Writers]
    /\ mine \subseteq Ids

\* What ARCHITECTURE.md lists as enforced by apply_suggestion, for as long as
\* the rule is in the table and whatever id it came with: a rule saved from
\* the ledger is stored as Federated, scores 1 to 49, and no action of it,
\* however deep in a sequence, files into a protected folder in any
\* capitalisation or sets a protected flag.
FederatedConfined ==
    \A id \in Ids :
        writer[id] = "ledger" =>
            LET rule == rules[id].json
            IN  /\ rule.origin = "federated"
                /\ rule.score \in 1..49
                /\ \A i \in DOMAIN rule.action, p \in ProtectedFolders :
                      rule.action[i].kind = "file_into"
                          => LowerCase[rule.action[i].folder] # LowerCase[p]
                /\ \A i \in DOMAIN rule.action :
                      rule.action[i].kind = "set_flag"
                          => rule.action[i].flag \notin ProtectedFlags

\* In the order load_rules returns, no rule from the ledger comes before a
\* platform default or a rule the user wrote (ARCHITECTURE.md:97-98), after
\* any sequence of saves over the same ids.
FederatedRanksLast ==
    LET loaded == LoadRules
    IN  \A i, j \in DOMAIN loaded :
            /\ i < j
            /\ loaded[j] \in OwnRules
            => loaded[i].origin # "federated"

\* record_flag may be repeated: a count is the number of different
\* observations (message, source, destination), not of calls (db.rs:181).
RepeatsCountOnce ==
    \A t \in Names :
        CountFlagsTo(flag_events, t)
            = Cardinality({UniqueKey(ev) : ev \in {o \in observed : o.destination = t}})

\* A derived rule, still a candidate or long since saved, is about a known
\* domain and has at least min_observations events behind it now, though it
\* was derived from the table as it was before later events.
DerivedRulesBacked ==
    /\ \A c \in candidates : \E d \in Domains \ {NoDomain}, t \in Names :
          /\ c.rule = RuleFor(d, t)
          /\ c.local_evidence_count >= MinObservations
          /\ c.local_evidence_count <= FlagCount(flag_events, d, t)
    /\ \A id \in Ids, d \in Domains, t \in Names :
          rules[id] # NoRule /\ rules[id].json = RuleFor(d, t) =>
              d # NoDomain /\ FlagCount(flag_events, d, t) >= MinObservations

\* A derivation never proposes two folders for one domain (derive.rs:7-9,
\* "so we don't propose conflicting rules").  It depends on the threshold:
\* at one half, which derive.rs:37 allows, two folders can share a domain.
NoConflictingCandidates ==
    \A c, e \in candidates : c.rule.when = e.rule.when => c = e

\* A suggestion never takes the place of a rule of the user's
\* (crab_rule.rs:60, "A federated suggestion can never override a `User`
\* rule").
UserRulesStand == \A id \in mine : rules[id].origin = "user"

\* A candidate files into a folder the user moved that domain's messages to
\* (derive.rs:3, "for each `(from_domain, destination)` pair where the user
\* has consistently moved messages").
CandidatesFollowMoves ==
    \A c \in candidates : \E e \in flag_events :
        /\ e.source # "toggle_flag"
        /\ e.from_domain_with_at = c.rule.when.domain
        /\ e.destination = c.rule.action[1].folder

================================================================================
