--------------------------- MODULE LocalStoreProofs ---------------------------
(***************************************************************************)
(* The safety of the local tables for any ids, names, messages, rules and  *)
(* threshold.  Events are only ever added, so the support of a derived     *)
(* rule can only grow after it was derived; and two destinations of one    *)
(* domain cannot both hold more than half of its events.                   *)
(***************************************************************************)
EXTENDS LocalStore, OrderingProofs

EventRow ==
    [local_id : Nat, message_hash : Messages, source : FlagSource,
     destination : Names, from_domain_with_at : Domains]

\* The table of events is a finite set of rows, so counting it makes sense.
EventsInv == IsFiniteSet(flag_events) /\ flag_events \subseteq EventRow

\* What the ledger wrote last is still there.
LedgerInv == \A id \in Ids : writer[id] = "ledger" => rules[id] # NoRule

IInv ==
    /\ TypeOK
    /\ EventsInv
    /\ LedgerInv
    /\ FederatedConfined
    /\ DerivedRulesBacked

--------------------------------------------------------------------------------
(* Lemmas about the operators. *)

\* A derived rule is a rule.
LEMMA RuleForType ==
    ASSUME NEW d \in Domains, NEW t \in Names
    PROVE  /\ RuleFor(d, t) \in CrabRule
           /\ RuleFor(d, t).id \in Ids
           /\ RuleFor(d, t).when.domain = d
           /\ RuleFor(d, t).score = 30
           /\ RuleFor(d, t).origin = "user"
<1>1. DerivedId[<<d, t>>] \in Ids
  BY DerivedIdAssumption
<1>2. [kind |-> "from_domain_in", domain |-> d] \in MatchExpr
  BY DEF MatchExpr
<1>3. <<[kind |-> "file_into", folder |-> t]>> \in Seq(SimpleAction)
  <2>1. [kind |-> "file_into", folder |-> t] \in SimpleAction
    BY DEF SimpleAction
  <2> QED BY <2>1
<1> QED BY <1>1, <1>2, <1>3 DEF RuleFor, CrabRule, RuleOrigin

\* An applied suggestion is a federated rule within the federated scores,
\* with the id and the action it came with.
LEMMA AppliedType ==
    ASSUME NEW r \in CrabRule
    PROVE  /\ Applied(r) \in CrabRule
           /\ Applied(r).id = r.id
           /\ Applied(r).action = r.action
           /\ Applied(r).origin = "federated"
           /\ Applied(r).score \in 1..49
<1>1. r.score \in Int
  BY DEF CrabRule
<1>2. Clamp(r.score) \in 1..49
  BY <1>1 DEF Clamp
<1> DEFINE q == Clamp(r.score)
           a == [r EXCEPT !.origin = "federated", !.score = q]
<1>3. q \in Int
  BY <1>2
<1> HIDE DEF q
<1>4. a \in CrabRule
  BY <1>3 DEF CrabRule, RuleOrigin
<1>5. a.id = r.id /\ a.action = r.action /\ a.origin = "federated" /\ a.score = q
  BY DEF CrabRule
<1>6. Applied(r) = a
  BY DEF Applied, q
<1> QED BY <1>2, <1>4, <1>5, <1>6 DEF q

\* Saving a rule puts it at its id and leaves every other row.
LEMMA SavedRows ==
    ASSUME NEW r \in CrabRule, rules \in [Ids -> RuleRow \cup {NoRule}]
    PROVE  /\ r.id \in Ids
           /\ Saved(r) \in [Ids -> RuleRow \cup {NoRule}]
           /\ Saved(r)[r.id] = [json |-> r, origin |-> r.origin, score |-> r.score]
           /\ Saved(r)[r.id] # NoRule
           /\ \A id \in Ids : id # r.id => Saved(r)[id] = rules[id]
<1>1. r.id \in Ids
  BY DEF CrabRule
<1>2. [json |-> r, origin |-> r.origin, score |-> r.score] \in RuleRow
  BY DEF RuleRow, CrabRule
<1> QED BY <1>1, <1>2, NoRuleAssumption DEF Saved

\* The count of a pair is a number and grows with the table.
LEMMA FlagCountGrows ==
    ASSUME NEW S, IsFiniteSet(S), NEW T, T \subseteq S, NEW d, NEW t
    PROVE  /\ FlagCount(T, d, t) \in Nat /\ FlagCount(S, d, t) \in Nat
           /\ FlagCount(T, d, t) <= FlagCount(S, d, t)
<1>1. PairEvents(S, d, t) \subseteq S /\ PairEvents(T, d, t) \subseteq PairEvents(S, d, t)
  BY DEF PairEvents
<1>2. IsFiniteSet(PairEvents(S, d, t))
  BY <1>1, FS_Subset
<1>3. /\ IsFiniteSet(PairEvents(T, d, t))
      /\ Cardinality(PairEvents(T, d, t)) <= Cardinality(PairEvents(S, d, t))
  BY <1>1, <1>2, FS_Subset
<1> QED BY <1>2, <1>3, FS_CardinalityType DEF FlagCount

\* Recording an event adds at most one row and takes none away.
LEMMA InsertedRows ==
    ASSUME EventsInv, NEW ev \in FlagEvent
    PROVE  /\ flag_events \subseteq Inserted(ev)
           /\ IsFiniteSet(Inserted(ev))
           /\ Inserted(ev) \subseteq EventRow
<1>1. RowOfEvent(ev) \in EventRow
  <2> DEFINE same == {e \in flag_events : UniqueKey(e) = UniqueKey(ev)}
  <2>1. Cardinality(same) \in Nat
    BY FS_Subset, FS_CardinalityType, same \subseteq flag_events DEF EventsInv
  <2> QED BY <2>1 DEF RowOfEvent, EventRow, FlagEvent
<1>2. IsFiniteSet(flag_events \cup {RowOfEvent(ev)})
  BY FS_AddElement DEF EventsInv
<1> QED BY <1>1, <1>2 DEF Inserted, EventsInv

\* A candidate is the derived rule of a known domain and a destination, with
\* their count, which passed both filters.
LEMMA CandidateOf ==
    ASSUME NEW rows, NEW c \in DeriveRuleCandidates(rows)
    PROVE  \E d \in Domains \ {NoDomain}, t \in Names :
              /\ c = [rule |-> RuleFor(d, t),
                      local_evidence_count |-> FlagCount(rows, d, t)]
              /\ PairEvents(rows, d, t) # {}
              /\ Enough(rows, d, t)
              /\ Dominant(rows, d, t)
  BY DEF DeriveRuleCandidates

\* Two destinations of one domain share its total.
LEMMA CountsShareTotal ==
    ASSUME NEW rows, IsFiniteSet(rows), NEW d, NEW t, NEW u, t # u
    PROVE  /\ FlagCount(rows, d, t) \in Nat /\ FlagCount(rows, d, u) \in Nat
           /\ DomainTotal(rows, d) \in Nat
           /\ FlagCount(rows, d, t) + FlagCount(rows, d, u) <= DomainTotal(rows, d)
<1> DEFINE A == PairEvents(rows, d, t)
           B == PairEvents(rows, d, u)
           D == DomainEvents(rows, d)
<1>1. /\ D \subseteq rows /\ A \subseteq D /\ B \subseteq D
      /\ A \cup B \subseteq D /\ A \cap B = {}
  BY DEF PairEvents, DomainEvents
<1>2. IsFiniteSet(D)
  BY <1>1, FS_Subset
<1>3. IsFiniteSet(A) /\ IsFiniteSet(B)
  BY <1>1, <1>2, FS_Subset
<1>4. Cardinality(A \cup B) <= Cardinality(D)
  BY <1>1, <1>2, FS_Subset
<1>5. Cardinality(A \cup B) = Cardinality(A) + Cardinality(B) - 0
  BY <1>1, <1>3, FS_Union, FS_EmptySet
<1>6. Cardinality(A) \in Nat /\ Cardinality(B) \in Nat /\ Cardinality(D) \in Nat
  BY <1>2, <1>3, FS_CardinalityType
<1> QED BY <1>4, <1>5, <1>6 DEF FlagCount, DomainTotal

\* Above one half there is room for one share only.
LEMMA OneMajority ==
    ASSUME NEW m \in Nat, NEW n \in Nat, NEW total \in Nat,
           m + n <= total, total > 0,
           NEW num \in Nat, NEW den \in Nat \ {0}, 2 * num > den
    PROVE  ~ (m * den >= total * num /\ n * den >= total * num)
<1> SUFFICES ASSUME m * den >= total * num, n * den >= total * num
             PROVE  FALSE
  OBVIOUS
<1>1. (m + n) * den >= total * (2 * num)
  <2>1. (m + n) * den = m * den + n * den
    OBVIOUS
  <2>2. total * (2 * num) = total * num + total * num
    OBVIOUS
  <2>3. m * den \in Nat /\ n * den \in Nat /\ total * num \in Nat
    OBVIOUS
  <2> QED BY <2>1, <2>2, <2>3
<1>2. (m + n) * den <= total * den
  OBVIOUS
<1>3. total * den < total * (2 * num)
  OBVIOUS
<1>4. /\ (m + n) * den \in Nat /\ total * den \in Nat /\ total * (2 * num) \in Nat
  OBVIOUS
<1> QED BY <1>1, <1>2, <1>3, <1>4

--------------------------------------------------------------------------------
(* The invariant, action by action. *)

LEMMA InitIInv == Init => IInv
<1> SUFFICES ASSUME Init PROVE IInv
  OBVIOUS
<1>1. TypeOK
  BY DEF Init, TypeOK, Writers
<1>2. EventsInv
  BY FS_EmptySet DEF Init, EventsInv
<1>3. LedgerInv /\ FederatedConfined
  BY DEF Init, LedgerInv, FederatedConfined
<1>4. DerivedRulesBacked
  BY DEF Init, DerivedRulesBacked
<1> QED BY <1>1, <1>2, <1>3, <1>4 DEF IInv

\* A save by anyone but the ledger, of a rule that is backed if it is derived.
LEMMA SaveStep ==
    ASSUME IInv, NEW r \in CrabRule, NEW w \in Writers,
           rules' = Saved(r), writer' = [writer EXCEPT ![r.id] = w],
           flag_events' = flag_events, observed' = observed,
           candidates' \subseteq candidates, mine' \subseteq Ids,
           w = "ledger" =>
               /\ r.origin = "federated" /\ r.score \in 1..49
               /\ CheckAction(r.action),
           \A d \in Domains, t \in Names : r = RuleFor(d, t) =>
               d # NoDomain /\ FlagCount(flag_events, d, t) >= MinObservations
    PROVE  IInv'
<1> DEFINE row == [json |-> r, origin |-> r.origin, score |-> r.score]
<1>0. /\ r.id \in Ids
      /\ rules' \in [Ids -> RuleRow \cup {NoRule}]
      /\ rules'[r.id] = row
      /\ row # NoRule
      /\ \A id \in Ids : id # r.id => rules'[id] = rules[id]
  BY SavedRows DEF IInv, TypeOK
<1>a. /\ writer' \in [Ids -> Writers]
      /\ writer'[r.id] = w
      /\ \A id \in Ids : id # r.id => writer'[id] = writer[id]
  BY <1>0 DEF IInv, TypeOK
<1>1. TypeOK'
  <2>1. \A id \in Ids : rules'[id] # NoRule =>
          /\ rules'[id].json.id = id
          /\ rules'[id].origin = rules'[id].json.origin
          /\ rules'[id].score = rules'[id].json.score
    BY <1>0 DEF IInv, TypeOK
  <2> QED BY <1>0, <1>a, <2>1 DEF IInv, TypeOK
<1>2. EventsInv'
  BY DEF IInv, EventsInv
<1>3. LedgerInv'
  BY <1>0, <1>a DEF IInv, LedgerInv
<1>4. FederatedConfined'
  <2> SUFFICES ASSUME NEW id \in Ids, writer'[id] = "ledger"
               PROVE  /\ rules'[id].json.origin = "federated"
                      /\ rules'[id].json.score \in 1..49
                      /\ \A i \in DOMAIN rules'[id].json.action, p \in ProtectedFolders :
                            rules'[id].json.action[i].kind = "file_into"
                              => LowerCase[rules'[id].json.action[i].folder] # LowerCase[p]
                      /\ \A i \in DOMAIN rules'[id].json.action :
                            rules'[id].json.action[i].kind = "set_flag"
                              => rules'[id].json.action[i].flag \notin ProtectedFlags
    BY DEF FederatedConfined
  <2>1. CASE id = r.id
    <3>1. rules'[id].json = r /\ w = "ledger"
      BY <1>0, <1>a, <2>1
    <3>2. DOMAIN r.action = 1..Len(r.action)
      BY DEF CrabRule
    <3> QED BY <3>1, <3>2 DEF CheckAction, IsProtectedFolder
  <2>2. CASE id # r.id
    BY <1>0, <1>a, <2>2 DEF IInv, FederatedConfined
  <2> QED BY <2>1, <2>2
<1>5. DerivedRulesBacked'
  <2>1. \A id \in Ids, d \in Domains, t \in Names :
          rules'[id] # NoRule /\ rules'[id].json = RuleFor(d, t) =>
              d # NoDomain /\ FlagCount(flag_events, d, t) >= MinObservations
    BY <1>0 DEF IInv, DerivedRulesBacked
  <2> QED BY <2>1 DEF IInv, DerivedRulesBacked
<1> QED BY <1>1, <1>2, <1>3, <1>4, <1>5 DEF IInv

LEMMA RecordFlagStep ==
    ASSUME IInv, NEW ev \in Observations, RecordFlag(ev)
    PROVE  IInv'
<1>1. ev \in FlagEvent
  BY CallersAssumption
<1>2. /\ flag_events \subseteq flag_events'
      /\ IsFiniteSet(flag_events')
      /\ flag_events' \subseteq EventRow
  BY <1>1, InsertedRows DEF RecordFlag, IInv
<1>3. TypeOK'
  BY <1>1, <1>2 DEF RecordFlag, IInv, TypeOK, EventRow
<1>4. EventsInv'
  BY <1>2 DEF EventsInv
<1>5. LedgerInv' /\ FederatedConfined'
  BY DEF RecordFlag, IInv, LedgerInv, FederatedConfined
<1>6. \A d, t : /\ FlagCount(flag_events, d, t) \in Nat
                /\ FlagCount(flag_events', d, t) \in Nat
                /\ FlagCount(flag_events, d, t) <= FlagCount(flag_events', d, t)
  BY <1>2, FlagCountGrows
<1>7. DerivedRulesBacked'
  <2>1. ASSUME NEW c \in candidates'
        PROVE  \E d \in Domains \ {NoDomain}, t \in Names :
                  /\ c.rule = RuleFor(d, t)
                  /\ c.local_evidence_count >= MinObservations
                  /\ c.local_evidence_count <= FlagCount(flag_events', d, t)
    <3>1. PICK d \in Domains \ {NoDomain}, t \in Names :
                  /\ c.rule = RuleFor(d, t)
                  /\ c.local_evidence_count >= MinObservations
                  /\ c.local_evidence_count <= FlagCount(flag_events, d, t)
      BY DEF RecordFlag, IInv, DerivedRulesBacked
    <3>2. c.local_evidence_count \in Nat
      BY DEF RecordFlag, IInv, TypeOK
    <3>3. c.local_evidence_count <= FlagCount(flag_events', d, t)
      BY <3>1, <3>2, <1>6
    <3> QED BY <3>1, <3>3
  <2>2. ASSUME NEW id \in Ids, NEW d \in Domains, NEW t \in Names,
               rules'[id] # NoRule, rules'[id].json = RuleFor(d, t)
        PROVE  d # NoDomain /\ FlagCount(flag_events', d, t) >= MinObservations
    <3>1. d # NoDomain /\ FlagCount(flag_events, d, t) >= MinObservations
      BY <2>2 DEF RecordFlag, IInv, DerivedRulesBacked
    <3> QED BY <3>1, <1>6, ThresholdAssumption
  <2> QED BY <2>1, <2>2 DEF DerivedRulesBacked
<1> QED BY <1>3, <1>4, <1>5, <1>7 DEF IInv

LEMMA DeriveStep ==
    ASSUME IInv, Derive
    PROVE  IInv'
<1>1. ASSUME NEW c \in candidates'
      PROVE  /\ c.rule \in CrabRule
             /\ c.local_evidence_count \in Nat
             /\ \E d \in Domains \ {NoDomain}, t \in Names :
                  /\ c.rule = RuleFor(d, t)
                  /\ c.local_evidence_count >= MinObservations
                  /\ c.local_evidence_count <= FlagCount(flag_events, d, t)
  <2>1. PICK d \in Domains \ {NoDomain}, t \in Names :
              /\ c = [rule |-> RuleFor(d, t),
                      local_evidence_count |-> FlagCount(flag_events, d, t)]
              /\ Enough(flag_events, d, t)
    BY CandidateOf DEF Derive
  <2>2. FlagCount(flag_events, d, t) \in Nat
    BY FlagCountGrows DEF IInv, EventsInv
  <2>3. FlagCount(flag_events, d, t) <= FlagCount(flag_events, d, t)
    BY <2>2
  <2>4. RuleFor(d, t) \in CrabRule
    BY RuleForType
  <2> QED BY <2>1, <2>2, <2>3, <2>4 DEF Enough
<1>2. TypeOK'
  BY <1>1 DEF Derive, IInv, TypeOK
<1>3. EventsInv' /\ LedgerInv' /\ FederatedConfined'
  BY DEF Derive, IInv, EventsInv, LedgerInv, FederatedConfined
<1>4. DerivedRulesBacked'
  BY <1>1 DEF Derive, IInv, DerivedRulesBacked
<1> QED BY <1>2, <1>3, <1>4 DEF IInv

LEMMA SaveCandidateStep ==
    ASSUME IInv, NEW c \in candidates, SaveCandidate(c)
    PROVE  IInv'
<1>1. c.rule \in CrabRule /\ c.local_evidence_count \in Nat
  BY DEF IInv, TypeOK
<1>2. PICK d \in Domains \ {NoDomain}, t \in Names :
            /\ c.rule = RuleFor(d, t)
            /\ c.local_evidence_count >= MinObservations
            /\ c.local_evidence_count <= FlagCount(flag_events, d, t)
  BY DEF IInv, DerivedRulesBacked
<1>3. FlagCount(flag_events, d, t) >= MinObservations
  <2>1. FlagCount(flag_events, d, t) \in Nat
    BY FlagCountGrows DEF IInv, EventsInv
  <2> QED BY <1>1, <1>2, <2>1, ThresholdAssumption
<1>4. \A e \in Domains, u \in Names : c.rule = RuleFor(e, u) =>
          e # NoDomain /\ FlagCount(flag_events, e, u) >= MinObservations
  <2> SUFFICES ASSUME NEW e \in Domains, NEW u \in Names, c.rule = RuleFor(e, u)
               PROVE  e = d /\ u = t
    BY <1>2, <1>3
  <2>1. e = d
    <3>1. RuleFor(e, u).when.domain = e
      BY RuleForType
    <3>2. RuleFor(d, t).when.domain = d
      BY RuleForType
    <3> QED BY <1>2, <3>1, <3>2
  <2>2. RuleFor(e, u).action[1].folder = u /\ RuleFor(d, t).action[1].folder = t
    BY DEF RuleFor
  <2> QED BY <1>2, <2>1, <2>2
<1>5. c.rule.id \in Ids
  BY <1>1 DEF CrabRule
<1>6. mine' \subseteq Ids
  BY <1>5 DEF SaveCandidate, IInv, TypeOK
<1> QED BY <1>1, <1>4, <1>6, SaveStep DEF SaveCandidate, Writers

LEMMA SaveOwnRuleStep ==
    ASSUME IInv, NEW r \in OwnRules, SaveOwnRule(r)
    PROVE  IInv'
<1>1. r \in CrabRule /\ r.origin \in {"user", "platform"} /\ r.score >= 50
  BY CallersAssumption
<1>2. \A d \in Domains, t \in Names : r # RuleFor(d, t)
  BY <1>1, RuleForType DEF CrabRule
<1>3. r.id \in Ids
  BY <1>1 DEF CrabRule
<1>4. mine' \subseteq Ids
  BY <1>3 DEF SaveOwnRule, IInv, TypeOK
<1>5. r.origin \in Writers /\ r.origin # "ledger"
  BY <1>1 DEF Writers
<1> QED BY <1>1, <1>2, <1>4, <1>5, SaveStep DEF SaveOwnRule

LEMMA AcceptSuggestionStep ==
    ASSUME IInv, NEW r \in WireRules, AcceptSuggestion(r)
    PROVE  IInv'
<1> DEFINE a == Applied(r)
<1>1. r \in CrabRule
  BY CallersAssumption
<1>2. /\ a \in CrabRule /\ a.id = r.id /\ a.action = r.action
      /\ a.origin = "federated" /\ a.score \in 1..49
  BY <1>1, AppliedType
<1>3. \A d \in Domains, t \in Names : a # RuleFor(d, t)
  BY <1>2, RuleForType
<1>4. CheckAction(a.action)
  BY <1>2 DEF AcceptSuggestion
<1>5. /\ rules' = Saved(a) /\ writer' = [writer EXCEPT ![a.id] = "ledger"]
      /\ flag_events' = flag_events /\ observed' = observed
      /\ candidates' = candidates /\ mine' \subseteq Ids
  BY <1>2 DEF AcceptSuggestion, IInv, TypeOK
<1> HIDE DEF a
<1> QED BY <1>2, <1>3, <1>4, <1>5, SaveStep DEF Writers

LEMMA DeleteRuleStep ==
    ASSUME IInv, NEW id \in Ids, DeleteRule(id)
    PROVE  IInv'
<1>1. /\ rules' \in [Ids -> RuleRow \cup {NoRule}]
      /\ rules'[id] = NoRule
      /\ \A i \in Ids : i # id => rules'[i] = rules[i]
  BY DEF DeleteRule, IInv, TypeOK
<1>2. /\ writer' \in [Ids -> Writers]
      /\ writer'[id] = "nobody"
      /\ \A i \in Ids : i # id => writer'[i] = writer[i]
  BY DEF DeleteRule, IInv, TypeOK, Writers
<1>3. TypeOK'
  <2>1. \A i \in Ids : rules'[i] # NoRule =>
          /\ rules'[i].json.id = i
          /\ rules'[i].origin = rules'[i].json.origin
          /\ rules'[i].score = rules'[i].json.score
    BY <1>1 DEF IInv, TypeOK
  <2> QED BY <1>1, <1>2, <2>1 DEF DeleteRule, IInv, TypeOK
<1>4. EventsInv'
  BY DEF DeleteRule, IInv, EventsInv
<1>5. LedgerInv'
  BY <1>1, <1>2 DEF IInv, LedgerInv
<1>6. FederatedConfined'
  BY <1>1, <1>2 DEF IInv, FederatedConfined
<1>7. DerivedRulesBacked'
  BY <1>1 DEF DeleteRule, IInv, DerivedRulesBacked
<1> QED BY <1>3, <1>4, <1>5, <1>6, <1>7 DEF IInv

LEMMA ReopenStep ==
    ASSUME IInv, Reopen \/ UNCHANGED vars
    PROVE  IInv'
<1>1. TypeOK'
  BY DEF Reopen, vars, IInv, TypeOK
<1>2. EventsInv' /\ LedgerInv' /\ FederatedConfined'
  BY DEF Reopen, vars, IInv, EventsInv, LedgerInv, FederatedConfined
<1>3. DerivedRulesBacked'
  BY DEF Reopen, vars, IInv, DerivedRulesBacked
<1> QED BY <1>1, <1>2, <1>3 DEF IInv

\* The inductive invariant of the local store.
THEOREM StoreInvariant == Spec => []IInv
<1>1. IInv /\ [Next]_vars => IInv'
  <2> SUFFICES ASSUME IInv, [Next]_vars PROVE IInv'
    OBVIOUS
  <2>1. ASSUME NEW ev \in Observations, RecordFlag(ev) PROVE IInv'
    BY <2>1, RecordFlagStep
  <2>2. CASE Derive
    BY <2>2, DeriveStep
  <2>3. ASSUME NEW c \in candidates, SaveCandidate(c) PROVE IInv'
    BY <2>3, SaveCandidateStep
  <2>4. ASSUME NEW r \in OwnRules, SaveOwnRule(r) PROVE IInv'
    BY <2>4, SaveOwnRuleStep
  <2>5. ASSUME NEW r \in WireRules, AcceptSuggestion(r) PROVE IInv'
    BY <2>5, AcceptSuggestionStep
  <2>6. ASSUME NEW id \in Ids, DeleteRule(id) PROVE IInv'
    BY <2>6, DeleteRuleStep
  <2>7. CASE Reopen \/ UNCHANGED vars
    BY <2>7, ReopenStep
  <2> QED BY <2>1, <2>2, <2>3, <2>4, <2>5, <2>6, <2>7 DEF Next
<1> QED BY InitIInv, <1>1, PTL DEF Spec

\* Every variable keeps its type, and a row's columns agree with its JSON.
THEOREM StoreTypeOK == Spec => []TypeOK
<1>1. IInv => TypeOK
  BY DEF IInv
<1> QED BY StoreInvariant, <1>1, PTL

\* A rule from the ledger stays confined, whatever calls wrote the table.
THEOREM LedgerRulesConfined == Spec => []FederatedConfined
<1>1. IInv => FederatedConfined
  BY DEF IInv
<1> QED BY StoreInvariant, <1>1, PTL

\* A derived rule has its observations behind it for as long as it exists.
THEOREM DerivedStayBacked == Spec => []DerivedRulesBacked
<1>1. IInv => DerivedRulesBacked
  BY DEF IInv
<1> QED BY StoreInvariant, <1>1, PTL

--------------------------------------------------------------------------------

\* One derivation, whatever the table: no domain gets two folders.
LEMMA DerivationHasNoConflict ==
    ASSUME 2 * DominanceNum > DominanceDen,
           NEW rows, IsFiniteSet(rows),
           NEW c \in DeriveRuleCandidates(rows), NEW e \in DeriveRuleCandidates(rows),
           c.rule.when = e.rule.when
    PROVE  c = e
<1>1. PICK d \in Domains \ {NoDomain}, t \in Names :
              /\ c = [rule |-> RuleFor(d, t),
                      local_evidence_count |-> FlagCount(rows, d, t)]
              /\ PairEvents(rows, d, t) # {}
              /\ Dominant(rows, d, t)
  BY CandidateOf
<1>2. PICK f \in Domains \ {NoDomain}, u \in Names :
              /\ e = [rule |-> RuleFor(f, u),
                      local_evidence_count |-> FlagCount(rows, f, u)]
              /\ Dominant(rows, f, u)
  BY CandidateOf
<1>3. d = f
  BY <1>1, <1>2, RuleForType
<1>4. t = u
  <2> SUFFICES ASSUME t # u PROVE FALSE
    OBVIOUS
  <2>1. /\ FlagCount(rows, d, t) \in Nat /\ FlagCount(rows, d, u) \in Nat
        /\ DomainTotal(rows, d) \in Nat
        /\ FlagCount(rows, d, t) + FlagCount(rows, d, u) <= DomainTotal(rows, d)
    BY CountsShareTotal
  <2>2. DomainTotal(rows, d) > 0
    <3>1. DomainEvents(rows, d) # {} /\ DomainEvents(rows, d) \subseteq rows
      BY <1>1 DEF PairEvents, DomainEvents
    <3>2. IsFiniteSet(DomainEvents(rows, d))
      BY <3>1, FS_Subset
    <3>3. DomainTotal(rows, d) # 0
      BY <3>1, <3>2, FS_EmptySet DEF DomainTotal
    <3> QED BY <2>1, <3>3
  <2>3. /\ FlagCount(rows, d, t) * DominanceDen >= DomainTotal(rows, d) * DominanceNum
        /\ FlagCount(rows, d, u) * DominanceDen >= DomainTotal(rows, d) * DominanceNum
    BY <1>1, <1>2, <1>3 DEF Dominant
  <2> QED BY <2>1, <2>2, <2>3, OneMajority, ThresholdAssumption
<1> QED BY <1>1, <1>2, <1>3, <1>4

\* Above a threshold of one half, the candidates in memory never give one
\* domain two folders.
THEOREM NoConflicts ==
    ASSUME 2 * DominanceNum > DominanceDen
    PROVE  Spec => []NoConflictingCandidates
<1>1. Init => NoConflictingCandidates
  BY DEF Init, NoConflictingCandidates
<1>2. IInv /\ NoConflictingCandidates /\ [Next]_vars => NoConflictingCandidates'
  <2> SUFFICES ASSUME IInv, NoConflictingCandidates, [Next]_vars
               PROVE  NoConflictingCandidates'
    OBVIOUS
  <2>1. CASE Derive
    BY <2>1, DerivationHasNoConflict DEF Derive, IInv, EventsInv, NoConflictingCandidates
  <2>2. CASE candidates' \subseteq candidates
    BY <2>2 DEF NoConflictingCandidates
  <2>3. Derive \/ candidates' \subseteq candidates
    BY DEF Next, RecordFlag, SaveCandidate, SaveOwnRule, AcceptSuggestion,
           DeleteRule, Reopen, vars
  <2> QED BY <2>1, <2>2, <2>3
<1> QED BY StoreInvariant, <1>1, <1>2, PTL DEF Spec

--------------------------------------------------------------------------------

\* The unique keys of the rows are those of the observations, each once.
KeysInv ==
    /\ \A e, f \in flag_events : UniqueKey(e) = UniqueKey(f) => e = f
    /\ \A e \in flag_events : \E o \in observed : UniqueKey(o) = UniqueKey(e)
    /\ \A o \in observed : \E e \in flag_events : UniqueKey(o) = UniqueKey(e)

\* A recorded event whose key is there changes nothing, any other adds its key.
LEMMA RecordFlagKeys ==
    ASSUME KeysInv, NEW ev, RecordFlag(ev)
    PROVE  KeysInv'
<1> USE DEF KeysInv
<1>1. observed' = observed \cup {ev}
  BY DEF RecordFlag
<1>2. CASE \E e \in flag_events : UniqueKey(e) = UniqueKey(ev)
  <2>1. flag_events' = flag_events
    BY <1>2 DEF RecordFlag, Inserted
  <2> QED BY <1>1, <1>2, <2>1 DEF UniqueKey
<1>3. CASE ~ \E e \in flag_events : UniqueKey(e) = UniqueKey(ev)
  <2> DEFINE row == RowOfEvent(ev)
  <2>1. flag_events' = flag_events \cup {row}
    BY <1>3 DEF RecordFlag, Inserted
  <2>2. UniqueKey(row) = UniqueKey(ev)
    BY DEF RowOfEvent, UniqueKey
  <2> HIDE DEF row
  <2>3. \A e, f \in flag_events' : UniqueKey(e) = UniqueKey(f) => e = f
    BY <1>3, <2>1, <2>2
  <2>4. \A e \in flag_events' : \E o \in observed' : UniqueKey(o) = UniqueKey(e)
    BY <1>1, <2>1, <2>2
  <2>5. \A o \in observed' : \E e \in flag_events' : UniqueKey(o) = UniqueKey(e)
    BY <1>1, <2>1, <2>2
  <2> QED BY <2>3, <2>4, <2>5 DEF UniqueKey
<1> QED BY <1>2, <1>3

\* With the keys in step, rows and distinct observations are as many.
LEMMA KeysCount ==
    ASSUME EventsInv, KeysInv
    PROVE  RepeatsCountOnce
<1> SUFFICES ASSUME NEW t \in Names
             PROVE  CountFlagsTo(flag_events, t)
                      = Cardinality({UniqueKey(ev) : ev \in {o \in observed : o.destination = t}})
  BY DEF RepeatsCountOnce
<1> DEFINE R == {e \in flag_events : e.destination = t}
           K == {UniqueKey(ev) : ev \in {o \in observed : o.destination = t}}
           key == [e \in R |-> UniqueKey(e)]
<1>1. IsFiniteSet(R)
  BY FS_Subset, R \subseteq flag_events DEF EventsInv
<1>2. \A a, b : UniqueKey(a) = UniqueKey(b) => a.destination = b.destination
  BY DEF UniqueKey
<1>3. key \in [R -> K]
  <2> SUFFICES ASSUME NEW e \in R PROVE UniqueKey(e) \in K
    OBVIOUS
  <2>1. PICK o \in observed : UniqueKey(o) = UniqueKey(e)
    BY DEF KeysInv
  <2> QED BY <2>1, <1>2
<1>4. key \in Injection(R, K)
  <2>1. \A e, f \in R : key[e] = key[f] => e = f
    BY DEF KeysInv
  <2> HIDE DEF key, R, K
  <2> QED BY <1>3, <2>1 DEF Injection, IsInjective
<1>5. key \in Surjection(R, K)
  <2> SUFFICES ASSUME NEW k \in K PROVE \E e \in R : key[e] = k
    BY <1>3 DEF Surjection
  <2>1. PICK o \in observed : o.destination = t /\ k = UniqueKey(o)
    OBVIOUS
  <2>2. PICK e \in flag_events : UniqueKey(o) = UniqueKey(e)
    BY DEF KeysInv
  <2>3. e \in R
    BY <2>1, <2>2, <1>2
  <2> QED BY <2>1, <2>2, <2>3
<1>6. ExistsBijection(R, K)
  BY <1>4, <1>5 DEF ExistsBijection, Bijection
<1>7. Cardinality(K) = Cardinality(R)
  BY <1>1, <1>6, FS_Bijection
<1> QED BY <1>7 DEF CountFlagsTo

\* Calling record_flag again for the same observation changes no count.
THEOREM EachObservationCountsOnce == Spec => []RepeatsCountOnce
<1>1. Init => KeysInv
  BY DEF Init, KeysInv
<1>2. KeysInv /\ [Next]_vars => KeysInv'
  <2> SUFFICES ASSUME KeysInv, [Next]_vars PROVE KeysInv'
    OBVIOUS
  <2>1. ASSUME NEW ev \in Observations, RecordFlag(ev) PROVE KeysInv'
    BY <2>1, RecordFlagKeys
  <2>2. CASE flag_events' = flag_events /\ observed' = observed
    BY <2>2 DEF KeysInv, UniqueKey
  <2>3. \/ \E ev \in Observations : RecordFlag(ev)
        \/ flag_events' = flag_events /\ observed' = observed
    BY DEF Next, Derive, SaveCandidate, SaveOwnRule, AcceptSuggestion,
           DeleteRule, Reopen, vars
  <2> QED BY <2>1, <2>2, <2>3
<1>3. IInv /\ KeysInv => RepeatsCountOnce
  BY KeysCount DEF IInv
<1> QED BY StoreInvariant, <1>1, <1>2, <1>3, PTL DEF Spec

--------------------------------------------------------------------------------
(* The order of load_rules. *)

Kept == {id \in Ids : rules[id] # NoRule}

\* The rows can be sorted, and none that is Federated scores as high as a
\* rule of the user's or a default.
RankInv ==
    /\ IsFiniteSet(Kept)
    /\ \A id \in Kept : rules[id].json.origin = "federated" => rules[id].score <= 49

\* Saving a rule that is not Federated, or scores as one, keeps the ranks.
LEMMA SaveKeepsRank ==
    ASSUME IInv, RankInv, NEW r \in CrabRule,
           r.origin = "federated" => r.score <= 49,
           rules' = Saved(r)
    PROVE  RankInv'
<1>1. /\ r.id \in Ids
      /\ rules'[r.id] = [json |-> r, origin |-> r.origin, score |-> r.score]
      /\ \A id \in Ids : id # r.id => rules'[id] = rules[id]
  BY SavedRows DEF IInv, TypeOK
<1>2. Kept' \subseteq Kept \cup {r.id}
  BY <1>1 DEF Kept
<1>3. IsFiniteSet(Kept')
  <2>1. IsFiniteSet(Kept \cup {r.id})
    BY FS_AddElement DEF RankInv
  <2> QED BY <1>2, <2>1, FS_Subset
<1>4. ASSUME NEW id \in Kept', rules'[id].json.origin = "federated"
      PROVE  rules'[id].score <= 49
  BY <1>1, <1>4 DEF RankInv, Kept
<1> QED BY <1>3, <1>4 DEF RankInv

\* No call changes the ranks.
LEMMA RankKept ==
    ASSUME IInv, RankInv, [Next]_vars
    PROVE  RankInv'
<1>1. ASSUME NEW c \in candidates, SaveCandidate(c) PROVE RankInv'
  <2>1. PICK d \in Domains \ {NoDomain}, t \in Names : c.rule = RuleFor(d, t)
    BY DEF IInv, DerivedRulesBacked
  <2>2. c.rule \in CrabRule /\ c.rule.origin # "federated"
    BY <2>1, RuleForType
  <2>3. rules' = Saved(c.rule)
    BY <1>1 DEF SaveCandidate
  <2> QED BY <2>2, <2>3, SaveKeepsRank
<1>2. ASSUME NEW r \in OwnRules, SaveOwnRule(r) PROVE RankInv'
  <2>1. r \in CrabRule /\ r.origin # "federated" /\ rules' = Saved(r)
    BY <1>2, CallersAssumption DEF SaveOwnRule
  <2> QED BY <2>1, SaveKeepsRank
<1>3. ASSUME NEW r \in WireRules, AcceptSuggestion(r) PROVE RankInv'
  <2>1. PICK a : a = Applied(r)
    OBVIOUS
  <2>2. a \in CrabRule /\ a.score <= 49 /\ rules' = Saved(a)
    BY <1>3, <2>1, AppliedType, CallersAssumption DEF AcceptSuggestion
  <2> QED BY <2>2, SaveKeepsRank
<1>4. ASSUME NEW id \in Ids, DeleteRule(id) PROVE RankInv'
  <2>1. rules' = [rules EXCEPT ![id] = NoRule]
    BY <1>4 DEF DeleteRule
  <2>2. Kept' \subseteq Kept /\ \A i \in Kept' : rules'[i] = rules[i]
    BY <2>1 DEF Kept, IInv, TypeOK
  <2>3. IsFiniteSet(Kept')
    BY <2>2, FS_Subset DEF RankInv
  <2> QED BY <2>2, <2>3 DEF RankInv
<1>5. CASE rules' = rules
  BY <1>5 DEF RankInv, Kept
<1>6. \/ \E c \in candidates : SaveCandidate(c)
      \/ \E r \in OwnRules : SaveOwnRule(r)
      \/ \E r \in WireRules : AcceptSuggestion(r)
      \/ \E id \in Ids : DeleteRule(id)
      \/ rules' = rules
  BY DEF Next, RecordFlag, Derive, Reopen, vars
<1> QED BY <1>1, <1>2, <1>3, <1>4, <1>5, <1>6

\* Before is a strict total order on the stored rows, so load_rules returns
\* them in that order.
LEMMA LoadedInOrder ==
    ASSUME IInv, RankInv
    PROVE  LET s == InOrder(StoredRows, Before)
           IN  /\ s \in Seq(StoredRows)
               /\ \A i, j \in 1..Len(s) : i < j => Before(s[i], s[j])
<1> DEFINE R == {ab \in StoredRows \X StoredRows : Before(ab[1], ab[2])}
<1>1. \A a, b \in StoredRows : <<a, b>> \in R <=> Before(a, b)
  OBVIOUS
<1>2. \A a \in StoredRows : /\ a.score \in Int /\ a.json.id \in Int
                            /\ a = rules[a.json.id]
  <2> SUFFICES ASSUME NEW id \in Ids, rules[id] # NoRule
               PROVE  /\ rules[id].score \in Int /\ rules[id].json.id \in Int
                      /\ rules[id] = rules[rules[id].json.id]
    BY DEF StoredRows
  <2>1. rules[id].json.id = id /\ rules[id] \in RuleRow
    BY DEF IInv, TypeOK
  <2> QED BY <2>1, NamesAssumption DEF RuleRow
<1> HIDE DEF R
<1>3. Orders(R, StoredRows)
  <2>1. \A a \in StoredRows : <<a, a>> \notin R
    BY <1>1, <1>2 DEF Before
  <2>2. \A a, b \in StoredRows : a # b => <<a, b>> \in R \/ <<b, a>> \in R
    <3> SUFFICES ASSUME NEW a \in StoredRows, NEW b \in StoredRows, a # b
                 PROVE  Before(a, b) \/ Before(b, a)
      BY <1>1
    <3>1. a.json.id # b.json.id
      BY <1>2
    <3> QED BY <1>2, <3>1 DEF Before
  <2>3. \A a, b, c \in StoredRows : <<a, b>> \in R /\ <<b, c>> \in R => <<a, c>> \in R
    <3> SUFFICES ASSUME NEW a \in StoredRows, NEW b \in StoredRows, NEW c \in StoredRows,
                        Before(a, b), Before(b, c)
                 PROVE  Before(a, c)
      BY <1>1
    <3> QED BY <1>2 DEF Before
  <2> QED BY <2>1, <2>2, <2>3 DEF Orders
<1>4. IsFiniteSet(StoredRows)
  <2> DEFINE f == [id \in Kept |-> rules[id]]
  <2>1. f \in Surjection(Kept, StoredRows)
    BY DEF Surjection, Kept, StoredRows
  <2> QED BY <2>1, FS_Surjection DEF RankInv
<1>5. \E s \in SetToSeqs(StoredRows) : \A i, j \in DOMAIN s : i < j => Before(s[i], s[j])
  <2>1. PICK s \in SetToSeqs(StoredRows) : Ordered(s, R)
    BY <1>3, <1>4, OrderedExists
  <2>2. \A i \in DOMAIN s : s[i] \in StoredRows
    BY <1>4, <2>1, ListsEach
  <2> QED BY <1>1, <2>1, <2>2 DEF Ordered
<1>6. PICK s : s = InOrder(StoredRows, Before)
  OBVIOUS
<1>7. s \in SetToSeqs(StoredRows) /\ \A i, j \in DOMAIN s : i < j => Before(s[i], s[j])
  BY <1>5, <1>6 DEF InOrder
<1>8. s \in Seq(StoredRows) /\ Len(s) = Cardinality(StoredRows)
      /\ DOMAIN s = 1..Cardinality(StoredRows)
  BY <1>4, <1>7, ListsEach
<1> QED BY <1>6, <1>7, <1>8

\* In the order load_rules returns, no rule from the ledger comes before a
\* rule the user wrote or a default, whatever calls wrote the table.
THEOREM LedgerRulesRankLast == Spec => []FederatedRanksLast
<1>1. Init => RankInv
  BY FS_EmptySet DEF Init, RankInv, Kept
<1>2. IInv /\ RankInv => FederatedRanksLast
  <2> SUFFICES ASSUME IInv, RankInv PROVE FederatedRanksLast
    OBVIOUS
  <2>1. PICK s : s = InOrder(StoredRows, Before)
    OBVIOUS
  <2>2. s \in Seq(StoredRows) /\ \A i, j \in 1..Len(s) : i < j => Before(s[i], s[j])
    BY <2>1, LoadedInOrder
  <2>3. LoadRules = [i \in 1..Len(s) |-> s[i].json]
    BY <2>1 DEF LoadRules
  <2> SUFFICES ASSUME NEW i \in 1..Len(s), NEW j \in 1..Len(s), i < j, s[j].json \in OwnRules
               PROVE  s[i].json.origin # "federated"
    BY <2>3 DEF FederatedRanksLast
  <2>4. s[i] \in StoredRows /\ s[j] \in StoredRows /\ Before(s[i], s[j])
    BY <2>2
  <2>5. PICK a \in Kept : s[i] = rules[a]
    BY <2>4 DEF StoredRows, Kept
  <2>6. PICK b \in Kept : s[j] = rules[b]
    BY <2>4 DEF StoredRows, Kept
  <2>7. rules[a].score \in Int /\ rules[b].score \in Int /\ rules[b].score = rules[b].json.score
    BY DEF IInv, TypeOK, RuleRow, Kept
  <2>8. rules[b].score >= 50
    BY <2>6, <2>7, CallersAssumption
  <2>9. rules[a].score >= rules[b].score
    BY <2>4, <2>5, <2>6, <2>7 DEF Before
  <2> QED BY <2>5, <2>7, <2>8, <2>9 DEF RankInv
<1> QED BY StoreInvariant, <1>1, RankKept, <1>2, PTL DEF Spec

--------------------------------------------------------------------------------
(* What the two properties that fail of the code are missing. *)

\* The ids of rules that are the user's: written, or derived from their mail.
UserIds ==
    {r.id : r \in {o \in OwnRules : o.origin = "user"}}
        \cup {DerivedId[g] : g \in Domains \X Names}

MineInv == \A id \in mine : id \in UserIds /\ rules[id].origin = "user"

\* A user's rule is replaced only through an id it shares with a suggestion:
\* where suggestions have ids of their own, every one of them stands.
THEOREM RulesApartStand ==
    ASSUME \A w \in WireRules : w.id \notin UserIds
    PROVE  Spec => []UserRulesStand
<1>1. Init => MineInv
  BY DEF Init, MineInv
<1>2. IInv /\ MineInv /\ [Next]_vars => MineInv'
  <2> SUFFICES ASSUME IInv, MineInv, [Next]_vars PROVE MineInv'
    OBVIOUS
  <2>1. ASSUME NEW c \in candidates, SaveCandidate(c) PROVE MineInv'
    <3>1. PICK d \in Domains \ {NoDomain}, t \in Names : c.rule = RuleFor(d, t)
      BY DEF IInv, DerivedRulesBacked
    <3>2. /\ c.rule \in CrabRule /\ c.rule.origin = "user"
          /\ c.rule.id = DerivedId[<<d, t>>]
      BY <3>1, RuleForType DEF RuleFor
    <3>3. rules' = Saved(c.rule) /\ mine' = mine \cup {c.rule.id}
      BY <2>1 DEF SaveCandidate
    <3>a. PICK r \in CrabRule : r = c.rule
      BY <3>2
    <3>b. /\ rules'[r.id] = [json |-> r, origin |-> r.origin, score |-> r.score]
          /\ \A id \in Ids : id # r.id => rules'[id] = rules[id]
      BY <3>3, <3>a, SavedRows DEF IInv, TypeOK
    <3>4. /\ rules'[c.rule.id].origin = "user"
          /\ \A id \in Ids : id # c.rule.id => rules'[id] = rules[id]
      BY <3>2, <3>a, <3>b
    <3>5. mine \subseteq Ids
      BY DEF IInv, TypeOK
    <3>6. c.rule.id \in UserIds
      BY <3>2 DEF UserIds
    <3> QED BY <3>3, <3>4, <3>5, <3>6 DEF MineInv
  <2>2. ASSUME NEW r \in OwnRules, SaveOwnRule(r) PROVE MineInv'
    <3>1. r \in CrabRule /\ rules' = Saved(r)
      BY <2>2, CallersAssumption DEF SaveOwnRule
    <3>a. /\ rules'[r.id] = [json |-> r, origin |-> r.origin, score |-> r.score]
          /\ \A id \in Ids : id # r.id => rules'[id] = rules[id]
      BY <3>1, SavedRows DEF IInv, TypeOK
    <3>2. /\ rules'[r.id].origin = r.origin
          /\ \A id \in Ids : id # r.id => rules'[id] = rules[id]
      BY <3>a
    <3>3. mine \subseteq Ids
      BY DEF IInv, TypeOK
    <3>4. r.origin = "user" => r.id \in UserIds
      BY DEF UserIds
    <3>5. mine' = IF r.origin = "user" THEN mine \cup {r.id} ELSE mine \ {r.id}
      BY <2>2 DEF SaveOwnRule
    <3> QED BY <3>2, <3>3, <3>4, <3>5 DEF MineInv
  <2>3. ASSUME NEW w \in WireRules, AcceptSuggestion(w) PROVE MineInv'
    <3>1. PICK a : a = Applied(w)
      OBVIOUS
    <3>2. a \in CrabRule /\ a.id = w.id /\ rules' = Saved(a) /\ mine' = mine
      BY <2>3, <3>1, AppliedType, CallersAssumption DEF AcceptSuggestion
    <3>3. \A id \in Ids : id # w.id => rules'[id] = rules[id]
      BY <3>2, SavedRows DEF IInv, TypeOK
    <3>4. mine \subseteq Ids
      BY DEF IInv, TypeOK
    <3> QED BY <3>2, <3>3, <3>4 DEF MineInv
  <2>4. ASSUME NEW i \in Ids, DeleteRule(i) PROVE MineInv'
    <3>1. /\ mine' = mine \ {i} /\ mine \subseteq Ids
          /\ \A id \in Ids : id # i => rules'[id] = rules[id]
      BY <2>4 DEF DeleteRule, IInv, TypeOK
    <3> QED BY <3>1 DEF MineInv
  <2>5. CASE rules' = rules /\ mine' = mine
    BY <2>5 DEF MineInv
  <2>6. \/ \E c \in candidates : SaveCandidate(c)
        \/ \E r \in OwnRules : SaveOwnRule(r)
        \/ \E w \in WireRules : AcceptSuggestion(w)
        \/ \E i \in Ids : DeleteRule(i)
        \/ rules' = rules /\ mine' = mine
    BY DEF Next, RecordFlag, Derive, Reopen, vars
  <2> QED BY <2>1, <2>2, <2>3, <2>4, <2>5, <2>6
<1>3. MineInv => UserRulesStand
  BY DEF MineInv, UserRulesStand
<1> QED BY StoreInvariant, <1>1, <1>2, <1>3, PTL DEF Spec

MovesInv == \A e \in flag_events : e.source # "toggle_flag"

\* It is the flag toggles alone that make a candidate file into something
\* that is no folder: where none is recorded, candidates follow moves.
THEOREM WithoutTogglesFollow ==
    ASSUME \A o \in Observations : o.source # "toggle_flag"
    PROVE  Spec => []CandidatesFollowMoves
<1>1. Init => MovesInv /\ CandidatesFollowMoves
  BY DEF Init, MovesInv, CandidatesFollowMoves
<1>2. IInv /\ MovesInv /\ CandidatesFollowMoves /\ [Next]_vars
         => MovesInv' /\ CandidatesFollowMoves'
  <2> SUFFICES ASSUME IInv, MovesInv, CandidatesFollowMoves, [Next]_vars
               PROVE  MovesInv' /\ CandidatesFollowMoves'
    OBVIOUS
  <2>1. ASSUME NEW ev \in Observations, RecordFlag(ev)
        PROVE  MovesInv' /\ CandidatesFollowMoves'
    <3>1. flag_events \subseteq flag_events'
      BY <2>1 DEF RecordFlag, Inserted
    <3>2. candidates' = candidates
      BY <2>1 DEF RecordFlag
    <3>3. \A e \in flag_events' : e \in flag_events \/ e = RowOfEvent(ev)
      BY <2>1 DEF RecordFlag, Inserted
    <3>4. RowOfEvent(ev).source # "toggle_flag"
      BY DEF RowOfEvent
    <3>5. CandidatesFollowMoves'
      BY <3>1, <3>2 DEF CandidatesFollowMoves
    <3> QED BY <3>3, <3>4, <3>5 DEF MovesInv
  <2>2. CASE Derive
    <3>1. flag_events' = flag_events /\ candidates' = DeriveRuleCandidates(flag_events)
      BY <2>2 DEF Derive
    <3>2. ASSUME NEW c \in DeriveRuleCandidates(flag_events)
          PROVE  \E e \in flag_events : /\ e.source # "toggle_flag"
                                        /\ e.from_domain_with_at = c.rule.when.domain
                                        /\ e.destination = c.rule.action[1].folder
      <4>1. PICK d \in Domains \ {NoDomain}, t \in Names :
                    c.rule = RuleFor(d, t) /\ PairEvents(flag_events, d, t) # {}
        BY CandidateOf
      <4>2. c.rule.when.domain = d /\ c.rule.action[1].folder = t
        BY <4>1 DEF RuleFor
      <4>3. PICK e \in flag_events : e.from_domain_with_at = d /\ e.destination = t
        BY <4>1 DEF PairEvents
      <4> QED BY <4>2, <4>3 DEF MovesInv
    <3> QED BY <3>1, <3>2 DEF MovesInv, CandidatesFollowMoves
  <2>3. CASE flag_events' = flag_events /\ candidates' \subseteq candidates
    BY <2>3 DEF MovesInv, CandidatesFollowMoves
  <2>4. \/ \E ev \in Observations : RecordFlag(ev)
        \/ Derive
        \/ flag_events' = flag_events /\ candidates' \subseteq candidates
    BY DEF Next, SaveCandidate, SaveOwnRule, AcceptSuggestion, DeleteRule, Reopen, vars
  <2> QED BY <2>1, <2>2, <2>3, <2>4
<1> QED BY StoreInvariant, <1>1, <1>2, PTL DEF Spec

================================================================================
