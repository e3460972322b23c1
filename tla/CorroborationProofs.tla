-------------------------- MODULE CorroborationProofs --------------------------
(***************************************************************************)
(* The ledger implements Corroboration: each step of the service is a step *)
(* of the abstract specification or changes nothing it speaks of, under    *)
(* asked = req.  The table stands for the claims; the steps of handlers    *)
(* before their answer, and the buckets and the mutex, are stutters.       *)
(***************************************************************************)
EXTENDS CrabLedgerProofs, OrderingProofs

\* What the refinement needs beyond IInv: an idle handler serves nobody, and
\* the claims can be counted.
RefineInv ==
    /\ \A h \in Handlers : pc[h] = "idle" => req[h] = NoRequest
    /\ IsFiniteSet(claims)

LEMMA InitRefine == Init => RefineInv
  BY FS_EmptySet DEF Init, RefineInv

\* Every step keeps RefineInv: a commit adds one claim, and a request is
\* dropped in the step that makes its handler idle.
LEMMA NextRefine == IInv /\ RefineInv /\ [Next]_vars => RefineInv'
  <1> SUFFICES ASSUME IInv, RefineInv, [Next]_vars PROVE RefineInv'
    OBVIOUS
  <1> USE DEF GoTo, Return, Finish, WaitForStore, handlerVars, history, mutexVars
  <1>1. IsFiniteSet(claims')
    <2>1. ASSUME NEW h \in Handlers, Commit(h) PROVE IsFiniteSet(claims')
      <3>1. PICK c : claims' = claims \cup {c}
        BY <2>1 DEF Commit
      <3> QED
        BY <3>1, FS_AddElement DEF RefineInv
    <2>2. CASE claims' = claims
      BY <2>2 DEF RefineInv
    <2>3. (\E h \in Handlers : Commit(h)) \/ claims' = claims
      BY DEF Next, HandlerStep, ClientStep, ReceiveSubmission, ReceiveQuery, HangUp,
             CheckGlobal, CheckKey, VerifySubmission, AcquireStore, Select, StoreFailure,
             ListSuggestions, ReportHealth, Deliver, LoseReply, Tick, Restart, vars
    <2> QED
      BY <2>1, <2>2, <2>3
  <1>2. ASSUME NEW h \in Handlers, pc'[h] = "idle" PROVE req'[h] = NoRequest
    <2> USE DEF IInv, TypeOK
    <2>1. ASSUME NEW g \in Handlers,
                 \/ CheckGlobal(g) \/ CheckKey(g) \/ VerifySubmission(g) \/ AcquireStore(g)
                 \/ Select(g) \/ Commit(g) \/ StoreFailure(g) \/ ListSuggestions(g)
                 \/ ReportHealth(g)
          PROVE  req'[h] = NoRequest
      <3>1. req' = req /\ pc'[g] # "idle" /\ \A f \in Handlers : f # g => pc'[f] = pc[f]
        BY <2>1 DEF CheckGlobal, CheckKey, VerifySubmission, AcquireStore, Select, Commit,
                    StoreFailure, ListSuggestions, ReportHealth
      <3> QED
        BY <1>2, <3>1 DEF RefineInv
    <2>2. ASSUME NEW g \in Handlers, ReceiveSubmission(g) \/ ReceiveQuery(g)
          PROVE  req'[h] = NoRequest
      <3>1. /\ pc'[g] # "idle"
            /\ \A f \in Handlers : f # g => pc'[f] = pc[f] /\ req'[f] = req[f]
        BY <2>2 DEF ReceiveSubmission, ReceiveQuery
      <3> QED
        BY <1>2, <3>1 DEF RefineInv
    <2>3. ASSUME NEW g \in Handlers, Deliver(g) \/ LoseReply(g) \/ HangUp(g)
          PROVE  req'[h] = NoRequest
      <3>1. pc' = [pc EXCEPT ![g] = "idle"] /\ req' = [req EXCEPT ![g] = NoRequest]
        BY <2>3 DEF Deliver, LoseReply, HangUp
      <3> QED
        BY <1>2, <3>1 DEF RefineInv
    <2>4. CASE Tick \/ UNCHANGED vars
      BY <1>2, <2>4 DEF Tick, vars, RefineInv
    <2>5. CASE Restart
      BY <2>5 DEF Restart
    <2> QED
      BY <2>1, <2>2, <2>3, <2>4, <2>5 DEF Next, HandlerStep, ClientStep
  <1> QED
    BY <1>1, <1>2 DEF RefineInv

--------------------------------------------------------------------------------
(* The table answers for the claims. *)

\* The abstract specification counts as the store does.
LEMMA SameCardinality == \A S : Promise!Cardinality(S) = Cardinality(S)
  BY DEF Promise!Cardinality, Cardinality, Promise!IsFiniteSet, IsFiniteSet

\* The keys with a row for a pattern are those that claimed it.
LEMMA SupportersHaveRows ==
    ASSUME IInv, NEW p \in Patterns
    PROVE  Promise!Supporters(p) = Corroborators(db, p)
  <1>1. \A c \in claims : c.pattern \in Patterns /\ c.key \in Keys
    BY DEF IInv, TypeOK, Claim
  <1>2. ASSUME NEW k \in Keys
        PROVE  (db[<<p, k>>] # NoRow) <=> \E c \in claims : c.pattern = p /\ c.key = k
    <2>1. <<p, k>> \in PrimaryKey
      BY DEF PrimaryKey
    <2> QED
      BY <2>1 DEF IInv, StoreMatchesClaims, ClaimsOn
  <1> QED
    BY <1>1, <1>2 DEF Promise!Supporters, Corroborators

\* The days of a pattern's rows are days it was claimed on, and no claim is
\* earlier than all of them.
LEMMA RowsHaveDays ==
    ASSUME IInv, NEW p \in Patterns
    PROVE  /\ \A r \in RowsOf(db, p) : r.submitted_day \in Promise!DaysOf(p)
           /\ \A d \in Promise!DaysOf(p) :
                 d \in Days /\ \E r \in RowsOf(db, p) : r.submitted_day <= d
  <1>1. ASSUME NEW k \in Keys, db[<<p, k>>] # NoRow
        PROVE  db[<<p, k>>].submitted_day \in Promise!DaysOf(p)
    <2>1. <<p, k>> \in PrimaryKey
      BY DEF PrimaryKey
    <2>2. PICK c \in ClaimsOn(<<p, k>>) : db[<<p, k>>].submitted_day = c.day
      BY <1>1, <2>1 DEF IInv, StoreMatchesClaims
    <2> QED
      BY <2>2 DEF ClaimsOn, Promise!DaysOf
  <1>2. ASSUME NEW c \in claims, c.pattern = p
        PROVE  c.day \in Days /\ \E r \in RowsOf(db, p) : r.submitted_day <= c.day
    <2>1. c.key \in Keys /\ c.day \in Days
      BY DEF IInv, TypeOK, Claim
    <2>2. <<p, c.key>> \in PrimaryKey /\ c \in ClaimsOn(<<p, c.key>>)
      BY <1>2, <2>1 DEF PrimaryKey, ClaimsOn
    <2>3. db[<<p, c.key>>] # NoRow /\ db[<<p, c.key>>].submitted_day <= c.day
      BY <2>2 DEF IInv, StoreMatchesClaims
    <2> QED
      BY <2>1, <2>3 DEF RowsOf, Corroborators
  <1> QED
    BY <1>1, <1>2 DEF RowsOf, Corroborators, Promise!DaysOf

\* A group of the query is what its pattern's claims say.
LEMMA GroupIsExact ==
    ASSUME IInv, NEW p \in Patterns, Corroborators(db, p) # {}
    PROVE  /\ Group(db, p).pattern_hash = p
           /\ Hash[Group(db, p).rule] = p
           /\ Group(db, p).corroborators = Cardinality(Promise!Supporters(p))
           /\ Promise!IsFirstDay(Group(db, p).first_seen_day, p)
  <1>1. RowsOf(db, p) # {}
    BY DEF RowsOf
  <1>2. \A r \in RowsOf(db, p) : r \in Row /\ Hash[r.rule_json] = p
    <2> SUFFICES ASSUME NEW k \in Keys, db[<<p, k>>] # NoRow
                 PROVE  db[<<p, k>>] \in Row /\ Hash[db[<<p, k>>].rule_json] = p
      BY DEF RowsOf, Corroborators
    <2>1. <<p, k>> \in PrimaryKey
      BY DEF PrimaryKey
    <2>2. db[<<p, k>>] \in Row
      BY <2>1 DEF IInv, TypeOK, Table
    <2> QED
      BY <2>2 DEF IInv, RowsAreGenuine
  <1>3. Hash[Group(db, p).rule] = p
    <2> DEFINE bodies == {r.rule_json : r \in RowsOf(db, p)}
    <2>1. bodies \subseteq Nat /\ bodies # {}
      BY <1>1, <1>2, RankAssumption DEF Row
    <2>2. \E x \in bodies : \A y \in bodies : x <= y
      <3> HIDE DEF bodies
      <3> QED
        BY <2>1, LeastNatural
    <2>3. Min(bodies) \in bodies
      <3> HIDE DEF bodies
      <3> QED
        BY <2>2 DEF Min
    <2> QED
      BY <1>2, <2>3 DEF Group
  <1>4. Promise!IsFirstDay(Group(db, p).first_seen_day, p)
    <2> DEFINE days == {r.submitted_day : r \in RowsOf(db, p)}
    <2>1. /\ days \subseteq Int /\ days # {}
          /\ I64Min \in Int /\ \A d \in days : I64Min <= d
      BY <1>1, <1>2, DayAssumption, I64MinAssumption DEF Row
    <2>2. \E x \in days : \A y \in days : x <= y
      <3> HIDE DEF days
      <3> QED
        BY <2>1, LeastInteger
    <2>3. Min(days) \in days /\ \A y \in days : Min(days) <= y
      <3> HIDE DEF days
      <3> QED
        BY <2>2 DEF Min
    <2>4. Min(days) = Group(db, p).first_seen_day
      BY DEF Group
    <2>5. Min(days) \in Promise!DaysOf(p)
      BY <2>3, RowsHaveDays
    <2>6. ASSUME NEW d \in Promise!DaysOf(p) PROVE Min(days) <= d
      <3>1. PICK r \in RowsOf(db, p) : r.submitted_day <= d
        BY RowsHaveDays
      <3>2. d \in Int /\ r.submitted_day \in days
        BY RowsHaveDays, DayAssumption
      <3> HIDE DEF days
      <3>3. Min(days) <= r.submitted_day /\ Min(days) \in Int /\ r.submitted_day \in Int
        BY <2>1, <2>3, <3>2
      <3> QED
        BY <3>1, <3>2, <3>3
    <2> QED
      BY <2>4, <2>5, <2>6 DEF Promise!IsFirstDay
  <1> QED
    BY <1>3, <1>4, SupportersHaveRows DEF Group

--------------------------------------------------------------------------------
(* A listing. *)

\* The groups a query keeps.
Kept(q) ==
    {g \in {Group(db, p) : p \in {r \in Patterns : Corroborators(db, r) # {}}} :
        g.corroborators >= q.min_corroborators /\ g.first_seen_day >= q.since_day}

\* They are the groups of the eligible patterns, of which there are finitely
\* many.
LEMMA KeptAreEligible ==
    ASSUME IInv, RefineInv, NEW q \in Queries
    PROVE  /\ Kept(q) = {Group(db, p) : p \in {r \in Patterns : Promise!Eligible(r, q)}}
           /\ IsFiniteSet(Kept(q))
  <1>1. q.min_corroborators \in Int /\ q.since_day \in Int
    BY RequestsAssumption, DayAssumption, I64MinAssumption DEF SuggestionsQuery
  <1>2. ASSUME NEW p \in Patterns
        PROVE  Promise!Eligible(p, q) <=>
                 /\ Corroborators(db, p) # {}
                 /\ Group(db, p).corroborators >= q.min_corroborators
                 /\ Group(db, p).first_seen_day >= q.since_day
    <2>1. CASE Corroborators(db, p) = {}
      BY <2>1, SupportersHaveRows DEF Promise!Eligible
    <2>2. CASE Corroborators(db, p) # {}
      <3>1. /\ Group(db, p).corroborators = Cardinality(Promise!Supporters(p))
            /\ Promise!IsFirstDay(Group(db, p).first_seen_day, p)
            /\ Promise!Supporters(p) # {}
        BY <2>2, GroupIsExact, SupportersHaveRows
      <3>2. PICK first : first = Group(db, p).first_seen_day
        OBVIOUS
      <3>3. first \in Promise!DaysOf(p) /\ \A d \in Promise!DaysOf(p) : first <= d /\ d \in Int
        BY <3>1, <3>2, RowsHaveDays, DayAssumption DEF Promise!IsFirstDay
      <3>4. (first >= q.since_day) <=> \A d \in Promise!DaysOf(p) : d >= q.since_day
        BY <1>1, <3>3
      <3> QED
        BY <2>2, <3>1, <3>2, <3>4, SameCardinality DEF Promise!Eligible
    <2> QED
      BY <2>1, <2>2
  <1>3. Kept(q) = {Group(db, p) : p \in {r \in Patterns : Promise!Eligible(r, q)}}
    BY <1>2 DEF Kept
  <1>4. IsFiniteSet(Kept(q))
    <2> DEFINE f == [c \in claims |-> Group(db, c.pattern)]
               all == {Group(db, c.pattern) : c \in claims}
    <2>1. f \in Surjection(claims, all)
      BY DEF Surjection
    <2>2. IsFiniteSet(all)
      <3> HIDE DEF f, all
      <3> QED
        BY <2>1, FS_Surjection DEF RefineInv
    <2>3. Kept(q) \subseteq all
      <3> SUFFICES ASSUME NEW p \in Patterns, Promise!Eligible(p, q)
                   PROVE  \E c \in claims : c.pattern = p
        BY <1>3
      <3> QED
        BY DEF Promise!Eligible, Promise!Supporters
    <2> HIDE DEF all
    <2> QED
      BY <2>2, <2>3, FS_Subset
  <1> QED
    BY <1>3, <1>4

\* The query's order puts the groups of different patterns into a strict
\* total order, which is that of their patterns' ranks.
LEMMA GroupsAreOrdered ==
    ASSUME IInv, RefineInv, NEW q \in Queries
    PROVE  LET s == InOrder(Kept(q), Precedes)
           IN  /\ s \in Seq(Kept(q)) /\ DOMAIN s = 1..Len(s)
               /\ \A i, j \in 1..Len(s) : i < j => Precedes(s[i], s[j])
               /\ \A g \in Kept(q) : \E i \in 1..Len(s) : s[i] = g
  <1> DEFINE R == {ab \in Kept(q) \X Kept(q) : Precedes(ab[1], ab[2])}
  <1>1. \A a, b \in Kept(q) : <<a, b>> \in R <=> Precedes(a, b)
    OBVIOUS
  <1> HIDE DEF R
  <1>2. \A g \in Kept(q) : /\ g.pattern_hash \in Int /\ g.corroborators \in Int
                           /\ g = Group(db, g.pattern_hash)
    <2> SUFFICES ASSUME NEW p \in Patterns, Promise!Eligible(p, q)
                 PROVE  /\ Group(db, p).pattern_hash \in Int
                        /\ Group(db, p).corroborators \in Int
                        /\ Group(db, p) = Group(db, Group(db, p).pattern_hash)
      BY KeptAreEligible
    <2>1. Corroborators(db, p) # {}
      BY SupportersHaveRows DEF Promise!Eligible
    <2>2. /\ Group(db, p).pattern_hash = p /\ p \in Int
          /\ Group(db, p).corroborators = Cardinality(Promise!Supporters(p))
      BY <2>1, GroupIsExact, RankAssumption
    <2>3. IsFiniteSet(Promise!Supporters(p))
      <3> DEFINE f == [c \in {d \in claims : d.pattern = p} |-> c.key]
      <3>1. IsFiniteSet({d \in claims : d.pattern = p})
        BY FS_Subset, {d \in claims : d.pattern = p} \subseteq claims DEF RefineInv
      <3>2. f \in Surjection({d \in claims : d.pattern = p}, Promise!Supporters(p))
        BY DEF Surjection, Promise!Supporters
      <3> HIDE DEF f
      <3> QED
        BY <3>1, <3>2, FS_Surjection
    <2> QED
      BY <2>2, <2>3, FS_CardinalityType
  <1>3. Orders(R, Kept(q))
    <2>1. \A a \in Kept(q) : <<a, a>> \notin R
      BY <1>1, <1>2 DEF Precedes
    <2>2. \A a, b \in Kept(q) : a # b => <<a, b>> \in R \/ <<b, a>> \in R
      <3> SUFFICES ASSUME NEW a \in Kept(q), NEW b \in Kept(q), a # b
                   PROVE  Precedes(a, b) \/ Precedes(b, a)
        BY <1>1
      <3>1. a.pattern_hash # b.pattern_hash
        BY <1>2
      <3> QED
        BY <1>2, <3>1 DEF Precedes
    <2>3. \A a, b, c \in Kept(q) : <<a, b>> \in R /\ <<b, c>> \in R => <<a, c>> \in R
      <3> SUFFICES ASSUME NEW a \in Kept(q), NEW b \in Kept(q), NEW c \in Kept(q),
                          Precedes(a, b), Precedes(b, c)
                   PROVE  Precedes(a, c)
        BY <1>1
      <3> QED
        BY <1>2 DEF Precedes
    <2> QED
      BY <2>1, <2>2, <2>3 DEF Orders
  <1>4. \E s \in SetToSeqs(Kept(q)) : \A i, j \in DOMAIN s : i < j => Precedes(s[i], s[j])
    <2>1. PICK s \in SetToSeqs(Kept(q)) : Ordered(s, R)
      BY <1>3, KeptAreEligible, OrderedExists
    <2>2. \A i \in DOMAIN s : s[i] \in Kept(q)
      BY <2>1, KeptAreEligible, ListsEach
    <2> QED
      BY <1>1, <2>1, <2>2 DEF Ordered
  <1>5. PICK s : s = InOrder(Kept(q), Precedes)
    OBVIOUS
  <1>6. s \in SetToSeqs(Kept(q)) /\ \A i, j \in DOMAIN s : i < j => Precedes(s[i], s[j])
    BY <1>4, <1>5 DEF InOrder
  <1>7. /\ s \in Seq(Kept(q)) /\ Len(s) = Cardinality(Kept(q))
        /\ DOMAIN s = 1..Cardinality(Kept(q))
        /\ \A g \in Kept(q) : \E i \in DOMAIN s : s[i] = g
    BY <1>6, KeptAreEligible, ListsEach
  <1> QED
    BY <1>5, <1>6, <1>7

\* What is served is a listing as the abstract specification describes it.
LEMMA ServedIsListing ==
    ASSUME IInv, RefineInv, NEW q \in Queries
    PROVE  Promise!IsListing(Served(db, q), q)
  <1>1. PICK s : s = InOrder(Kept(q), Precedes)
    OBVIOUS
  <1>2. /\ s \in Seq(Kept(q)) /\ DOMAIN s = 1..Len(s)
        /\ \A i, j \in 1..Len(s) : i < j => Precedes(s[i], s[j])
        /\ \A g \in Kept(q) : \E i \in 1..Len(s) : s[i] = g
    BY <1>1, GroupsAreOrdered
  <1>3. s = ListAggregated(db, q.min_corroborators, q.since_day)
    BY <1>1 DEF ListAggregated, Kept
  <1>4. q.limit \in Nat /\ DefaultLimit \in Nat /\ Len(s) \in Nat
    BY <1>2, RequestsAssumption, BoundsAssumption DEF SuggestionsQuery
  <1>5. PICK n : n = Smaller(Smaller(q.limit, DefaultLimit), Len(s))
    OBVIOUS
  <1>6. /\ n \in Nat /\ n <= Len(s) /\ n <= q.limit /\ n <= DefaultLimit
        /\ n = Len(s) \/ n = q.limit \/ n = DefaultLimit
    BY <1>4, <1>5 DEF Smaller
  <1>7. PICK list : list = SubSeq(s, 1, n)
    OBVIOUS
  <1>8. Served(db, q) = list
    BY <1>3, <1>5, <1>7 DEF Served
  <1>9. Len(list) = n /\ \A i \in 1..n : list[i] = s[i] /\ s[i] \in Kept(q)
    <2>1. \A i \in 1..n : s[i] \in Kept(q)
      <3>1. \A i \in 1..n : i \in 1..Len(s)
        BY <1>4, <1>6
      <3>2. \A i \in 1..Len(s) : s[i] \in Kept(q)
        BY <1>2
      <3> QED
        BY <3>1, <3>2
    <2>2. Len(list) = n /\ \A i \in 1..n : list[i] = s[i]
      BY <1>6, <1>7, <2>1, SubSeqProperties
    <2> QED
      BY <2>1, <2>2
  <1>10. ASSUME NEW g \in Kept(q)
         PROVE  /\ g.pattern_hash \in {p \in Patterns : Promise!Eligible(p, q)}
                /\ Hash[g.rule] = g.pattern_hash
                /\ g.corroborators = Cardinality(Promise!Supporters(g.pattern_hash))
                /\ Promise!IsFirstDay(g.first_seen_day, g.pattern_hash)
    <2>1. PICK p \in Patterns : Promise!Eligible(p, q) /\ g = Group(db, p)
      BY KeptAreEligible
    <2>2. Corroborators(db, p) # {}
      BY <2>1, SupportersHaveRows DEF Promise!Eligible
    <2> QED
      BY <2>1, <2>2, GroupIsExact
  <1>11. \A i, j \in 1..Len(s) : i < j => Promise!Outranks(s[i].pattern_hash, s[j].pattern_hash)
    <2> SUFFICES ASSUME NEW i \in 1..Len(s), NEW j \in 1..Len(s), i < j
                 PROVE  Promise!Outranks(s[i].pattern_hash, s[j].pattern_hash)
      OBVIOUS
    <2>1. s[i] \in Kept(q) /\ s[j] \in Kept(q) /\ Precedes(s[i], s[j])
      BY <1>2
    <2>2. /\ s[i].corroborators = Cardinality(Promise!Supporters(s[i].pattern_hash))
          /\ s[j].corroborators = Cardinality(Promise!Supporters(s[j].pattern_hash))
      BY <1>10, <2>1
    <2> QED
      BY <2>1, <2>2, SameCardinality DEF Precedes, Promise!Outranks
  <1>12. ASSUME NEW p \in Patterns, Promise!Eligible(p, q)
         PROVE  \E j \in 1..Len(s) : s[j].pattern_hash = p
    <2>1. Group(db, p) \in Kept(q) /\ Corroborators(db, p) # {}
      BY <1>12, KeptAreEligible, SupportersHaveRows DEF Promise!Eligible
    <2>2. Group(db, p).pattern_hash = p
      BY <2>1, GroupIsExact
    <2> QED
      BY <1>2, <2>1, <2>2
  <1> DEFINE listed == {list[i].pattern_hash : i \in 1..Len(list)}
             eligible == {p \in Patterns : Promise!Eligible(p, q)}
  <1>13. listed \subseteq eligible
    BY <1>9, <1>10
  <1>14. \A i \in 1..Len(list) :
            /\ Hash[list[i].rule] = list[i].pattern_hash
            /\ list[i].corroborators = Cardinality(Promise!Supporters(list[i].pattern_hash))
            /\ Promise!IsFirstDay(list[i].first_seen_day, list[i].pattern_hash)
    BY <1>9, <1>10
  <1>15. \A i, j \in 1..Len(list) :
            i < j => Promise!Outranks(list[i].pattern_hash, list[j].pattern_hash)
    <2>1. \A i \in 1..n : i \in 1..Len(s)
      BY <1>4, <1>6
    <2> QED
      BY <1>9, <1>11, <2>1
  <1>16. eligible # listed => Len(list) = q.limit \/ Len(list) = DefaultLimit
    <2> SUFFICES ASSUME n = Len(s) PROVE eligible \subseteq listed
      BY <1>6, <1>9, <1>13
    <2> SUFFICES ASSUME NEW p \in Patterns, Promise!Eligible(p, q) PROVE p \in listed
      OBVIOUS
    <2>1. PICK j \in 1..Len(s) : s[j].pattern_hash = p
      BY <1>12
    <2> QED
      BY <1>9, <2>1
  <1>17. ASSUME NEW p \in eligible \ listed, NEW r \in listed
         PROVE  Promise!Outranks(r, p)
    <2>1. PICK j \in 1..Len(s) : s[j].pattern_hash = p
      BY <1>12
    <2>2. PICK i \in 1..n : r = s[i].pattern_hash
      BY <1>9
    <2>3. j \notin 1..n
      BY <1>9, <2>1
    <2>4. i < j /\ i \in 1..Len(s)
      BY <1>4, <1>6, <2>3
    <2> QED
      BY <1>11, <2>1, <2>2, <2>4
  <1> QED
    BY <1>6, <1>8, <1>9, <1>13, <1>14, <1>15, <1>16, <1>17, SameCardinality DEF Promise!IsListing

--------------------------------------------------------------------------------
(* The steps. *)

\* A step that concerns none of the abstract variables.
LEMMA Stutter ==
    ASSUME UNCHANGED <<claims, req, answer>>
    PROVE  UNCHANGED Promise!cvars
  BY DEF Promise!cvars

\* Receiving a request is asking.
LEMMA ReceiveAsks ==
    ASSUME IInv, RefineInv, NEW h \in Handlers, ReceiveSubmission(h) \/ ReceiveQuery(h)
    PROVE  Promise!Ask(h)
  <1>1. /\ req[h] = NoRequest
        /\ \E r \in Requests : req' = [req EXCEPT ![h] = r]
        /\ UNCHANGED <<claims, answer>>
    BY DEF RefineInv, ReceiveSubmission, ReceiveQuery, Requests, history
  <1> QED
    BY <1>1 DEF Promise!Ask

\* A handler that has not answered yet owes its request an answer.
LEMMA StillWaiting ==
    ASSUME IInv, NEW h \in Handlers, pc[h] # "reply", NEW kind, req[h].kind = kind
    PROVE  Promise!Waiting(h, kind)
  BY DEF IInv, AckInv, Promise!Waiting

\* Every refusal is one the abstract specification allows.
LEMMA RefusalRefuses ==
    ASSUME IInv, NEW h \in Handlers,
           pc[h] # "reply", req[h].kind \in {"submit", "suggestions"},
           NEW error \in {"global_rate_limit", "per_pubkey_rate_limit", "pow_insufficient",
                          "verification_failed", "store_failure"},
           answer' = [answer EXCEPT ![h] = Refused(error)],
           UNCHANGED <<claims, req>>
    PROVE  Promise!Refuse(h)
  <1>1. Promise!Waiting(h, "submit") \/ Promise!Waiting(h, "suggestions")
    BY StillWaiting
  <1> QED
    BY <1>1 DEF Promise!Refuse, Promise!Answer, Refused

\* Charging, checking and queueing refuse, or are not seen.
LEMMA CheckRefuses ==
    ASSUME IInv, NEW h \in Handlers,
           CheckGlobal(h) \/ CheckKey(h) \/ VerifySubmission(h)
    PROVE  Promise!Refuse(h) \/ UNCHANGED Promise!cvars
  <1>1. pc[h] \in {"global", "per_key", "verify"} /\ UNCHANGED <<claims, req>>
    BY DEF CheckGlobal, CheckKey, VerifySubmission, history
  <1>2. req[h].kind = "submit"
    BY <1>1, SubmissionTypes DEF IInv, CheckedInv
  <1>3. \/ answer' = answer
        \/ \E error \in {"global_rate_limit", "per_pubkey_rate_limit", "pow_insufficient",
                         "verification_failed", "store_failure"} :
              answer' = [answer EXCEPT ![h] = Refused(error)]
    BY DEF CheckGlobal, CheckKey, VerifySubmission, Return
  <1> QED
    BY <1>1, <1>2, <1>3, Stutter, RefusalRefuses

\* A statement that fails is a refusal.
LEMMA FailureRefuses ==
    ASSUME IInv, NEW h \in Handlers, StoreFailure(h)
    PROVE  Promise!Refuse(h)
  <1>1. pc[h] # "reply" /\ UNCHANGED <<claims, req>>
    BY DEF StoreFailure, history
  <1>2. req[h].kind \in {"submit", "suggestions"}
    BY SubmissionTypes DEF StoreFailure, IInv, CheckedInv
  <1>3. answer' = [answer EXCEPT ![h] = Refused("store_failure")]
    BY DEF StoreFailure, Return
  <1> QED
    BY <1>1, <1>2, <1>3, RefusalRefuses

\* The commit is the moment a submission counts, and its answer is right
\* about the claims before it, though existed was read in an earlier step.
LEMMA CommitAccepts ==
    ASSUME IInv, NEW h \in Handlers, Commit(h)
    PROVE  Promise!Accept(h)
  <1> DEFINE signed == req[h].signed
             claim == ClaimOf(signed)
  <1>1. /\ req[h] \in Submissions /\ pc[h] # "reply"
        /\ VerifyPow(req[h]) /\ Verify(signed)
        /\ existed[h] = Existed(db, RowOf(signed))
    BY DEF Commit, IInv, CheckedInv, SelectInv
  <1>2. /\ claims' = claims \cup {claim} /\ req' = req
        /\ answer' = [answer EXCEPT ![h] =
                        [status |-> "accepted", new_corroborator |-> ~existed[h]]]
    BY DEF Commit, Return
  <1>3. req[h].kind = "submit" /\ claim \in Claim
    BY <1>1, SubmissionTypes
  <1>4. Promise!Waiting(h, "submit")
    BY <1>1, <1>3, StillWaiting
  <1>5. existed[h] = (claim.key \in Promise!Supporters(claim.pattern))
    <2>1. Promise!Supporters(claim.pattern) = Corroborators(db, claim.pattern)
      BY <1>3, SupportersHaveRows DEF Claim
    <2>2. Existed(db, RowOf(signed)) = (db[<<claim.pattern, claim.key>>] # NoRow)
      BY DEF Existed, IdOf, RowOf, ClaimOf
    <2>3. (claim.key \in Corroborators(db, claim.pattern))
             = (db[<<claim.pattern, claim.key>>] # NoRow)
      BY <1>3 DEF Corroborators, Claim
    <2> QED
      BY <1>1, <2>1, <2>2, <2>3
  <1>6. Promise!Verify(signed)
    BY <1>1 DEF Verify, Promise!Verify
  <1>7. claim = [pattern |-> signed.suggestion.pattern_hash,
                 key     |-> signed.public_key,
                 day     |-> signed.suggestion.submitted_at_day]
    BY DEF ClaimOf
  <1> QED
    BY <1>1, <1>2, <1>4, <1>5, <1>6, <1>7 DEF Promise!Accept, Promise!Answer

\* A listing is what the abstract specification calls one.
LEMMA ListingLists ==
    ASSUME IInv, RefineInv, NEW h \in Handlers, ListSuggestions(h)
    PROVE  Promise!List(h)
  <1>1. PICK a : a = [status |-> "listing", suggestions |-> Served(db, req[h])]
    OBVIOUS
  <1>2. /\ answer' = [answer EXCEPT ![h] = a]
        /\ UNCHANGED <<claims, req>>
        /\ pc[h] # "reply" /\ req[h].kind = "suggestions"
    BY <1>1 DEF ListSuggestions, Return, history
  <1>3. answer'[h] = a
    BY <1>2 DEF IInv, TypeOK
  <1>4. a.status = "listing" /\ a.suggestions = Served(db, req[h])
    BY <1>1
  <1>5. req[h] \in Queries
    BY <1>2, RequestsAssumption DEF IInv, TypeOK, Requests, NoRequest, Health, SubmitEnvelope
  <1>6. Promise!IsListing(a.suggestions, req[h])
    BY <1>4, <1>5, ServedIsListing
  <1>7. Promise!Waiting(h, "suggestions")
    BY <1>2, StillWaiting
  <1> QED
    BY <1>2, <1>3, <1>4, <1>6, <1>7 DEF Promise!List

\* The count of patterns with a row is that of the patterns claimed.
LEMMA HealthReports ==
    ASSUME IInv, NEW h \in Handlers, ReportHealth(h)
    PROVE  Promise!Report(h)
  <1>1. {p \in Patterns : Corroborators(db, p) # {}} = {d.pattern : d \in claims}
    <2>1. \A d \in claims : d.pattern \in Patterns
      BY DEF IInv, TypeOK, Claim
    <2> QED
      BY <2>1, SupportersHaveRows DEF Promise!Supporters
  <1>2. TotalUniquePatterns(db) = Promise!Cardinality({d.pattern : d \in claims})
    BY <1>1, SameCardinality DEF TotalUniquePatterns
  <1>3. PICK total \in {TotalUniquePatterns(db), 0} :
           answer' = [answer EXCEPT ![h] = [status |-> "health", total_unique_patterns |-> total]]
    BY DEF ReportHealth, Return
  <1>4. Promise!Waiting(h, "health")
    BY StillWaiting DEF ReportHealth
  <1>5. UNCHANGED <<claims, req>>
    BY DEF ReportHealth, history
  <1> QED
    BY <1>2, <1>3, <1>4, <1>5 DEF Promise!Report, Promise!Answer

\* A response read or lost, a client that hangs up, and a restart, which
\* nobody's request survives, are clients that leave.
LEMMA EndLeaves ==
    ASSUME IInv, (\E h \in Handlers : Deliver(h) \/ LoseReply(h) \/ HangUp(h)) \/ Restart
    PROVE  \E some \in SUBSET Handlers : Promise!Leave(some)
  <1>1. ASSUME NEW h \in Handlers, Deliver(h) \/ LoseReply(h) \/ HangUp(h)
        PROVE  Promise!Leave({h})
    <2>1. /\ req' = [req EXCEPT ![h] = NoRequest]
          /\ answer' = [answer EXCEPT ![h] = NoAnswer]
          /\ claims' = claims
      BY <1>1 DEF Deliver, LoseReply, HangUp, Finish, history
    <2>2. /\ req' = [c \in Handlers |-> IF c \in {h} THEN NoRequest ELSE req[c]]
          /\ answer' = [c \in Handlers |-> IF c \in {h} THEN NoAnswer ELSE answer[c]]
      <3>1. DOMAIN req = Handlers /\ DOMAIN answer = Handlers
        BY DEF IInv, TypeOK
      <3> QED
        BY <2>1, <3>1
    <2> QED
      BY <2>1, <2>2 DEF Promise!Leave
  <1>2. CASE Restart
    <2>1. Promise!Leave(Handlers)
      BY <1>2 DEF Restart, Promise!Leave
    <2> QED
      BY <2>1
  <1>3. CASE \E h \in Handlers : Deliver(h) \/ LoseReply(h) \/ HangUp(h)
    BY <1>1, <1>3
  <1> QED
    BY <1>2, <1>3

\* Every step of the service is a step of the abstract specification, or
\* changes nothing it speaks of.
LEMMA NextRefines ==
    ASSUME IInv, RefineInv, [Next]_vars
    PROVE  [Promise!Next]_(Promise!cvars)
  <1>1. ASSUME NEW h \in Handlers, HandlerStep(h) \/ ClientStep(h)
        PROVE  [Promise!Next]_(Promise!cvars)
    <2>1. CASE ReceiveSubmission(h) \/ ReceiveQuery(h)
      BY <2>1, ReceiveAsks DEF Promise!Next
    <2>2. CASE CheckGlobal(h) \/ CheckKey(h) \/ VerifySubmission(h)
      BY <2>2, CheckRefuses DEF Promise!Next
    <2>3. CASE AcquireStore(h) \/ Select(h)
      BY <2>3, Stutter DEF AcquireStore, Select, history
    <2>4. CASE Commit(h)
      BY <2>4, CommitAccepts DEF Promise!Next
    <2>5. CASE StoreFailure(h)
      BY <2>5, FailureRefuses DEF Promise!Next
    <2>6. CASE ListSuggestions(h)
      BY <2>6, ListingLists DEF Promise!Next
    <2>7. CASE ReportHealth(h)
      BY <2>7, HealthReports DEF Promise!Next
    <2>8. CASE Deliver(h) \/ LoseReply(h) \/ HangUp(h)
      BY <2>8, EndLeaves DEF Promise!Next
    <2> QED
      BY <1>1, <2>1, <2>2, <2>3, <2>4, <2>5, <2>6, <2>7, <2>8 DEF HandlerStep, ClientStep
  <1>2. CASE Tick \/ UNCHANGED vars
    BY <1>2, Stutter DEF Tick, vars, handlerVars, history
  <1>3. CASE Restart
    BY <1>3, EndLeaves DEF Promise!Next
  <1> QED
    BY <1>1, <1>2, <1>3 DEF Next

LEMMA InitRefines == Init => Promise!Init
  BY DEF Init, Promise!Init

\* The service is linearizable: it implements Corroboration, for any keys,
\* rules, days, handlers, buckets and bounds.
THEOREM LedgerRefines == Spec => RefinesCorroboration
  <1>1. IInv /\ RefineInv /\ [Next]_vars => [Promise!Next]_(Promise!cvars)
    BY NextRefines
  <1> QED
    BY <1>1, InitRefines, InitRefine, NextRefine, LedgerInvariant, PTL
       DEF Spec, RefinesCorroboration, Promise!Spec

================================================================================
