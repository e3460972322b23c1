--------------------------- MODULE CrabLedgerProofs ---------------------------
(***************************************************************************)
(* The safety of the ledger for any rules, keys, days, handlers, buckets   *)
(* and bounds.  The invariants of CrabLedger are not inductive: that a row *)
(* is announced once rests on what each handler knows while it holds the   *)
(* mutex, and that rows are genuine on what was checked before it queued.  *)
(* IInv adds those facts.                                                  *)
(***************************************************************************)
EXTENDS CrabLedger, FiniteSetTheorems, TLAPS

\* Between acquiring the store and returning, a handler is the mutex's holder.
HolderInv == \A h \in Handlers : pc[h] \in {"locked", "upsert"} => holder = h

\* The steps of handle_submit run for a submission, and those after the
\* checks for one that passed them.
CheckedInv ==
    \A h \in Handlers :
        /\ pc[h] \in {"global", "per_key", "verify", "upsert"} => req[h] \in Submissions
        /\ pc[h] \in {"waiting", "locked", "upsert"} /\ req[h] \in Submissions =>
              VerifyPow(req[h]) /\ Verify(req[h].signed)

\* What the SELECT found is still so when the INSERT runs.
SelectInv ==
    \A h \in Handlers : pc[h] = "upsert" => existed[h] = Existed(db, RowOf(req[h].signed))

\* A 202 is produced for a committed submission, and read after that.
AckInv ==
    /\ \A h \in Handlers : answer[h].status = "accepted" =>
          req[h] \in Submissions /\ ClaimOf(req[h].signed) \in claims
    /\ \A h \in Handlers : pc[h] # "reply" => answer[h] = NoAnswer
    /\ acked \subseteq claims

IInv ==
    /\ TypeOK
    /\ HolderInv
    /\ CheckedInv
    /\ SelectInv
    /\ AckInv
    /\ StoreMatchesClaims
    /\ AnnouncedOncePerRow
    /\ RowsAreGenuine

\* A request whose kind is "submit" is one of the submissions.
LEMMA SubmitKind ==
    ASSUME NEW r \in Requests \cup {NoRequest}, r.kind = "submit"
    PROVE  r \in Submissions
  BY RequestsAssumption DEF Requests, NoRequest, Health, SuggestionsQuery

\* The fields of a submission, its row and its claim have their types.
LEMMA SubmissionTypes ==
    ASSUME NEW r \in Submissions
    PROVE  /\ r \in SubmitEnvelope
           /\ r.kind = "submit"
           /\ r.signed \in SignedSuggestion
           /\ r.signed.suggestion \in Suggestion
           /\ r.signed.public_key \in Keys
           /\ r.signed.suggestion.pattern_hash \in Patterns
           /\ r.signed.suggestion.submitted_at_day \in Days
           /\ r.signed.suggestion.rule \in Rules
           /\ r.signed.signature \in Signature
           /\ RowOf(r.signed) \in CorroborationRow
           /\ ClaimOf(r.signed) \in Claim
  <1>1. r \in SubmitEnvelope
    BY RequestsAssumption
  <1>2. r.kind = "submit" /\ r.signed \in SignedSuggestion
    BY <1>1 DEF SubmitEnvelope
  <1>3. /\ r.signed.suggestion \in Suggestion
        /\ r.signed.public_key \in Keys
        /\ r.signed.signature \in Signature
    BY <1>2 DEF SignedSuggestion
  <1>4. /\ r.signed.suggestion.pattern_hash \in Patterns
        /\ r.signed.suggestion.submitted_at_day \in Days
        /\ r.signed.suggestion.rule \in Rules
    BY <1>3 DEF Suggestion
  <1> QED
    BY <1>1, <1>2, <1>3, <1>4 DEF RowOf, CorroborationRow, ClaimOf, Claim

\* What an upsert does to the table: the row named gets the new signature
\* and body and the earlier day, every other row stays.
LEMMA UpsertEffect ==
    ASSUME NEW t \in Table, NEW row \in CorroborationRow
    PROVE  /\ Upserted(t, row) \in Table
           /\ IdOf(row) \in PrimaryKey
           /\ \A id \in PrimaryKey : id # IdOf(row) => Upserted(t, row)[id] = t[id]
           /\ LET new == Upserted(t, row)[IdOf(row)]
                  old == t[IdOf(row)]
              IN  /\ new # NoRow
                  /\ new.signature = row.signature
                  /\ new.rule_json = row.rule_json
                  /\ old = NoRow => new.submitted_day = row.submitted_day
                  /\ old # NoRow => /\ old.submitted_day \in Days
                                    /\ new.submitted_day =
                                          EarlierDay(old.submitted_day, row.submitted_day)
  <1> DEFINE old == t[IdOf(row)]
             fresh == [signature     |-> row.signature,
                       rule_json     |-> row.rule_json,
                       submitted_day |-> IF old = NoRow THEN row.submitted_day
                                         ELSE EarlierDay(old.submitted_day, row.submitted_day)]
  <1>1. /\ IdOf(row) \in PrimaryKey
        /\ row.signature \in Signature /\ row.rule_json \in Rules /\ row.submitted_day \in Days
    BY DEF CorroborationRow, IdOf, PrimaryKey
  <1>2. old # NoRow => old \in Row
    BY <1>1 DEF Table
  <1>3. old # NoRow => old.submitted_day \in Days
    BY <1>2 DEF Row
  <1>4. fresh \in Row
    BY <1>1, <1>3 DEF Row, EarlierDay
  <1>5. fresh # NoRow
    BY <1>4, NoRowAssumption DEF Row
  <1>6. Upserted(t, row) = [t EXCEPT ![IdOf(row)] = fresh]
    BY DEF Upserted
  <1> HIDE DEF fresh, old
  <1>7. Upserted(t, row) \in Table
    BY <1>1, <1>4, <1>6 DEF Table
  <1>8. \A id \in PrimaryKey :
           Upserted(t, row)[id] = IF id = IdOf(row) THEN fresh ELSE t[id]
    BY <1>1, <1>6 DEF Table
  <1>9. /\ fresh.signature = row.signature
        /\ fresh.rule_json = row.rule_json
        /\ old = NoRow => fresh.submitted_day = row.submitted_day
        /\ old # NoRow => fresh.submitted_day = EarlierDay(old.submitted_day, row.submitted_day)
    BY DEF fresh
  <1> QED
    BY <1>1, <1>3, <1>5, <1>7, <1>8, <1>9 DEF old

--------------------------------------------------------------------------------

\* The invariant holds at the start: no handler runs and the table is empty.
LEMMA InitIInv == Init => IInv
  <1> SUFFICES ASSUME Init PROVE IInv
    OBVIOUS
  <1>1. TypeOK
    <2>1. queue \in Seq(Handlers)
      BY DEF Init
    <2>2. db \in Table
      BY DEF Init, EmptyTable, Table
    <2>3. DOMAIN answer = Handlers /\ \A h \in Handlers : IsAnswer(answer[h])
      BY DEF Init, IsAnswer
    <2> QED
      BY <2>1, <2>2, <2>3, BoundsAssumption DEF Init, TypeOK, Labels
  <1>2. HolderInv /\ CheckedInv /\ SelectInv
    BY DEF Init, HolderInv, CheckedInv, SelectInv
  <1>3. AckInv
    BY DEF Init, AckInv, NoAnswer
  <1>4. \A id \in PrimaryKey : db[id] = NoRow /\ announced[id] = 0
    BY DEF Init, EmptyTable
  <1>5. StoreMatchesClaims
    BY <1>4 DEF Init, StoreMatchesClaims, ClaimsOn
  <1>6. AnnouncedOncePerRow /\ RowsAreGenuine
    BY <1>4 DEF AnnouncedOncePerRow, RowsAreGenuine, PrimaryKey
  <1> QED
    BY <1>1, <1>2, <1>3, <1>5, <1>6 DEF IInv

\* A step that leaves the table and what was said of it alone keeps the
\* invariants about them.
LEMMA QuietStore ==
    ASSUME IInv, UNCHANGED <<db, claims, announced>>
    PROVE  StoreMatchesClaims' /\ AnnouncedOncePerRow' /\ RowsAreGenuine'
  BY DEF IInv, StoreMatchesClaims, ClaimsOn, AnnouncedOncePerRow, RowsAreGenuine

\* Receiving a request.
LEMMA ReceiveStep ==
    ASSUME IInv, NEW h \in Handlers, ReceiveSubmission(h) \/ ReceiveQuery(h)
    PROVE  IInv'
  <1> USE DEF GoTo
  <1>1. CASE ReceiveSubmission(h)
    <2> USE <1>1 DEF ReceiveSubmission, limiterVars, mutexVars, history
    <2>1. PICK env \in Submissions : req' = [req EXCEPT ![h] = env]
      OBVIOUS
    <2>2. TypeOK'
      BY <2>1 DEF IInv, TypeOK, Labels, Requests
    <2>3. HolderInv' /\ CheckedInv' /\ SelectInv'
      BY <2>1 DEF IInv, TypeOK, HolderInv, CheckedInv, SelectInv
    <2>4. AckInv'
      BY <2>1 DEF IInv, TypeOK, AckInv, NoAnswer
    <2> QED
      BY <2>2, <2>3, <2>4, QuietStore DEF IInv
  <1>2. CASE ReceiveQuery(h)
    <2> USE <1>2 DEF ReceiveQuery, WaitForStore, limiterVars, history
    <2>1. PICK q \in Queries \cup {Health} : req' = [req EXCEPT ![h] = q]
      OBVIOUS
    <2>2. q \notin Submissions
      BY RequestsAssumption DEF SuggestionsQuery, SubmitEnvelope, Health
    <2>3. TypeOK'
      BY <2>1 DEF IInv, TypeOK, Labels, Requests
    <2>4. HolderInv' /\ CheckedInv' /\ SelectInv'
      BY <2>1, <2>2 DEF IInv, TypeOK, HolderInv, CheckedInv, SelectInv
    <2>5. AckInv'
      BY <2>1 DEF IInv, TypeOK, AckInv, NoAnswer
    <2> QED
      BY <2>3, <2>4, <2>5, QuietStore DEF IInv
  <1> QED
    BY <1>1, <1>2

\* A handler that moves on, or returns something other than a 202, leaves
\* pc and answer well typed and every 202 backed by its claim.
LEMMA AnswerStep ==
    ASSUME TypeOK, AckInv, NEW h \in Handlers, pc[h] # "reply",
           UNCHANGED <<req, claims, acked>>,
           NEW label \in Labels \ {"reply"},
           \/ pc' = [pc EXCEPT ![h] = label] /\ answer' = answer
           \/ /\ pc' = [pc EXCEPT ![h] = "reply"]
              /\ \E a : /\ IsAnswer(a) /\ a.status # "accepted"
                        /\ answer' = [answer EXCEPT ![h] = a]
    PROVE  /\ pc' \in [Handlers -> Labels]
           /\ DOMAIN answer' = Handlers /\ \A g \in Handlers : IsAnswer(answer'[g])
           /\ AckInv'
  <1>1. CASE pc' = [pc EXCEPT ![h] = label] /\ answer' = answer
    BY <1>1 DEF TypeOK, AckInv
  <1>2. CASE /\ pc' = [pc EXCEPT ![h] = "reply"]
             /\ \E a : /\ IsAnswer(a) /\ a.status # "accepted"
                       /\ answer' = [answer EXCEPT ![h] = a]
    <2>1. PICK a : /\ IsAnswer(a) /\ a.status # "accepted"
                   /\ answer' = [answer EXCEPT ![h] = a]
      BY <1>2
    <2>2. DOMAIN answer' = Handlers
          /\ \A g \in Handlers : answer'[g] = IF g = h THEN a ELSE answer[g]
      BY <2>1 DEF TypeOK
    <2>3. \A g \in Handlers : pc'[g] = IF g = h THEN "reply" ELSE pc[g]
      BY <1>2 DEF TypeOK
    <2>4. pc' \in [Handlers -> Labels]
      BY <1>2 DEF TypeOK, Labels
    <2> QED
      BY <2>1, <2>2, <2>3, <2>4 DEF TypeOK, AckInv
  <1> QED
    BY <1>1, <1>2

\* Charging the buckets.
LEMMA LimiterStep ==
    ASSUME IInv, NEW h \in Handlers, CheckGlobal(h) \/ CheckKey(h)
    PROVE  IInv'
  <1> USE DEF GoTo, Return, Refused, mutexVars, history
  <1>1. CASE CheckGlobal(h)
    <2> USE <1>1 DEF CheckGlobal
    <2>1. /\ pc' \in [Handlers -> Labels]
          /\ DOMAIN answer' = Handlers /\ \A g \in Handlers : IsAnswer(answer'[g])
          /\ AckInv'
      <3>1. "per_key" \in Labels \ {"reply"}
        BY DEF Labels
      <3>2. \/ pc' = [pc EXCEPT ![h] = "per_key"] /\ answer' = answer
            \/ /\ pc' = [pc EXCEPT ![h] = "reply"]
               /\ \E a : /\ IsAnswer(a) /\ a.status # "accepted"
                         /\ answer' = [answer EXCEPT ![h] = a]
        BY DEF IsAnswer
      <3> QED
        BY <3>1, <3>2, AnswerStep DEF IInv
    <2>2. TypeOK'
      BY <2>1, BoundsAssumption DEF IInv, TypeOK
    <2>3. HolderInv' /\ CheckedInv' /\ SelectInv'
      BY DEF IInv, TypeOK, HolderInv, CheckedInv, SelectInv
    <2> QED
      BY <2>1, <2>2, <2>3, QuietStore DEF IInv
  <1>2. CASE CheckKey(h)
    <2> USE <1>2 DEF CheckKey
    <2>1. /\ pc' \in [Handlers -> Labels]
          /\ DOMAIN answer' = Handlers /\ \A g \in Handlers : IsAnswer(answer'[g])
          /\ AckInv'
      <3>1. "verify" \in Labels \ {"reply"}
        BY DEF Labels
      <3>2. \/ pc' = [pc EXCEPT ![h] = "verify"] /\ answer' = answer
            \/ /\ pc' = [pc EXCEPT ![h] = "reply"]
               /\ \E a : /\ IsAnswer(a) /\ a.status # "accepted"
                         /\ answer' = [answer EXCEPT ![h] = a]
        BY DEF IsAnswer
      <3> QED
        BY <3>1, <3>2, AnswerStep DEF IInv
    <2>2. req[h].signed.public_key \in Keys
      BY SubmissionTypes DEF IInv, CheckedInv
    <2>3. TypeOK'
      BY <2>1, <2>2, BoundsAssumption DEF IInv, TypeOK
    <2>4. HolderInv' /\ CheckedInv' /\ SelectInv'
      BY DEF IInv, TypeOK, HolderInv, CheckedInv, SelectInv
    <2> QED
      BY <2>1, <2>3, <2>4, QuietStore DEF IInv
  <1> QED
    BY <1>1, <1>2

\* Checking the work and the signature, and queueing for the store.
LEMMA VerifyStep ==
    ASSUME IInv, NEW h \in Handlers, VerifySubmission(h)
    PROVE  IInv'
  <1> USE DEF VerifySubmission, GoTo, Return, Refused, WaitForStore, limiterVars, history
  <1>1. /\ pc' \in [Handlers -> Labels]
        /\ DOMAIN answer' = Handlers /\ \A g \in Handlers : IsAnswer(answer'[g])
        /\ AckInv'
    <2>1. "waiting" \in Labels \ {"reply"}
      BY DEF Labels
    <2>2. \/ pc' = [pc EXCEPT ![h] = "waiting"] /\ answer' = answer
          \/ /\ pc' = [pc EXCEPT ![h] = "reply"]
             /\ \E a : /\ IsAnswer(a) /\ a.status # "accepted"
                       /\ answer' = [answer EXCEPT ![h] = a]
      BY DEF IsAnswer
    <2> QED
      BY <2>1, <2>2, AnswerStep DEF IInv
  <1>2. TypeOK'
    <2>1. queue' \in Seq(Handlers)
      <3>1. queue' = queue \/ queue' = Append(queue, h)
        OBVIOUS
      <3>2. queue \in Seq(Handlers)
        BY DEF IInv, TypeOK
      <3>3. Append(queue, h) \in Seq(Handlers)
        BY <3>2
      <3> QED
        BY <3>1, <3>2, <3>3
    <2>2. UNCHANGED <<req, existed, holder, globalTokens, keyTokens, ticks, db, crashes,
                      claims, acked, announced, written, commits>>
      OBVIOUS
    <2> HIDE DEF VerifySubmission
    <2> QED
      BY <1>1, <2>1, <2>2 DEF IInv, TypeOK
  <1>3. HolderInv' /\ SelectInv'
    BY DEF IInv, TypeOK, HolderInv, SelectInv
  <1>4. CheckedInv'
    <2>1. req' = req
      OBVIOUS
    <2>2. \A g \in Handlers : g # h => pc'[g] = pc[g]
      BY DEF IInv, TypeOK
    <2>3. pc'[h] = "reply" \/ (pc'[h] = "waiting" /\ VerifyPow(req[h]) /\ Verify(req[h].signed))
      BY DEF IInv, TypeOK
    <2> HIDE DEF VerifySubmission
    <2> QED
      BY <2>1, <2>2, <2>3 DEF IInv, CheckedInv
  <1> QED
    BY <1>1, <1>2, <1>3, <1>4, QuietStore DEF IInv

\* Getting the mutex, and reading whether the row is there.
LEMMA AcquireStep ==
    ASSUME IInv, NEW h \in Handlers, AcquireStore(h) \/ Select(h)
    PROVE  IInv'
  <1> USE DEF GoTo, mutexVars, limiterVars, history
  <1>1. CASE AcquireStore(h)
    <2> USE <1>1 DEF AcquireStore
    <2>1. TypeOK'
      <3>1. queue' \in Seq(Handlers)
        BY DEF IInv, TypeOK
      <3> QED
        BY <3>1 DEF IInv, TypeOK, Labels
    <2>2. HolderInv'
      BY HandlersAssumption DEF IInv, TypeOK, HolderInv
    <2>3. CheckedInv' /\ SelectInv'
      BY DEF IInv, TypeOK, CheckedInv, SelectInv
    <2>4. AckInv'
      BY DEF IInv, TypeOK, AckInv, NoAnswer
    <2> QED
      BY <2>1, <2>2, <2>3, <2>4, QuietStore DEF IInv
  <1>2. CASE Select(h)
    <2> USE <1>2 DEF Select
    <2>1. req[h] \in Submissions
      BY SubmitKind DEF IInv, TypeOK
    <2>2. TypeOK'
      BY DEF IInv, TypeOK, Labels, Existed
    <2>3. HolderInv' /\ CheckedInv' /\ SelectInv'
      BY <2>1 DEF IInv, TypeOK, HolderInv, CheckedInv, SelectInv
    <2>4. AckInv'
      BY DEF IInv, TypeOK, AckInv, NoAnswer
    <2> QED
      BY <2>2, <2>3, <2>4, QuietStore DEF IInv
  <1> QED
    BY <1>1, <1>2

\* A statement that fails, and the two requests that only read.
LEMMA ReadStep ==
    ASSUME IInv, NEW h \in Handlers,
           StoreFailure(h) \/ ListSuggestions(h) \/ ReportHealth(h)
    PROVE  IInv'
  <1> USE DEF GoTo, Return, Refused, ReleaseStore, limiterVars, history
  <1>1. /\ pc[h] \in {"locked", "upsert"} /\ pc' = [pc EXCEPT ![h] = "reply"]
        /\ \E a : /\ a.status # "accepted" /\ IsAnswer(a)
                  /\ answer' = [answer EXCEPT ![h] = a]
        /\ holder' = NoHandler
        /\ UNCHANGED <<req, existed, queue, globalTokens, keyTokens, ticks, db, crashes,
                       claims, acked, announced, written, commits>>
    <2>1. CASE StoreFailure(h)
      BY <2>1 DEF StoreFailure, IsAnswer
    <2>2. CASE ListSuggestions(h)
      BY <2>2 DEF ListSuggestions, IsAnswer
    <2>3. CASE ReportHealth(h)
      BY <2>3 DEF ReportHealth, IsAnswer
    <2> QED
      BY <2>1, <2>2, <2>3
  <1> HIDE DEF GoTo, Return, Refused, ReleaseStore, limiterVars, history
  <1>2. /\ pc' \in [Handlers -> Labels]
        /\ DOMAIN answer' = Handlers /\ \A g \in Handlers : IsAnswer(answer'[g])
        /\ AckInv'
    <2>1. "idle" \in Labels \ {"reply"}
      BY DEF Labels
    <2> QED
      BY <1>1, <2>1, AnswerStep DEF IInv
  <1>3. TypeOK'
    BY <1>1, <1>2 DEF IInv, TypeOK
  <1>4. HolderInv'
    BY <1>1 DEF IInv, TypeOK, HolderInv
  <1>5. CheckedInv' /\ SelectInv'
    BY <1>1 DEF IInv, TypeOK, CheckedInv, SelectInv
  <1> QED
    BY <1>1, <1>2, <1>3, <1>4, <1>5, QuietStore DEF IInv

\* Responses read or lost, and clients that hang up.
LEMMA EndStep ==
    ASSUME IInv, NEW h \in Handlers, Deliver(h) \/ LoseReply(h) \/ HangUp(h)
    PROVE  IInv'
  <1> USE DEF GoTo, Finish, mutexVars, limiterVars, history
  <1>1. /\ pc[h] \in {"reply", "waiting"} /\ Finish(h)
        /\ UNCHANGED <<holder, globalTokens, keyTokens, ticks, db, crashes, claims,
                       announced, written, commits>>
    BY DEF Deliver, LoseReply, HangUp
  <1>2. queue' \in Seq(Handlers)
    <2>1. CASE HangUp(h)
      <3>1. PICK i \in 1..Len(queue) : queue' = RemoveAt(queue, i)
        BY <2>1 DEF HangUp
      <3> QED
        BY <3>1 DEF IInv, TypeOK, RemoveAt
    <2>2. CASE ~HangUp(h)
      BY <2>2 DEF Deliver, LoseReply, IInv, TypeOK
    <2> QED
      BY <2>1, <2>2
  <1>3. acked' \subseteq claims
    <2>1. CASE Deliver(h)
      BY <2>1 DEF Deliver, IInv, AckInv
    <2>2. CASE ~Deliver(h)
      BY <2>2 DEF LoseReply, HangUp, IInv, AckInv
    <2> QED
      BY <2>1, <2>2
  <1>4. TypeOK'
    BY <1>1, <1>2, <1>3 DEF IInv, TypeOK, Labels, IsAnswer
  <1>5. HolderInv' /\ CheckedInv' /\ SelectInv'
    BY <1>1 DEF IInv, TypeOK, HolderInv, CheckedInv, SelectInv
  <1>6. AckInv'
    BY <1>1, <1>3 DEF IInv, TypeOK, AckInv, NoAnswer
  <1> QED
    BY <1>1, <1>4, <1>5, <1>6, QuietStore DEF IInv

\* Time and restarts.
LEMMA SystemStep ==
    ASSUME IInv, Tick \/ Restart
    PROVE  IInv'
  <1>1. CASE Tick
    <2> USE <1>1 DEF Tick, handlerVars, mutexVars, history
    <2>1. TypeOK'
      BY BoundsAssumption DEF IInv, TypeOK, Smaller
    <2>2. HolderInv' /\ CheckedInv' /\ SelectInv' /\ AckInv'
      BY DEF IInv, HolderInv, CheckedInv, SelectInv, AckInv
    <2> QED
      BY <2>1, <2>2, QuietStore DEF IInv
  <1>2. CASE Restart
    <2> USE <1>2 DEF Restart
    <2>1. queue' \in Seq(Handlers)
      OBVIOUS
    <2>2. TypeOK'
      BY <2>1, BoundsAssumption DEF IInv, TypeOK, Labels, IsAnswer
    <2>3. HolderInv' /\ CheckedInv' /\ SelectInv'
      BY DEF HolderInv, CheckedInv, SelectInv
    <2>4. AckInv'
      BY DEF IInv, AckInv, NoAnswer
    <2> QED
      BY <2>2, <2>3, <2>4, QuietStore DEF IInv
  <1> QED
    BY <1>1, <1>2

--------------------------------------------------------------------------------

\* The commit: the row, the claim, the announcement and the answer change
\* together, and no other handler is between its SELECT and its INSERT.
LEMMA CommitStep ==
    ASSUME IInv, NEW h \in Handlers, Commit(h)
    PROVE  IInv'
  <1> DEFINE env == req[h]
             row == RowOf(env.signed)
             claim == ClaimOf(env.signed)
             id == IdOf(row)
  <1>1. /\ env \in Submissions
        /\ VerifyPow(env) /\ Verify(env.signed)
        /\ existed[h] = Existed(db, row)
        /\ holder = h
    BY DEF Commit, IInv, CheckedInv, SelectInv, HolderInv
  <1>2. /\ db' = Upserted(db, row)
        /\ claims' = claims \cup {claim}
        /\ announced' = IF existed[h] THEN announced ELSE [announced EXCEPT ![id] = @ + 1]
        /\ written' = [written EXCEPT ![claim.key] = @ + 1]
        /\ commits' = commits + 1
        /\ pc' = [pc EXCEPT ![h] = "reply"]
        /\ answer' = [answer EXCEPT ![h] =
                        [status |-> "accepted", new_corroborator |-> ~existed[h]]]
        /\ holder' = NoHandler
        /\ UNCHANGED <<req, existed, queue, globalTokens, keyTokens, ticks, crashes, acked>>
    BY DEF Commit, GoTo, Return, ReleaseStore, limiterVars
  <1>3. row \in CorroborationRow /\ claim \in Claim
    BY <1>1, SubmissionTypes
  <1>4. id \in PrimaryKey /\ id = <<claim.pattern, claim.key>>
    <2>1. id = <<claim.pattern, claim.key>>
      BY DEF IdOf, RowOf, ClaimOf
    <2> QED
      BY <1>3, <2>1 DEF Claim, PrimaryKey
  <1>5. /\ db' \in Table
        /\ \A i \in PrimaryKey : i # id => db'[i] = db[i]
        /\ db'[id] # NoRow
        /\ db'[id].signature = row.signature
        /\ db'[id].rule_json = row.rule_json
        /\ db[id] = NoRow => db'[id].submitted_day = row.submitted_day
        /\ db[id] # NoRow => /\ db[id].submitted_day \in Days
                             /\ db'[id].submitted_day =
                                   EarlierDay(db[id].submitted_day, row.submitted_day)
    BY <1>2, <1>3, UpsertEffect DEF IInv, TypeOK
  <1>6. /\ row.submitted_day = claim.day /\ claim.day \in Days
    BY <1>3 DEF RowOf, ClaimOf, Claim
  <1> HIDE DEF env, row, claim, id
  <1>7. \A g \in Handlers :
           /\ pc'[g] = IF g = h THEN "reply" ELSE pc[g]
           /\ answer'[g] = IF g = h
                           THEN [status |-> "accepted", new_corroborator |-> ~existed[h]]
                           ELSE answer[g]
    BY <1>2 DEF IInv, TypeOK
  <1>8. TypeOK'
    <2>1. pc' \in [Handlers -> Labels]
      BY <1>2 DEF IInv, TypeOK, Labels
    <2>2. DOMAIN answer' = Handlers /\ \A g \in Handlers : IsAnswer(answer'[g])
      <3>1. existed[h] \in BOOLEAN
        BY DEF IInv, TypeOK
      <3>2. IsAnswer([status |-> "accepted", new_corroborator |-> ~existed[h]])
        BY <3>1 DEF IsAnswer
      <3> QED
        BY <1>2, <1>7, <3>2 DEF IInv, TypeOK
    <2>3. announced' \in [PrimaryKey -> Nat] /\ written' \in [Keys -> Nat] /\ commits' \in Nat
      BY <1>2, <1>3, <1>4 DEF IInv, TypeOK, Claim
    <2>4. claims' \in SUBSET Claim
      BY <1>2, <1>3 DEF IInv, TypeOK
    <2> QED
      BY <1>2, <1>5, <2>1, <2>2, <2>3, <2>4 DEF IInv, TypeOK
  <1>9. HolderInv'
    BY <1>1, <1>2, <1>7 DEF IInv, HolderInv
  <1>10. CheckedInv'
    BY <1>2, <1>7 DEF IInv, CheckedInv
  <1>11. SelectInv'
    BY <1>1, <1>7 DEF IInv, HolderInv, SelectInv
  <1>12. AckInv'
    <2>1. env = req[h] /\ claim = ClaimOf(req[h].signed)
      BY DEF env, claim
    <2> QED
      BY <1>1, <1>2, <1>7, <2>1 DEF IInv, AckInv
  <1>13. StoreMatchesClaims'
    <2> SUFFICES ASSUME NEW i \in PrimaryKey
                 PROVE  IF db'[i] = NoRow
                        THEN ClaimsOn(i)' = {}
                        ELSE /\ \E c \in ClaimsOn(i)' : db'[i].submitted_day = c.day
                             /\ \A c \in ClaimsOn(i)' : db'[i].submitted_day <= c.day
      BY DEF StoreMatchesClaims
    <2>1. CASE i # id
      <3>1. ClaimsOn(i)' = ClaimsOn(i)
        BY <1>2, <1>4, <2>1 DEF ClaimsOn
      <3> QED
        BY <1>5, <2>1, <3>1 DEF IInv, StoreMatchesClaims
    <2>2. CASE i = id
      <3>1. ClaimsOn(i)' = ClaimsOn(i) \cup {claim}
        BY <1>2, <1>4, <2>2 DEF ClaimsOn
      <3>2. \A c \in ClaimsOn(i) : c.day \in Int
        BY DayAssumption DEF IInv, TypeOK, ClaimsOn, Claim
      <3>3. claim.day \in Int
        BY <1>6, DayAssumption
      <3>4. CASE db[id] = NoRow
        <4>1. ClaimsOn(i)' = {claim}
          BY <2>2, <3>1, <3>4 DEF IInv, StoreMatchesClaims
        <4> QED
          BY <1>5, <1>6, <2>2, <3>3, <3>4, <4>1
      <3>5. CASE db[id] # NoRow
        <4>1. /\ \E c \in ClaimsOn(i) : db[id].submitted_day = c.day
              /\ \A c \in ClaimsOn(i) : db[id].submitted_day <= c.day
          BY <2>2, <3>5 DEF IInv, StoreMatchesClaims
        <4>2. db[id].submitted_day \in Int
          BY <1>5, <3>5, DayAssumption
        <4>3. db'[id].submitted_day = EarlierDay(db[id].submitted_day, claim.day)
          BY <1>5, <1>6, <3>5
        <4> QED
          BY <1>5, <2>2, <3>1, <3>2, <3>3, <4>1, <4>2, <4>3 DEF EarlierDay
      <3> QED
        BY <3>4, <3>5
    <2> QED
      BY <2>1, <2>2
  <1>14. AnnouncedOncePerRow'
    <2>1. existed[h] = (db[id] # NoRow)
      BY <1>1 DEF Existed, id
    <2>2. announced \in [PrimaryKey -> Nat]
      BY DEF IInv, TypeOK
    <2>3. \A i \in PrimaryKey : announced[i] = IF db[i] = NoRow THEN 0 ELSE 1
      BY DEF IInv, AnnouncedOncePerRow
    <2>4. announced'[id] = 1
      <3>1. CASE db[id] = NoRow
        <4>1. ~existed[h] /\ announced[id] = 0
          BY <1>4, <2>1, <2>3, <3>1
        <4>2. announced' = [announced EXCEPT ![id] = @ + 1]
          BY <1>2, <4>1
        <4> QED
          BY <1>4, <2>2, <4>1, <4>2
      <3>2. CASE db[id] # NoRow
        <4>1. existed[h] /\ announced[id] = 1
          BY <1>4, <2>1, <2>3, <3>2
        <4> QED
          BY <1>2, <4>1
      <3> QED
        BY <3>1, <3>2
    <2>5. \A i \in PrimaryKey : i # id => announced'[i] = announced[i]
      BY <1>2, <1>4, <2>2
    <2> QED
      BY <1>5, <2>3, <2>4, <2>5 DEF AnnouncedOncePerRow
  <1>15. RowsAreGenuine'
    <2> SUFFICES ASSUME NEW p \in Patterns, NEW k \in Keys, db'[<<p, k>>] # NoRow
                 PROVE  /\ Hash[db'[<<p, k>>].rule_json] = p
                        /\ k \in Points
                        /\ db'[<<p, k>>].signature.key = k
                        /\ db'[<<p, k>>].signature.body.pattern_hash = p
                        /\ db'[<<p, k>>].signature.body.rule = db'[<<p, k>>].rule_json
                        /\ db'[<<p, k>>].submitted_day
                              <= db'[<<p, k>>].signature.body.submitted_at_day
                        /\ \E n \in Nonces : PowBits[<<p, k, n>>] >= POW_DIFFICULTY_BITS
      BY DEF RowsAreGenuine
    <2>1. <<p, k>> \in PrimaryKey
      BY DEF PrimaryKey
    <2>2. CASE <<p, k>> # id
      BY <1>5, <2>1, <2>2 DEF IInv, RowsAreGenuine
    <2>3. CASE <<p, k>> = id
      <3>1. /\ env.signed.public_key = k
            /\ env.signed.suggestion.pattern_hash = p
            /\ row.signature = env.signed.signature
            /\ row.rule_json = env.signed.suggestion.rule
        BY <2>3 DEF id, IdOf, row, RowOf
      <3>2. /\ k \in Points
            /\ env.signed.signature.key = k
            /\ env.signed.signature.body = env.signed.suggestion
            /\ Hash[env.signed.suggestion.rule] = p
        BY <1>1, <3>1 DEF Verify
      <3>3. env.pow_nonce \in Nonces
        BY <1>1, SubmissionTypes DEF SubmitEnvelope
      <3>4. \E n \in Nonces : PowBits[<<p, k, n>>] >= POW_DIFFICULTY_BITS
        BY <1>1, <3>1, <3>3 DEF VerifyPow
      <3>5. row.signature.body.submitted_at_day = row.submitted_day
        BY <3>1, <3>2 DEF row, RowOf
      <3>6. db'[id].submitted_day <= row.submitted_day
        <4>1. row.submitted_day \in Int
          BY <1>6, DayAssumption
        <4>2. CASE db[id] = NoRow
          BY <1>5, <4>1, <4>2
        <4>3. CASE db[id] # NoRow
          <5>1. db[id].submitted_day \in Int
            BY <1>5, <4>3, DayAssumption
          <5> QED
            BY <1>5, <4>1, <4>3, <5>1 DEF EarlierDay
        <4> QED
          BY <4>2, <4>3
      <3> QED
        BY <1>5, <2>3, <3>1, <3>2, <3>4, <3>5, <3>6
    <2> QED
      BY <2>2, <2>3
  <1> QED
    BY <1>8, <1>9, <1>10, <1>11, <1>12, <1>13, <1>14, <1>15 DEF IInv

\* Every step of the service, or of nobody, keeps the invariant.
LEMMA NextIInv == IInv /\ [Next]_vars => IInv'
  <1> SUFFICES ASSUME IInv, [Next]_vars PROVE IInv'
    OBVIOUS
  <1>1. ASSUME NEW h \in Handlers, HandlerStep(h) PROVE IInv'
    BY <1>1, LimiterStep, VerifyStep, AcquireStep, CommitStep, ReadStep, EndStep
       DEF HandlerStep
  <1>2. ASSUME NEW h \in Handlers, ClientStep(h) PROVE IInv'
    BY <1>2, ReceiveStep, EndStep DEF ClientStep
  <1>3. CASE UNCHANGED vars
    <2> USE <1>3 DEF vars, handlerVars, mutexVars, limiterVars, history
    <2>1. TypeOK'
      BY DEF IInv, TypeOK
    <2>2. HolderInv' /\ CheckedInv' /\ SelectInv' /\ AckInv'
      BY DEF IInv, HolderInv, CheckedInv, SelectInv, AckInv
    <2> QED
      BY <2>1, <2>2, QuietStore DEF IInv
  <1> QED
    BY <1>1, <1>2, <1>3, SystemStep DEF Next

\* The ledger keeps IInv.
THEOREM LedgerInvariant == Spec => []IInv
  <1> QED
    BY InitIInv, NextIInv, PTL DEF Spec

\* Every variable stays well typed and every bucket in its range.
THEOREM LedgerTypeOK == Spec => []TypeOK
  <1>1. IInv => TypeOK
    BY DEF IInv
  <1> QED
    BY <1>1, LedgerInvariant, PTL

\* The table is exactly the submissions committed, each with its earliest day.
THEOREM TableIsClaims == Spec => []StoreMatchesClaims
  <1>1. IInv => StoreMatchesClaims
    BY DEF IInv
  <1> QED
    BY <1>1, LedgerInvariant, PTL

\* Of all the 202s about a (pattern, key), exactly the first says that the
\* corroborator is new.
THEOREM FirstAnnouncedOnce == Spec => []AnnouncedOncePerRow
  <1>1. IInv => AnnouncedOncePerRow
    BY DEF IInv
  <1> QED
    BY <1>1, LedgerInvariant, PTL

\* Every row passed the checks of handle_submit for its own key and pattern.
THEOREM LedgerRowsGenuine == Spec => []RowsAreGenuine
  <1>1. IInv => RowsAreGenuine
    BY DEF IInv
  <1> QED
    BY <1>1, LedgerInvariant, PTL

\* A submission a client was told of stays counted, through every restart.
THEOREM AcksAreDurable == Spec => []AckedIsDurable
  <1>1. IInv => AckedIsDurable
    <2> SUFFICES ASSUME IInv, NEW c \in acked
                 PROVE  /\ db[<<c.pattern, c.key>>] # NoRow
                        /\ db[<<c.pattern, c.key>>].submitted_day <= c.day
      BY DEF AckedIsDurable
    <2>1. c \in claims /\ c \in Claim
      BY DEF IInv, AckInv, TypeOK
    <2>2. c \in ClaimsOn(<<c.pattern, c.key>>) /\ <<c.pattern, c.key>> \in PrimaryKey
      BY <2>1 DEF ClaimsOn, Claim, PrimaryKey
    <2> QED
      BY <2>2 DEF IInv, StoreMatchesClaims
  <1> QED
    BY <1>1, LedgerInvariant, PTL

--------------------------------------------------------------------------------
(* The budgets.  A token taken is a request under way, or a commit, or it  *)
(* was wasted on a request that failed: none is counted twice.             *)

\* Submissions that took a token of the shared bucket and are not over.
Admitted ==
    {h \in Handlers :
        /\ req[h] \in Submissions
        /\ pc[h] \in {"per_key", "verify", "waiting", "locked", "upsert"}}

\* Those of them that took one of the bucket of k, too.
Charged(k) ==
    {h \in Handlers :
        /\ req[h] \in Submissions /\ req[h].signed.public_key = k
        /\ pc[h] \in {"verify", "waiting", "locked", "upsert"}}

BudgetInv ==
    /\ IsFiniteSet(Admitted)
    /\ commits + Cardinality(Admitted) + globalTokens <= GlobalBurst + ticks * GlobalRefill
    /\ \A k \in Keys :
          /\ IsFiniteSet(Charged(k))
          /\ written[k] + Cardinality(Charged(k)) + keyTokens[k] <= KeyBurst + ticks

\* A finite set that loses elements.
LEMMA Fewer ==
    ASSUME NEW S, IsFiniteSet(S), NEW T \in SUBSET S
    PROVE  /\ IsFiniteSet(T)
           /\ Cardinality(S) \in Nat /\ Cardinality(T) \in Nat
           /\ Cardinality(T) <= Cardinality(S)
  BY FS_Subset, FS_CardinalityType

\* A step that charges nothing and commits nothing.
LEMMA BudgetKept ==
    ASSUME IInv, BudgetInv,
           UNCHANGED <<globalTokens, keyTokens, ticks, commits, written>>,
           Admitted' \subseteq Admitted,
           \A k \in Keys : Charged(k)' \subseteq Charged(k)
    PROVE  BudgetInv'
  <1>1. commits \in Nat /\ globalTokens \in Nat /\ ticks \in Nat
    BY BoundsAssumption DEF IInv, TypeOK
  <1>2. /\ IsFiniteSet(Admitted')
        /\ commits' + Cardinality(Admitted') + globalTokens'
              <= GlobalBurst + ticks' * GlobalRefill
    <2>1. /\ IsFiniteSet(Admitted')
          /\ Cardinality(Admitted) \in Nat /\ Cardinality(Admitted') \in Nat
          /\ Cardinality(Admitted') <= Cardinality(Admitted)
      BY Fewer DEF BudgetInv
    <2>2. PICK sum : sum = GlobalBurst + ticks * GlobalRefill
      OBVIOUS
    <2>3. sum \in Nat
      BY <1>1, <2>2, BoundsAssumption
    <2>4. commits + Cardinality(Admitted) + globalTokens <= sum
      BY <2>2 DEF BudgetInv
    <2>5. commits + Cardinality(Admitted') + globalTokens <= sum
      BY <1>1, <2>1, <2>3, <2>4
    <2> QED
      BY <2>1, <2>2, <2>5
  <1>3. ASSUME NEW k \in Keys
        PROVE  /\ IsFiniteSet(Charged(k)')
               /\ written'[k] + Cardinality(Charged(k)') + keyTokens'[k] <= KeyBurst + ticks'
    <2>1. /\ IsFiniteSet(Charged(k)')
          /\ Cardinality(Charged(k)) \in Nat /\ Cardinality(Charged(k)') \in Nat
          /\ Cardinality(Charged(k)') <= Cardinality(Charged(k))
      BY Fewer DEF BudgetInv
    <2>2. written[k] \in Nat /\ keyTokens[k] \in Nat
      BY BoundsAssumption DEF IInv, TypeOK
    <2>3. written[k] + Cardinality(Charged(k)) + keyTokens[k] <= KeyBurst + ticks
      BY DEF BudgetInv
    <2> QED
      BY <1>1, <2>1, <2>2, <2>3, BoundsAssumption
  <1> QED
    BY <1>2, <1>3 DEF BudgetInv

\* Taking a token of the shared bucket makes a submission one of the admitted.
LEMMA GlobalBudget ==
    ASSUME IInv, BudgetInv, NEW h \in Handlers, CheckGlobal(h)
    PROVE  BudgetInv'
  <1> USE DEF GoTo, Return
  <1>1. /\ pc[h] = "global" /\ req' = req
        /\ UNCHANGED <<keyTokens, ticks, commits, written>>
    BY DEF CheckGlobal, history
  <1>2. \A k \in Keys : Charged(k)' = Charged(k)
    BY <1>1 DEF CheckGlobal, Charged, IInv, TypeOK
  <1>3. CASE globalTokens = 0
    <2>1. Admitted' = Admitted /\ globalTokens' = globalTokens
      BY <1>1, <1>3 DEF CheckGlobal, Admitted, IInv, TypeOK
    <2> QED
      BY <1>1, <1>2, <2>1, BudgetKept
  <1>4. CASE globalTokens # 0
    <2>1. globalTokens' = globalTokens - 1 /\ pc' = [pc EXCEPT ![h] = "per_key"]
      BY <1>4 DEF CheckGlobal
    <2>2. Admitted' \subseteq Admitted \cup {h} /\ h \notin Admitted
      BY <1>1, <2>1 DEF Admitted, IInv, TypeOK
    <2>3. /\ IsFiniteSet(Admitted \cup {h})
          /\ Cardinality(Admitted \cup {h}) = Cardinality(Admitted) + 1
          /\ Cardinality(Admitted) \in Nat
      BY <2>2, FS_AddElement, FS_CardinalityType DEF BudgetInv
    <2>4. /\ IsFiniteSet(Admitted')
          /\ Cardinality(Admitted') \in Nat
          /\ Cardinality(Admitted') <= Cardinality(Admitted) + 1
      BY <2>2, <2>3, Fewer
    <2>5. PICK sum : sum = GlobalBurst + ticks * GlobalRefill
      OBVIOUS
    <2>6. commits \in Nat /\ globalTokens \in Nat /\ sum \in Nat
      <3>1. commits \in Nat /\ globalTokens \in Nat /\ ticks \in Nat
        BY BoundsAssumption DEF IInv, TypeOK
      <3> QED
        BY <2>5, <3>1, BoundsAssumption
    <2>7. commits + Cardinality(Admitted) + globalTokens <= sum
      BY <2>5 DEF BudgetInv
    <2>8. commits + Cardinality(Admitted') + globalTokens' <= sum
      BY <2>1, <2>3, <2>4, <2>6, <2>7
    <2>9. commits' + Cardinality(Admitted') + globalTokens'
              <= GlobalBurst + ticks' * GlobalRefill
      BY <1>1, <2>5, <2>8
    <2> QED
      BY <1>1, <1>2, <2>4, <2>9 DEF BudgetInv
  <1> QED
    BY <1>3, <1>4

\* Taking a token of its key's bucket makes it one of those charged to the key.
LEMMA KeyBudget ==
    ASSUME IInv, BudgetInv, NEW h \in Handlers, CheckKey(h)
    PROVE  BudgetInv'
  <1> USE DEF GoTo, Return
  <1>1. /\ pc[h] = "per_key" /\ req' = req
        /\ UNCHANGED <<globalTokens, ticks, commits, written>>
    BY DEF CheckKey, history
  <1>2. PICK key : key = req[h].signed.public_key
    OBVIOUS
  <1>3. key \in Keys /\ req[h] \in Submissions
    BY <1>1, <1>2, SubmissionTypes DEF IInv, CheckedInv
  <1>4. CASE keyTokens[key] = 0
    <2>1. pc' = [pc EXCEPT ![h] = "reply"] /\ keyTokens' = keyTokens
      BY <1>2, <1>4 DEF CheckKey
    <2>2. Admitted' \subseteq Admitted /\ \A k \in Keys : Charged(k)' \subseteq Charged(k)
      BY <1>1, <2>1 DEF Admitted, Charged, IInv, TypeOK
    <2> QED
      BY <1>1, <2>1, <2>2, BudgetKept
  <1>5. CASE keyTokens[key] # 0
    <2>1. keyTokens' = [keyTokens EXCEPT ![key] = @ - 1] /\ pc' = [pc EXCEPT ![h] = "verify"]
      BY <1>2, <1>5 DEF CheckKey
    <2>2. Admitted' = Admitted
      BY <1>1, <2>1 DEF Admitted, IInv, TypeOK
    <2>3. ASSUME NEW k \in Keys
          PROVE  /\ IsFiniteSet(Charged(k)')
                 /\ written[k] + Cardinality(Charged(k)') + keyTokens'[k] <= KeyBurst + ticks
      <3>1. /\ IsFiniteSet(Charged(k))
            /\ written[k] + Cardinality(Charged(k)) + keyTokens[k] <= KeyBurst + ticks
        BY DEF BudgetInv
      <3>2. written[k] \in Nat /\ keyTokens[k] \in Nat /\ ticks \in Nat
        BY BoundsAssumption DEF IInv, TypeOK
      <3>3. CASE k # key
        <4>1. Charged(k)' = Charged(k)
          BY <1>1, <1>2, <2>1, <3>3 DEF Charged, IInv, TypeOK
        <4>2. keyTokens'[k] = keyTokens[k]
          BY <2>1, <3>3 DEF IInv, TypeOK
        <4> QED
          BY <3>1, <4>1, <4>2
      <3>4. CASE k = key
        <4>1. Charged(k)' \subseteq Charged(k) \cup {h} /\ h \notin Charged(k)
          BY <1>1, <2>1 DEF Charged, IInv, TypeOK
        <4>2. keyTokens'[k] = keyTokens[k] - 1
          BY <1>3, <2>1, <3>4 DEF IInv, TypeOK
        <4>3. /\ IsFiniteSet(Charged(k) \cup {h})
              /\ Cardinality(Charged(k) \cup {h}) = Cardinality(Charged(k)) + 1
              /\ Cardinality(Charged(k)) \in Nat
          BY <3>1, <4>1, FS_AddElement, FS_CardinalityType
        <4>4. /\ IsFiniteSet(Charged(k)')
              /\ Cardinality(Charged(k)') \in Nat
              /\ Cardinality(Charged(k)') <= Cardinality(Charged(k)) + 1
          BY <4>1, <4>3, Fewer
        <4> QED
          BY <3>1, <3>2, <4>2, <4>3, <4>4, BoundsAssumption
      <3> QED
        BY <3>3, <3>4
    <2> QED
      BY <1>1, <2>2, <2>3 DEF BudgetInv
  <1> QED
    BY <1>4, <1>5

\* A commit turns a request under way into a commit.
LEMMA CommitBudget ==
    ASSUME IInv, BudgetInv, NEW h \in Handlers, Commit(h)
    PROVE  BudgetInv'
  <1>1. PICK key : key = req[h].signed.public_key
    OBVIOUS
  <1>2. /\ pc[h] = "upsert" /\ pc' = [pc EXCEPT ![h] = "reply"] /\ req' = req
        /\ written' = [written EXCEPT ![key] = @ + 1]
        /\ commits' = commits + 1
        /\ UNCHANGED <<globalTokens, keyTokens, ticks>>
    BY <1>1 DEF Commit, GoTo, Return, ClaimOf, limiterVars
  <1>3. key \in Keys /\ req[h] \in Submissions
    BY <1>1, <1>2, SubmissionTypes DEF IInv, CheckedInv
  <1>4. ticks \in Nat /\ commits \in Nat /\ globalTokens \in Nat
    BY BoundsAssumption DEF IInv, TypeOK
  <1>5. /\ IsFiniteSet(Admitted')
        /\ commits' + Cardinality(Admitted') + globalTokens'
              <= GlobalBurst + ticks' * GlobalRefill
    <2>1. Admitted' \subseteq Admitted \ {h} /\ h \in Admitted
      BY <1>2, <1>3 DEF Admitted, IInv, TypeOK
    <2>2. /\ IsFiniteSet(Admitted \ {h})
          /\ Cardinality(Admitted \ {h}) = Cardinality(Admitted) - 1
          /\ Cardinality(Admitted) \in Nat
      BY <2>1, FS_RemoveElement, FS_CardinalityType DEF BudgetInv
    <2>3. /\ IsFiniteSet(Admitted')
          /\ Cardinality(Admitted') \in Nat
          /\ Cardinality(Admitted') <= Cardinality(Admitted) - 1
      BY <2>1, <2>2, Fewer
    <2>4. PICK sum : sum = GlobalBurst + ticks * GlobalRefill
      OBVIOUS
    <2>5. sum \in Nat
      BY <1>4, <2>4, BoundsAssumption
    <2>6. commits + Cardinality(Admitted) + globalTokens <= sum
      BY <2>4 DEF BudgetInv
    <2>7. commits' + Cardinality(Admitted') + globalTokens <= sum
      BY <1>2, <1>4, <2>2, <2>3, <2>5, <2>6
    <2> QED
      BY <1>2, <2>3, <2>4, <2>7
  <1>6. ASSUME NEW k \in Keys
        PROVE  /\ IsFiniteSet(Charged(k)')
               /\ written'[k] + Cardinality(Charged(k)') + keyTokens'[k] <= KeyBurst + ticks'
    <2>1. /\ IsFiniteSet(Charged(k))
          /\ written[k] + Cardinality(Charged(k)) + keyTokens[k] <= KeyBurst + ticks
      BY DEF BudgetInv
    <2>2. written[k] \in Nat /\ keyTokens[k] \in Nat
      BY BoundsAssumption DEF IInv, TypeOK
    <2>3. CASE k # key
      <3>1. Charged(k)' = Charged(k)
        BY <1>1, <1>2, <2>3 DEF Charged, IInv, TypeOK
      <3>2. written'[k] = written[k]
        BY <1>2, <2>3 DEF IInv, TypeOK
      <3> QED
        BY <1>2, <2>1, <3>1, <3>2
    <2>4. CASE k = key
      <3>1. Charged(k)' \subseteq Charged(k) \ {h} /\ h \in Charged(k)
        BY <1>1, <1>2, <1>3, <2>4 DEF Charged, IInv, TypeOK
      <3>2. written'[k] = written[k] + 1
        BY <1>2, <1>3, <2>4 DEF IInv, TypeOK
      <3>3. /\ IsFiniteSet(Charged(k) \ {h})
            /\ Cardinality(Charged(k) \ {h}) = Cardinality(Charged(k)) - 1
            /\ Cardinality(Charged(k)) \in Nat
        BY <2>1, <3>1, FS_RemoveElement, FS_CardinalityType
      <3>4. /\ IsFiniteSet(Charged(k)')
            /\ Cardinality(Charged(k)') \in Nat
            /\ Cardinality(Charged(k)') <= Cardinality(Charged(k)) - 1
        BY <3>1, <3>3, Fewer
      <3> QED
        BY <1>2, <1>4, <2>1, <2>2, <3>2, <3>3, <3>4, BoundsAssumption
    <2> QED
      BY <2>3, <2>4
  <1> QED
    BY <1>5, <1>6 DEF BudgetInv

\* The other steps of a handler, and those of its client, charge nothing.
LEMMA QuietBudget ==
    ASSUME IInv, BudgetInv, NEW h \in Handlers,
           \/ VerifySubmission(h) \/ AcquireStore(h) \/ Select(h)
           \/ StoreFailure(h) \/ ListSuggestions(h) \/ ReportHealth(h)
           \/ Deliver(h) \/ LoseReply(h) \/ ClientStep(h)
    PROVE  BudgetInv'
  <1> USE DEF GoTo, Return, history, limiterVars
  <1>1. UNCHANGED <<globalTokens, keyTokens, ticks, commits, written>>
    BY DEF VerifySubmission, AcquireStore, Select, StoreFailure, ListSuggestions, ReportHealth,
           Deliver, LoseReply, ClientStep, ReceiveSubmission, ReceiveQuery, HangUp
  <1>2. /\ \A g \in Handlers : g # h => pc'[g] = pc[g] /\ req'[g] = req[g]
        /\ \/ pc'[h] \in {"idle", "global", "reply"}
           \/ req'[h] \notin Submissions
           \/ /\ req'[h] = req[h] /\ pc[h] \in {"verify", "waiting", "locked"}
    <2> USE DEF IInv, TypeOK, WaitForStore, Finish
    <2>1. CASE VerifySubmission(h)
      BY <2>1 DEF VerifySubmission
    <2>2. CASE AcquireStore(h) \/ Select(h)
      BY <2>2 DEF AcquireStore, Select
    <2>3. CASE StoreFailure(h) \/ ListSuggestions(h) \/ ReportHealth(h)
      BY <2>3 DEF StoreFailure, ListSuggestions, ReportHealth
    <2>4. CASE Deliver(h) \/ LoseReply(h) \/ HangUp(h)
      BY <2>4 DEF Deliver, LoseReply, HangUp
    <2>5. CASE ReceiveSubmission(h)
      BY <2>5 DEF ReceiveSubmission
    <2>6. CASE ReceiveQuery(h)
      <3>1. PICK q \in Queries \cup {Health} : req' = [req EXCEPT ![h] = q]
        BY <2>6 DEF ReceiveQuery
      <3>2. q \notin Submissions
        BY RequestsAssumption DEF SuggestionsQuery, SubmitEnvelope, Health
      <3> QED
        BY <2>6, <3>1, <3>2 DEF ReceiveQuery
    <2> QED
      BY <2>1, <2>2, <2>3, <2>4, <2>5, <2>6 DEF ClientStep
  <1>3. Admitted' \subseteq Admitted
    BY <1>2 DEF Admitted
  <1>4. \A k \in Keys : Charged(k)' \subseteq Charged(k)
    BY <1>2 DEF Charged
  <1> QED
    BY <1>1, <1>3, <1>4, BudgetKept

\* A refill adds no more than its tokens to what may be spent.
LEMMA TickBudget ==
    ASSUME IInv, BudgetInv, Tick
    PROVE  BudgetInv'
  <1> USE DEF Tick, handlerVars, history
  <1>1. Admitted' = Admitted /\ \A k \in Keys : Charged(k)' = Charged(k)
    BY DEF Admitted, Charged
  <1>2. /\ commits' = commits /\ written' = written /\ ticks' = ticks + 1
        /\ globalTokens' <= globalTokens + GlobalRefill
        /\ \A k \in Keys : keyTokens'[k] <= keyTokens[k] + 1
        /\ globalTokens' \in Nat /\ globalTokens \in Nat
        /\ \A k \in Keys : keyTokens[k] \in Nat /\ keyTokens'[k] \in Nat
        /\ commits \in Nat /\ ticks \in Nat /\ \A k \in Keys : written[k] \in Nat
    BY BoundsAssumption DEF IInv, TypeOK, Smaller
  <1>3. commits' + Cardinality(Admitted') + globalTokens' <= GlobalBurst + ticks' * GlobalRefill
    <2>1. PICK regained : regained = ticks * GlobalRefill
      OBVIOUS
    <2>2. regained \in Nat /\ ticks' * GlobalRefill = regained + GlobalRefill
      BY <1>2, <2>1, BoundsAssumption
    <2>3. commits + Cardinality(Admitted) + globalTokens <= GlobalBurst + regained
      BY <2>1 DEF BudgetInv
    <2>4. Cardinality(Admitted) \in Nat
      BY FS_CardinalityType DEF BudgetInv
    <2> HIDE DEF Tick
    <2>5. commits + Cardinality(Admitted) + globalTokens'
              <= GlobalBurst + regained + GlobalRefill
      BY <1>2, <2>2, <2>3, <2>4, BoundsAssumption
    <2> QED
      BY <1>1, <1>2, <2>2, <2>5, BoundsAssumption
  <1>4. ASSUME NEW k \in Keys
        PROVE  written'[k] + Cardinality(Charged(k)') + keyTokens'[k] <= KeyBurst + ticks'
    <2>1. written[k] + Cardinality(Charged(k)) + keyTokens[k] <= KeyBurst + ticks
      BY DEF BudgetInv
    <2>2. Cardinality(Charged(k)) \in Nat
      BY FS_CardinalityType DEF BudgetInv
    <2> HIDE DEF Tick
    <2> QED
      BY <1>1, <1>2, <2>1, <2>2, BoundsAssumption
  <1> QED
    BY <1>1, <1>3, <1>4 DEF BudgetInv

\* The process starts with full buckets, no request under way and no commit.
LEMMA InitBudget == Init => BudgetInv
  <1> SUFFICES ASSUME Init PROVE BudgetInv
    OBVIOUS
  <1>1. Admitted = {} /\ \A k \in Keys : Charged(k) = {}
    BY DEF Init, Admitted, Charged
  <1>2. IsFiniteSet({}) /\ Cardinality({}) = 0
    BY FS_EmptySet
  <1>3. 0 * GlobalRefill = 0
    BY BoundsAssumption
  <1>4. /\ commits = 0 /\ globalTokens = GlobalBurst /\ ticks = 0
        /\ \A k \in Keys : written[k] = 0 /\ keyTokens[k] = KeyBurst
    BY DEF Init
  <1>5. commits + Cardinality(Admitted) + globalTokens <= GlobalBurst + ticks * GlobalRefill
    BY <1>1, <1>2, <1>3, <1>4, BoundsAssumption
  <1>6. \A k \in Keys : written[k] + Cardinality(Charged(k)) + keyTokens[k] <= KeyBurst + ticks
    BY <1>1, <1>2, <1>4, BoundsAssumption
  <1> QED
    BY <1>1, <1>2, <1>5, <1>6 DEF BudgetInv

\* Every step keeps within the budgets; a restart begins them anew.
LEMMA NextBudget == IInv /\ BudgetInv /\ [Next]_vars => BudgetInv'
  <1> SUFFICES ASSUME IInv, BudgetInv, [Next]_vars PROVE BudgetInv'
    OBVIOUS
  <1>1. ASSUME NEW h \in Handlers, HandlerStep(h) \/ ClientStep(h) PROVE BudgetInv'
    BY <1>1, GlobalBudget, KeyBudget, CommitBudget, QuietBudget DEF HandlerStep
  <1>2. CASE Tick
    BY <1>2, TickBudget
  <1>3. CASE Restart
    <2>1. /\ pc' = [h \in Handlers |-> "idle"] /\ globalTokens' = GlobalBurst /\ ticks' = 0
          /\ keyTokens' = [k \in Keys |-> KeyBurst]
          /\ commits' = 0 /\ written' = [k \in Keys |-> 0]
      BY <1>3 DEF Restart
    <2>2. Admitted' = {} /\ \A k \in Keys : Charged(k)' = {}
      BY <2>1 DEF Admitted, Charged
    <2>3. IsFiniteSet({}) /\ Cardinality({}) = 0
      BY FS_EmptySet
    <2>4. 0 * GlobalRefill = 0
      BY BoundsAssumption
    <2> QED
      BY <2>1, <2>2, <2>3, <2>4, BoundsAssumption DEF BudgetInv
  <1>4. CASE UNCHANGED vars
    BY <1>4 DEF BudgetInv, Admitted, Charged, vars, handlerVars, limiterVars, history
  <1> QED
    BY <1>1, <1>2, <1>3, <1>4 DEF Next

\* No key commits more often than its bucket allows, and all keys together
\* no more often than the shared one, between any two restarts.
THEOREM BudgetsHold == Spec => []WritesWithinBudget
  <1>1. IInv /\ BudgetInv => WritesWithinBudget
    <2> SUFFICES ASSUME IInv, BudgetInv PROVE WritesWithinBudget
      OBVIOUS
    <2>1. /\ globalTokens \in Nat /\ commits \in Nat /\ ticks \in Nat
          /\ \A k \in Keys : written[k] \in Nat /\ keyTokens[k] \in Nat
      BY BoundsAssumption DEF IInv, TypeOK
    <2>2. Cardinality(Admitted) \in Nat /\ \A k \in Keys : Cardinality(Charged(k)) \in Nat
      BY FS_CardinalityType DEF BudgetInv
    <2>3. \A k \in Keys : written[k] <= KeyBurst + ticks
      BY <2>1, <2>2, BoundsAssumption DEF BudgetInv
    <2>4. PICK sum : sum = GlobalBurst + ticks * GlobalRefill
      OBVIOUS
    <2>5. sum \in Nat
      BY <2>1, <2>4, BoundsAssumption
    <2>6. commits + Cardinality(Admitted) + globalTokens <= sum
      BY <2>4 DEF BudgetInv
    <2>7. commits <= sum
      BY <2>1, <2>2, <2>5, <2>6
    <2> QED
      BY <2>3, <2>4, <2>7 DEF WritesWithinBudget
  <1> QED
    BY <1>1, InitBudget, NextBudget, LedgerInvariant, PTL DEF Spec

================================================================================
