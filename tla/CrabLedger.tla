------------------------------- MODULE CrabLedger -------------------------------
(***************************************************************************)
(* The ledger service (crab-ledger/src/api.rs and main.rs).                *)
(*                                                                         *)
(* Axum runs one handler per request on a multi-threaded runtime: handlers *)
(* interleave at every shared access.  What they share is the two token    *)
(* buckets, which governor updates atomically, and the store, behind a     *)
(* tokio Mutex that serves its waiters in FIFO order.  Waiting for the     *)
(* mutex is a handler's only await: only there can a client that hangs up  *)
(* cancel it.  The table is on disk; everything else dies with the process.*)
(***************************************************************************)
EXTENDS CorroborationStore

CONSTANTS
    Handlers,       \* requests the service works on at a time
    NoHandler,      \* the mutex is free
    Nonces,         \* proof-of-work nonces
    PowBits,        \* leading zero bits of blake3(pattern_hash || key || nonce)
    POW_DIFFICULTY_BITS,
    Submissions,    \* the bodies clients POST to /v1/submit
    Queries,        \* the queries clients GET /v1/suggestions with
    DefaultLimit,   \* the most entries a listing has (1000 in the code)
    GlobalBurst,    \* GLOBAL_PER_HOUR: capacity of the shared bucket
    KeyBurst,       \* PER_PUBKEY_PER_HOUR: capacity of each key's bucket
    GlobalRefill,   \* shared tokens regained while a key regains one
    MaxTicks,       \* bound: refills between two restarts
    MaxCrashes      \* bound: restarts

SubmitEnvelope ==
    [kind : {"submit"}, signed : SignedSuggestion, pow_nonce : Nonces]

SuggestionsQuery ==
    [kind : {"suggestions"}, min_corroborators : Int,
     since_day : Days \cup {I64Min}, limit : Nat]

Health == [kind |-> "health"]

ASSUME HandlersAssumption == NoHandler \notin Handlers

ASSUME PowAssumption ==
    /\ PowBits \in [Patterns \X Keys \X Nonces -> Nat]
    /\ POW_DIFFICULTY_BITS \in Nat

ASSUME RequestsAssumption ==
    Submissions \subseteq SubmitEnvelope /\ Queries \subseteq SuggestionsQuery

ASSUME BoundsAssumption ==
    /\ DefaultLimit \in Nat
    /\ GlobalBurst \in Nat \ {0} /\ KeyBurst \in Nat \ {0} /\ GlobalRefill \in Nat
    /\ MaxTicks \in Nat /\ MaxCrashes \in Nat

Requests == Submissions \cup Queries \cup {Health}

NoRequest == [kind |-> "none"]

NoAnswer == [status |-> "none"]

Claim == [pattern : Patterns, key : Keys, day : Days]

ClaimOf(signed) ==
    [pattern |-> signed.suggestion.pattern_hash,
     key     |-> signed.public_key,
     day     |-> signed.suggestion.submitted_at_day]

--------------------------------------------------------------------------------

VARIABLES
    pc,             \* where each handler is
    req,            \* the request it serves
    existed,        \* upsert's local: the row was there
    answer,         \* the response it has produced
    holder,         \* the handler that has the store mutex, or NoHandler
    queue,          \* the handlers that wait for it, first to last
    globalTokens,   \* the shared bucket
    keyTokens,      \* the bucket of each key
    db,             \* the corroborations table
    ticks,          \* refills since the process started
    crashes,        \* restarts
    claims,         \* history: the submissions committed, ever
    acked,          \* history: the submissions whose client read a 202
    announced,      \* history: how many 202s said new_corroborator, per row
    written,        \* history: commits of each key since the process started
    commits         \* history: all commits since then

handlerVars == <<pc, req, existed, answer>>
mutexVars   == <<holder, queue>>
limiterVars == <<globalTokens, keyTokens, ticks>>
history     == <<claims, acked, announced, written, commits>>
vars == <<handlerVars, mutexVars, limiterVars, db, crashes, history>>

Init ==
    /\ pc = [h \in Handlers |-> "idle"]
    /\ req = [h \in Handlers |-> NoRequest]
    /\ existed = [h \in Handlers |-> FALSE]
    /\ answer = [h \in Handlers |-> NoAnswer]
    /\ holder = NoHandler
    /\ queue = <<>>
    /\ globalTokens = GlobalBurst
    /\ keyTokens = [k \in Keys |-> KeyBurst]
    /\ db = EmptyTable
    /\ ticks = 0
    /\ crashes = 0
    /\ claims = {}
    /\ acked = {}
    /\ announced = [id \in PrimaryKey |-> 0]
    /\ written = [k \in Keys |-> 0]
    /\ commits = 0

--------------------------------------------------------------------------------
(* Parts of handlers. *)

GoTo(h, label) == pc' = [pc EXCEPT ![h] = label]

\* The handler returns a response; the connection has yet to deliver it.
Return(h, response) ==
    /\ GoTo(h, "reply")
    /\ answer' = [answer EXCEPT ![h] = response]

Refused(error) == [status |-> "refused", error |-> error]

\* The handler's future is gone, and with it what it knew.
Finish(h) ==
    /\ GoTo(h, "idle")
    /\ req' = [req EXCEPT ![h] = NoRequest]
    /\ existed' = [existed EXCEPT ![h] = FALSE]
    /\ answer' = [answer EXCEPT ![h] = NoAnswer]

VerifyPow(env) ==
    PowBits[<<env.signed.suggestion.pattern_hash, env.signed.public_key, env.pow_nonce>>]
        >= POW_DIFFICULTY_BITS

\* The row handle_submit builds from a verified submission.
RowOf(signed) ==
    [pattern_hash  |-> signed.suggestion.pattern_hash,
     public_key    |-> signed.public_key,
     signature     |-> signed.signature,
     rule_json     |-> signed.suggestion.rule,
     submitted_day |-> signed.suggestion.submitted_at_day]

Smaller(m, n) == IF m <= n THEN m ELSE n

\* list_aggregated(..).into_iter().take(limit)
Served(table, q) ==
    LET aggregated == ListAggregated(table, q.min_corroborators, q.since_day)
        limit == Smaller(q.limit, DefaultLimit)
    IN  SubSeq(aggregated, 1, Smaller(limit, Len(aggregated)))

--------------------------------------------------------------------------------
(* The store mutex. *)

WaitForStore(h) ==
    /\ GoTo(h, "waiting")
    /\ queue' = Append(queue, h)

\* The guard drops when the handler returns.
ReleaseStore == holder' = NoHandler

\* Wrong variant (mutation runs): no mutex around the store.
AcquireStoreShared(h) ==
    /\ pc[h] = "waiting"
    /\ queue # <<>> /\ Head(queue) = h
    /\ GoTo(h, "locked")
    /\ holder' = h
    /\ queue' = Tail(queue)
    /\ UNCHANGED <<req, existed, answer, limiterVars, db, crashes, history>>

\* Wrong variant (mutation runs): a mutex that wakes any of its waiters.
AcquireStoreUnfair(h) ==
    /\ pc[h] = "waiting"
    /\ holder = NoHandler
    /\ GoTo(h, "locked")
    /\ holder' = h
    /\ \E i \in 1..Len(queue) : queue[i] = h /\ queue' = RemoveAt(queue, i)
    /\ UNCHANGED <<req, existed, answer, limiterVars, db, crashes, history>>

AcquireStore(h) ==
    /\ pc[h] = "waiting"
    /\ holder = NoHandler
    /\ queue # <<>> /\ Head(queue) = h
    /\ GoTo(h, "locked")
    /\ holder' = h
    /\ queue' = Tail(queue)
    /\ UNCHANGED <<req, existed, answer, limiterVars, db, crashes, history>>

--------------------------------------------------------------------------------
(* POST /v1/submit *)

ReceiveSubmission(h) ==
    /\ pc[h] = "idle"
    /\ \E env \in Submissions : req' = [req EXCEPT ![h] = env]
    /\ GoTo(h, "global")
    /\ UNCHANGED <<existed, answer, mutexVars, limiterVars, db, crashes, history>>

\* Wrong variant (mutation runs): the shared bucket is charged unchecked.
CheckGlobalUnchecked(h) ==
    /\ pc[h] = "global"
    /\ globalTokens' = globalTokens - 1
    /\ GoTo(h, "per_key")
    /\ UNCHANGED <<req, existed, answer, mutexVars, keyTokens, ticks, db, crashes, history>>

CheckGlobal(h) ==
    /\ pc[h] = "global"
    /\ \/ /\ globalTokens > 0
          /\ globalTokens' = globalTokens - 1
          /\ GoTo(h, "per_key")
          /\ UNCHANGED answer
       \/ /\ globalTokens = 0
          /\ Return(h, Refused("global_rate_limit"))
          /\ UNCHANGED globalTokens
    /\ UNCHANGED <<req, existed, mutexVars, keyTokens, ticks, db, crashes, history>>

\* Wrong variant (mutation runs): the key's bucket is looked at, not charged.
CheckKeyUncharged(h) ==
    /\ pc[h] = "per_key"
    /\ keyTokens[req[h].signed.public_key] > 0
    /\ GoTo(h, "verify")
    /\ UNCHANGED <<req, existed, answer, mutexVars, limiterVars, db, crashes, history>>

\* The bucket charged is that of the key the body names; whether the key
\* signed the body is looked at later.
CheckKey(h) ==
    /\ pc[h] = "per_key"
    /\ LET k == req[h].signed.public_key
       IN  \/ /\ keyTokens[k] > 0
              /\ keyTokens' = [keyTokens EXCEPT ![k] = @ - 1]
              /\ GoTo(h, "verify")
              /\ UNCHANGED answer
           \/ /\ keyTokens[k] = 0
              /\ Return(h, Refused("per_pubkey_rate_limit"))
              /\ UNCHANGED keyTokens
    /\ UNCHANGED <<req, existed, mutexVars, globalTokens, ticks, db, crashes, history>>

VerifySubmission(h) ==
    /\ pc[h] = "verify"
    /\ \/ /\ ~VerifyPow(req[h])
          /\ Return(h, Refused("pow_insufficient"))
          /\ UNCHANGED queue
       \/ /\ VerifyPow(req[h])
          /\ ~Verify(req[h].signed)
          /\ Return(h, Refused("verification_failed"))
          /\ UNCHANGED queue
       \/ /\ VerifyPow(req[h])
          /\ Verify(req[h].signed)
          /\ WaitForStore(h)
          /\ UNCHANGED answer
    /\ UNCHANGED <<req, existed, holder, limiterVars, db, crashes, history>>

\* upsert's first statement.
Select(h) ==
    /\ pc[h] = "locked"
    /\ req[h].kind = "submit"
    /\ existed' = [existed EXCEPT ![h] = Existed(db, RowOf(req[h].signed))]
    /\ GoTo(h, "upsert")
    /\ UNCHANGED <<req, answer, mutexVars, limiterVars, db, crashes, history>>

\* upsert's second statement, its own transaction, and the return.
Commit(h) ==
    /\ pc[h] = "upsert"
    /\ LET row == RowOf(req[h].signed)
           claim == ClaimOf(req[h].signed)
       IN  /\ db' = Upserted(db, row)
           /\ Return(h, [status |-> "accepted", new_corroborator |-> ~existed[h]])
           /\ claims' = claims \cup {claim}
           /\ announced' = IF existed[h] THEN announced
                           ELSE [announced EXCEPT ![IdOf(row)] = @ + 1]
           /\ written' = [written EXCEPT ![claim.key] = @ + 1]
           /\ commits' = commits + 1
    /\ ReleaseStore
    /\ UNCHANGED <<req, existed, queue, limiterVars, crashes, acked>>

\* Either statement, or the one of a listing, fails and changes nothing.
StoreFailure(h) ==
    /\ \/ pc[h] = "upsert"
       \/ pc[h] = "locked" /\ req[h].kind \in {"submit", "suggestions"}
    /\ Return(h, Refused("store_failure"))
    /\ ReleaseStore
    /\ UNCHANGED <<req, existed, queue, limiterVars, db, crashes, history>>

--------------------------------------------------------------------------------
(* GET /v1/suggestions and GET /v1/health *)

ReceiveQuery(h) ==
    /\ pc[h] = "idle"
    /\ \E q \in Queries \cup {Health} : req' = [req EXCEPT ![h] = q]
    /\ WaitForStore(h)
    /\ UNCHANGED <<existed, answer, holder, limiterVars, db, crashes, history>>

ListSuggestions(h) ==
    /\ pc[h] = "locked"
    /\ req[h].kind = "suggestions"
    /\ Return(h, [status |-> "listing", suggestions |-> Served(db, req[h])])
    /\ ReleaseStore
    /\ UNCHANGED <<req, existed, queue, limiterVars, db, crashes, history>>

\* A failing count is reported as 0, with ok: true.
ReportHealth(h) ==
    /\ pc[h] = "locked"
    /\ req[h].kind = "health"
    /\ \E total \in {TotalUniquePatterns(db), 0} :
          Return(h, [status |-> "health", total_unique_patterns |-> total])
    /\ ReleaseStore
    /\ UNCHANGED <<req, existed, queue, limiterVars, db, crashes, history>>

--------------------------------------------------------------------------------
(* Responses, clients that hang up, time and restarts. *)

Deliver(h) ==
    /\ pc[h] = "reply"
    /\ acked' = IF answer[h].status = "accepted"
                THEN acked \cup {ClaimOf(req[h].signed)}
                ELSE acked
    /\ Finish(h)
    /\ UNCHANGED <<mutexVars, limiterVars, db, crashes, claims, announced, written, commits>>

LoseReply(h) ==
    /\ pc[h] = "reply"
    /\ Finish(h)
    /\ UNCHANGED <<mutexVars, limiterVars, db, crashes, history>>

\* Dropping the future takes it out of the mutex's queue.
HangUp(h) ==
    /\ pc[h] = "waiting"
    /\ \E i \in 1..Len(queue) : queue[i] = h /\ queue' = RemoveAt(queue, i)
    /\ Finish(h)
    /\ UNCHANGED <<holder, limiterVars, db, crashes, history>>

\* The time in which a key's bucket regains a token.
Tick ==
    /\ ticks < MaxTicks
    /\ ticks' = ticks + 1
    /\ globalTokens' = Smaller(GlobalBurst, globalTokens + GlobalRefill)
    /\ keyTokens' = [k \in Keys |-> Smaller(KeyBurst, keyTokens[k] + 1)]
    /\ UNCHANGED <<handlerVars, mutexVars, db, crashes, history>>

\* Wrong variant (mutation runs): the store is opened in memory.
RestartInMemory ==
    /\ crashes < MaxCrashes
    /\ crashes' = crashes + 1
    /\ pc' = [h \in Handlers |-> "idle"]
    /\ req' = [h \in Handlers |-> NoRequest]
    /\ existed' = [h \in Handlers |-> FALSE]
    /\ answer' = [h \in Handlers |-> NoAnswer]
    /\ holder' = NoHandler
    /\ queue' = <<>>
    /\ globalTokens' = GlobalBurst
    /\ keyTokens' = [k \in Keys |-> KeyBurst]
    /\ ticks' = 0
    /\ written' = [k \in Keys |-> 0]
    /\ commits' = 0
    /\ db' = EmptyTable
    /\ UNCHANGED <<claims, acked, announced>>

\* The process dies and main runs again: Store::open finds the table, the
\* limiters start full.
Restart ==
    /\ crashes < MaxCrashes
    /\ crashes' = crashes + 1
    /\ pc' = [h \in Handlers |-> "idle"]
    /\ req' = [h \in Handlers |-> NoRequest]
    /\ existed' = [h \in Handlers |-> FALSE]
    /\ answer' = [h \in Handlers |-> NoAnswer]
    /\ holder' = NoHandler
    /\ queue' = <<>>
    /\ globalTokens' = GlobalBurst
    /\ keyTokens' = [k \in Keys |-> KeyBurst]
    /\ ticks' = 0
    /\ written' = [k \in Keys |-> 0]
    /\ commits' = 0
    /\ UNCHANGED <<db, claims, acked, announced>>

\* The steps the runtime takes for a handler that is ready to run.
HandlerStep(h) ==
    \/ CheckGlobal(h) \/ CheckKey(h) \/ VerifySubmission(h)
    \/ AcquireStore(h) \/ Select(h) \/ Commit(h) \/ StoreFailure(h)
    \/ ListSuggestions(h) \/ ReportHealth(h)
    \/ Deliver(h) \/ LoseReply(h)

ClientStep(h) == ReceiveSubmission(h) \/ ReceiveQuery(h) \/ HangUp(h)

Next == (\E h \in Handlers : HandlerStep(h) \/ ClientStep(h)) \/ Tick \/ Restart

Spec == Init /\ [][Next]_vars

\* Tokio polls every ready task; nothing obliges a client to ask or hang
\* up, a token to be waited for, or the process to die.
FairSpec == Spec /\ \A h \in Handlers : WF_vars(HandlerStep(h))

--------------------------------------------------------------------------------
(* Properties. *)

Labels == {"idle", "global", "per_key", "verify", "waiting", "locked", "upsert", "reply"}

\* The answers handle_submit and handle_health can give, and the shape of
\* handle_suggestions' answer.
IsAnswer(a) ==
    \/ a = NoAnswer
    \/ a.status = "accepted" /\ a.new_corroborator \in BOOLEAN
    \/ a.status = "refused"
    \/ a.status = "listing"
    \/ a.status = "health"

\* Every variable has the type its Rust or SQL counterpart has, and no token
\* bucket leaves its range.
TypeOK ==
    /\ pc \in [Handlers -> Labels]
    /\ req \in [Handlers -> Requests \cup {NoRequest}]
    /\ existed \in [Handlers -> BOOLEAN]
    /\ DOMAIN answer = Handlers /\ \A h \in Handlers : IsAnswer(answer[h])
    /\ holder \in Handlers \cup {NoHandler}
    /\ queue \in Seq(Handlers)
    /\ globalTokens \in 0..GlobalBurst
    /\ keyTokens \in [Keys -> 0..KeyBurst]
    /\ db \in Table
    /\ ticks \in 0..MaxTicks
    /\ crashes \in 0..MaxCrashes
    /\ claims \in SUBSET Claim
    /\ acked \in SUBSET Claim
    /\ announced \in [PrimaryKey -> Nat]
    /\ written \in [Keys -> Nat]
    /\ commits \in Nat

ClaimsOn(id) == {c \in claims : <<c.pattern, c.key>> = id}

\* The table is the submissions ever committed and nothing else: a row for
\* each (pattern, key) some submission named, whose day is the earliest of
\* theirs (upsert's MIN, the dedup of store.rs:19), whatever order handlers,
\* failures and restarts come in.
StoreMatchesClaims ==
    \A id \in PrimaryKey :
        IF db[id] = NoRow
        THEN ClaimsOn(id) = {}
        ELSE /\ \E c \in ClaimsOn(id) : db[id].submitted_day = c.day
             /\ \A c \in ClaimsOn(id) : db[id].submitted_day <= c.day

\* A client that read a 202 is counted from then on, with a day no later
\* than its own, across restarts.
AckedIsDurable ==
    \A c \in acked :
        /\ db[<<c.pattern, c.key>>] # NoRow
        /\ db[<<c.pattern, c.key>>].submitted_day <= c.day

\* Of all the responses about one (pattern, key), exactly one says
\* new_corroborator: the one whose statement inserted the row.  The SELECT
\* and the INSERT are two statements, so it takes the mutex to get this.
AnnouncedOncePerRow ==
    \A id \in PrimaryKey : announced[id] = IF db[id] = NoRow THEN 0 ELSE 1

\* What store.rs:22 has readers trust: a row is about a rule that hashes to
\* its pattern, signed by its key on the row's day or later (upsert keeps
\* the newest signature with the earliest day), and somebody paid the work
\* for the pair.
RowsAreGenuine ==
    \A p \in Patterns, k \in Keys :
        LET row == db[<<p, k>>]
        IN  row # NoRow =>
                /\ Hash[row.rule_json] = p
                /\ k \in Points
                /\ row.signature.key = k
                /\ row.signature.body.pattern_hash = p
                /\ row.signature.body.rule = row.rule_json
                /\ row.submitted_day <= row.signature.body.submitted_at_day
                /\ \E n \in Nonces : PowBits[<<p, k, n>>] >= POW_DIFFICULTY_BITS

\* Between two restarts no key commits more often than its bucket allows,
\* and all keys together no more often than the shared one, however the
\* checks of concurrent handlers interleave.
WritesWithinBudget ==
    /\ \A k \in Keys : written[k] <= KeyBurst + ticks
    /\ commits <= GlobalBurst + ticks * GlobalRefill

Promise == INSTANCE Corroboration WITH
    Clients <- Handlers, PowPaid <- VerifyPow, Limit <- DefaultLimit, asked <- req

\* The service is linearizable: every 202 tells exactly whether its key was
\* new, every listing is ordered, complete up to its limit and exact about
\* the submissions committed so far, and only a genuine submission counts,
\* although each answer is put together in several steps of its handler.
RefinesCorroboration == Promise!Spec

\* Every request is answered, or its client has hung up or seen the process
\* die: the mutex is fair, and no handler keeps it.
EveryRequestEnds == \A h \in Handlers : (pc[h] # "idle") ~> (pc[h] = "idle")

================================================================================
