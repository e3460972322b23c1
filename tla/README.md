# Thundercrab in TLA+

Thundercrab is a mail client that learns sorting rules from what its user files
where and, if the user consents, shares them with other installs through a small
ledger service that counts how many installs propose the same rule. This
directory holds TLA+ modules that model its parts, TLC configurations that check
them on small instances, and TLAPS proofs of what holds on every instance.

## 1. Inventory

Paths are relative to the repository (`src/` here).

| Component | Code | State | Operations |
|---|---|---|---|
| Ledger service | `crab-ledger/src/{api,main,lib}.rs` | two token buckets (one shared, one per public key), a mutex, in-flight requests | `POST /v1/submit`, `GET /v1/suggestions`, `GET /v1/health` |
| Corroboration store | `crab-ledger/src/store.rs` | the table `corroborations`, primary key (pattern_hash, public_key) | `upsert`, `list_aggregated`, `total_unique_patterns` |
| Signed suggestions | `thundercrab-suggestions/src/ledger.rs` | none (a key file) | `Suggestion::new`, `InstallKey::sign`, `verify` |
| Local store | `thundercrab-core/src/{db,crab_rule,flag_event}.rs` | tables `rules`, `flag_events`, `schema_version` | `open`, `save_rule`, `load_rules`, `delete_rule`, `record_flag`, `count_flags_to`, `flag_counts_by_domain_dest` |
| Derivation | `thundercrab-suggestions/src/derive.rs` | none | `derive_rule_candidates` |
| Safety layer | `thundercrab-suggestions/src/safety.rs` | none | `is_safe_match`, `apply_suggestion` |
| IMAP backend | `thundercrab-imap/src/{rust_imap,lib}.rs` | one session behind a mutex; the server's folders | `connect`, `list_folders`, `fetch_headers`, `move_message`, `set_flag`, `logout` |
| ManageSieve client | `thundercrab-imap/src/managesieve.rs` | one connection | `put_active_script` and the response reader |
| SMTP submission | `thundercrab-imap/src/smtp.rs` | none | `send_message` |
| Desktop GUI | `thundercrab-gui/src/main.rs` | the connect form and the folder list | `update`, `connect_and_list` |
| Command line | `thundercrab-cli/src/main.rs` | none | `list`, `fetch`, `push_sieve`, `send`, one per run |

How they interact: a desktop install records flag events and rules in its local
store, derives candidate rules from the counts, signs them with its key and
submits them over HTTP; the ledger checks and counts them, and other installs
pull the list and pass what they accept through the safety layer into their own
local store. The IMAP and ManageSieve clients are used by the GUI and the CLI.

What is hard here, and what makes each part correct:

* **Ledger.** Handlers run concurrently on a multi-threaded runtime. `upsert` is
  a SELECT and an INSERT in two statements, so the answer `new_corroborator` is
  only as good as the mutex around it. The buckets are charged before the
  signature is looked at. A client can hang up while its handler waits for the
  mutex, the process can die between any two steps, and a statement can fail.
  Correct means: the table is exactly the accepted submissions; what a client
  read in a 202 stays counted; exactly one 202 per row says it was new; a key
  writes no more than its bucket allows; listings are exact, ordered and
  complete up to their limit; no request waits forever.
* **Local learning.** Rules enter the same table from four directions (the user,
  platform defaults, derivation, the ledger) under ids chosen by whoever wrote
  the rule, and candidates are computed from counts that may have changed when
  they are saved. Correct means: a federated rule is confined (folders, flags,
  score, origin); what the user wrote is not replaced by it; candidates are
  backed by counts and do not conflict; deduplicated events count once.
* **IMAP.** `move_message` tries UID MOVE and on any error copies, flags and
  expunges; several of those results are discarded, and EXPUNGE removes whatever
  else is flagged. Sequence numbers are used one command after they were counted.
  Correct means: no message is lost, none moves that nobody asked about, and a
  limited listing is the most recent mail.
* **Opening the store.** Several processes may open one file; creating its tables
  and recording their version is a handful of statements without a transaction.
  Correct means: the version never runs ahead of the tables, nobody works on a file
  that is not whole, and no failure or race makes a file that cannot be opened.
* **ManageSieve.** A line-oriented reader of responses that may contain
  literals, with no timeout; two commands that can fail between them. Correct
  means: client and server stay in step, the result is what became of the filters,
  and a call ends when the server hangs up.
* **GUI.** An asynchronous connect whose outcome meets a form that was edited and a
  queue with more presses of the button. Correct means: one attempt at a time, its
  outcome on the screen and nothing older, and a button that comes back to life.
* **Command line.** The exit status is all a script sees: 0 must mean done, and an
  invocation with a flaw must not reach a server.

`PROJECT.json` lists these hazards at their lines with the properties that cover
them, or why none does yet.

## 2. The ledger: which module models what

* `SignedSuggestions` (thundercrab-suggestions/src/ledger.rs): suggestions,
  signatures and `Verify`. No state. A signature is a record of the key that made
  it and the body it covers, so it verifies exactly when the code's
  `verify` does under an ideal scheme. (The code calls the library's `verify`, which
  is laxer than its `verify_strict` about a few degenerate keys; the model has none.)
  The hash is an injective function.
  Rules and patterns are their rank in byte order, which is all that `MIN(rule)`
  and `ORDER BY pattern_hash` look at.
* `CorroborationStore` (store.rs): the table as a function from its primary key,
  and one operator per SQL statement.
* `CrabLedger` (api.rs, main.rs): the state machine. A handler's `pc` says where
  in its Rust function it is: `global` and `per_key` (the two bucket checks, each
  one atomic call into governor), `verify` (proof of work, signature, hash: local
  computation), `waiting` (in the FIFO queue of the tokio mutex, the only await,
  hence the only place where a client that hangs up cancels the handler),
  `locked`, `upsert` (between the two statements), `reply`. `Restart` is the
  process dying and `main` starting again: only the table survives. `StoreFailure`
  is any statement failing. `Deliver` and `LoseReply` are the response arriving or
  not. `Tick` is the time in which a key regains one token; the shared bucket
  regains `GlobalRefill` meanwhile (governor refills it gradually, the model at
  once).
* `claims`, `acked`, `announced`, `written`, `commits` are history variables: the
  committed submissions, those whose 202 was read, the number of `new_corroborator:
  true` per row, and the commits per key and in all since the last restart. No
  action reads them.
* `Ordering`: `InOrder`, SQL's ORDER BY as what it returns, the listing of the rows in
  the order, with no sorting algorithm. The store's and the local store's queries use it.
* `Corroboration`: what the service promises, with neither table nor handlers: a
  growing set of claims and, for each client, one atomic answer that is exact about
  that set. A listing is *described* (sorted, exact, cut only at the limit), where
  the code computes it. `CrabLedger` implements it under the mapping
  `asked <- req`, `claims <- claims`, `answer <- answer`.

### Runs

| Run | Bounds | Shows |
|---|---|---|
| `ledger_safety` | 2 handlers, 3 keys (one not a curve point), 2 rules, 2 days, 8 submissions, 3 queries, shared bucket 2, key bucket 2, 1 restart, no refill | `TypeOK`, `StoreMatchesClaims`, `AckedIsDurable`, `AnnouncedOncePerRow`, `RowsAreGenuine`, and that the service implements `Corroboration` |
| `ledger_liveness` | 2 handlers, 4 submissions, 1 query, shared bucket 2, key bucket 1, 1 refill, no restart | `WritesWithinBudget` with buckets that run dry and refill; `EveryRequestEnds` |

Why this is enough. The races are between two handlers about one row: two handlers
and two submissions of one key suffice for each. The submissions are two of one
(pattern, key) with different days in both orders, a second key on the same
pattern, a second pattern, and four the service has to refuse (altered after signing, the
hash of another rule, no proof of work, a key that is no curve point). A bucket of
two lets a third request be refused and a row be written twice. One restart gives
every state before it and every state after it. The handlers are interchangeable,
so the safety runs use their symmetry; the liveness run does not. The proofs below
have none of these bounds.

Fairness (`FairSpec`): weak fairness of each handler's own steps, because tokio
polls every task that is ready; and the mutex is FIFO, as tokio documents, which
is in the model and not in the fairness. No fairness is assumed of clients, time
or crashes.

### Proofs (`CrabLedgerProofs`, `CorroborationProofs`)

For any sets of handlers, keys, rules, patterns and days and any bounds that satisfy
the named ASSUMEs (a bucket is not empty at capacity, curve points are keys, the
hash is injective, no-row and no-handler are distinguishable): `TypeOK`,
`StoreMatchesClaims`, `AnnouncedOncePerRow`, `RowsAreGenuine`, `AckedIsDurable`,
`WritesWithinBudget`, and `RefinesCorroboration`: every property the runs of the
ledger check, but for liveness.

None of them is inductive alone. The inductive invariant `IInv` adds that a
handler is `locked` or at `upsert` exactly when it is the holder (`HolderInv`), that
a handler past `verify` serves a submission that verified (`CheckedInv`), that at
`upsert` its `existed` still equals what the table says (`SelectInv`: nobody else
can write meanwhile, which is the mutex again), and that an accepted answer not
yet delivered is about a committed claim (`AckInv`). The argument: the table
changes only in `Commit`, whose handler is the holder; so `existed` is right when
it is used; so exactly the commit that inserts announces.

`BudgetsHold` (`WritesWithinBudget`) needs to know where a token is between its
being taken and the commit: `BudgetInv` counts, besides the commits and the tokens
left, the handlers that hold one (`Admitted` of the shared bucket, `Charged(k)` of a
key's), and bounds the sum by the capacity and what the ticks brought. A step moves a unit
from one of the three to another, or wastes it. That is why a check that is not one
with its charge would break it, and a request that fails after its charge does not.

`LedgerRefines` is the refinement itself, with one lemma per step of the ledger. The
commit is where a submission is answered in `Corroboration`, the query under the
mutex where a listing is; everything else is a stutter. Its own part is the listing: the
code's GROUP BY, HAVING, ORDER BY and LIMIT over the table give a sequence that the
abstract specification describes as sorted, exact and cut only at the limit. It uses that
the table is the claims (`IInv`), that they are a finite set (`RefineInv`), that a group of rows
has as many keys as claims have (`GroupIsExact`), and that a finite set with a strict
total order can be listed in that order (`OrderedExists`).

`OrderingProofs` holds the facts about orders that this and the local store need.
The library's induction theorems take a predicate as a parameter, which the provers do not
instantiate; what would be an induction is here an argument from a least
counterexample (`LeastNatural`, from the well-foundedness of `<`), which takes a set.

Model-checked only: `EveryRequestEnds` (liveness).

## 3. Local learning: which module models what

* `FederatedSafety` (crab_rule.rs, safety.rs): rules, `CheckAction`, and
  `Applied`, the rule `apply_suggestion` returns when that accepts. A rule keeps
  what the checks and the queries look at. Nested `Sequence` actions are flattened: `check_action` visits
  them in order and refuses at the first bad one. `LowerCase` is any function on
  names, and the protected lists are constants.
* `Derivation` (derive.rs, the grouped query of db.rs): counts as cardinalities of
  sets of rows, the two filters, the derived rule. `DerivedId` stands for the
  sanitised id and need not be injective, as the code's is not. `DomainTotal` is
  the number of the domain's events, which is what the code's sum over the groups
  of a domain is. The threshold is a fraction of two integers.
* `LocalStore` (db.rs): the two tables and every call on them. The `flag_events`
  uniqueness key does not include the sender's domain, and `INSERT OR IGNORE` keeps
  the first row. No query reads `local_id`; in the model it tells apart rows that
  agree in all else, should the table hold any, so that a set is counted as SQL counts
  rows.

The repository holds no application that makes these calls. The model makes them
in any order, one atomic SQL statement each, with one precondition: a rule that
came from the ledger is saved only as `apply_suggestion` returned it, which is what
ARCHITECTURE.md asks of the caller. `Derive` and `SaveCandidate` are apart, because
candidates are returned to the caller who shows them to the user; events and other
rules may be written between. `Reopen` is the process ending: the tables stay, the
candidates are gone. `observed`, `writer` and `mine` are history variables.

### Runs

| Run | Bounds | Shows |
|---|---|---|
| `rules_safety` | 3 ids, 2 domains and mail without one, 9 observations, 5 suggestions, 3 own rules, 2 observations needed, threshold 2/3 | `TypeOK`, `FederatedConfined`, `FederatedRanksLast`, `RepeatsCountOnce`, `DerivedRulesBacked`, `NoConflictingCandidates` |
| `rules_user_overridden` | the same | `UserRulesStand` of section 8 |
| `rules_from_toggles` | the same, with flags as observations | `CandidatesFollowMoves` of section 8 |

Why this is enough. Three ids make every pair of writers meet on one of them: both
domains derive id 1, another install's derived rule has it too, and the user has
rules at 1 and 3. The suggestions are a harmless one, one that hides a protected
folder (in another case) behind a harmless action, one that claims to be the
user's with score 1000, one that sets a protected flag and one with no action at
all. The observations are two and two for two folders of one domain, so that the
threshold of 2/3 is passed, missed and passed again as they come in; one message
is observed three times under different keys; two have no sender. The module has no
liveness: it is a passive library, and nothing in it waits.

### Proofs (`LocalStoreProofs`)

For any names, domains, rules and observations that satisfy the named ASSUMEs:
`TypeOK`; `FederatedConfined`; `FederatedRanksLast`; `DerivedRulesBacked`;
`RepeatsCountOnce`; and, for a threshold above one half, `NoConflictingCandidates`. The inductive invariant
`IInv` adds that the events are a finite set of rows, so that a count can only go up
when one is inserted (`EventsInv`), and that the row the ledger wrote last at an id is
there (`LedgerInv`). `RepeatsCountOnce` needs one more invariant, `KeysInv`: the table
has exactly one row for each key ever observed. That two folders of
a domain cannot both pass a threshold above one half is a lemma about cardinalities
of disjoint subsets; at one half it fails, and derive.rs allows one half (section 8).

`LedgerRulesRankLast` (`FederatedRanksLast`) needs `RankInv`: every row whose JSON says
`federated` has a score below 50, whichever call wrote it, and the rows are finitely
many, so that `load_rules` can list them in order at all. That the user's own rules and the
defaults score 50 and more is an assumption on callers (`CallersAssumption`); derived
rules score 30, and for them nothing of the kind is claimed.

Two theorems say what the failing properties of section 8 lack. `RulesApartStand`: where
no suggestion has an id that is also one of the user's (`UserIds`), `UserRulesStand` holds;
so a shared id is the only way in. `WithoutTogglesFollow`: where no flag toggle is
recorded, `CandidatesFollowMoves` holds.

All that the runs of the local store check is proved.

## 4. The IMAP backend

`ImapBackend` models `connect`, `logout`, `move_message`, `fetch_headers` and
`set_flag` together with a server. A task's `pc` is the command it sends next:
`select`, `uid_mv`, `uid_copy`, `uid_store`, `expunge` of a move, `examine` and
`fetch` of a listing, `select` and `set_flag` of a flag. `holder` has the mutex
guard, which every method keeps until it returns. A call that waits for the guard
has done nothing, so `Begin` is the moment it gets it.

`Command` is one command and its answer, the same for all of them: OK with the
effect, NO or BAD without it, or lost with the connection, with or without the
effect; on a connection that is gone every command is lost. What the code does with
the answer is in each action: `map_err` and `?` (`OkElseReturn`), a UID MOVE of which any
error means the fallback, and the STORE and EXPUNGE whose answers are dropped, so
that they fail only if they cannot be sent. The server is modelled from its use:
folders of copies under uids that are not reused; COPY and MOVE keep flags, as
IMAP requires; EXPUNGE removes all that is flagged; a command about a uid that is gone
does nothing and is OK. `Deliver` is new mail; `Mark` and `Purge` are another mail client.
`delivered`, `asked` and `discarded` are history variables.

| Run | Bounds | Shows |
|---|---|---|
| `imap_safety` | 2 tasks, 2 folders, 2 messages, 3 calls (moves, flags and listings of the last message), 1 flag or expunge by another client, any number of lost connections | `TypeOK`, `NeverLost`, `OthersStayPut`, `FetchIsRecent` |
| `imap_move_reported` | as `imap_safety` | `OkMeansMoved` of section 8 |
| `imap_fetch_limit` | 3 messages, 2 calls, limits 1, 2 and none | `FetchKeepsLimit` of section 8 |

Why this is enough. A move interrupted between STORE and EXPUNGE, its retry, whose
COPY takes the \Deleted flag along, and a further move that expunges the flagged
copy need three calls. A uid of one folder that names another message in the
other folder needs two messages; two tasks are what the mutex keeps apart. A listing
of the last message can have one copy more than its limit (a message moved within its
folder has two until it is expunged), and between its EXAMINE and its FETCH the other
message can arrive, or another client can expunge what a call before had flagged.

A call always has a step or the session is free; no call of the model waits on
another one forever. That calls end is not stated: there is no timeout in the
code, so it would only repeat that the server answers.

### Proofs (`ImapBackendProofs`)

For any tasks, folders, messages, limits and bounds: `TypeOK`, `NeverLost`,
`OthersStayPut`, `FetchIsRecent`, which is all `imap_safety` checks. The invariant
comes in three layers, each proved with the ones before it.

* `Typed` adds to `TypeOK` who holds the session (`ControlInv`): a task past its first
  command is the holder, has the folder of its own call open, and names a uid below
  that folder's UIDNEXT, so that no later copy gets it.
* `MailInv` says what is in the folders. `NeverLost` is not inductive: that a copy
  exists does not help if it is flagged and the next EXPUNGE takes it. `KeptSomewhere`
  asks for a copy *without* the flag, and `CopiedFirst` that a task about to send STORE has
  another such copy than the one it flags. It is what the `?` after COPY is for, and it
  survives the commands of everyone else because only the holder sends any.
  `KeptInInbox` is the same for mail nobody asked to move, `UniqueUids` and
  `KnownMessages` tie a uid to its message.
* `SeenInv`: until FETCH, whatever came after EXAMINE has a larger uid than whatever it
  counted. A range by sequence numbers can then be too long or shifted towards
  newer mail, never towards older (`FetchIsRecent`).

## 5. The mail programs

Four modules, each with its own variables, and one that composes them.

* `ManageSieve` (managesieve.rs): `put_active_script` from connect to LOGOUT, one
  `stage` per thing it waits for, and the server. What comes from the server is a
  sequence of lines. A line has the word at its start and whether
  `parse_literal_marker` finds a marker in it; `read_response` looks for the marker
  first. `DrainLiteral` drops the line with what follows it, `SkipCapability` goes
  on, `ReachEnd` is `read_line` returning 0, `HearOk`, `HearNo` and `HearBye` are a
  terminator and what the caller of the reader does with it at that stage. The server
  answers OK with the effect, NO without it, BYE and closes; it writes capabilities and
  texts quoted or as literals; it closes when idle (`GoIdle`); the connection breaks at
  any point, with or without the effect of the command it was given and with any
  part of what was on its way (`Break`): after a line, in the middle of a line, of which
  `read_line` returns what there is (`Torn`), or in a literal, which is an error. `ChangeFilters` is another client. `done`,
  `quiet` and `heard` are history. Left out: base64, quoting, TLS.
* `FolderListing` (rust_imap.rs `connect`, `list_folders`, `logout`, as
  `connect_and_list`, `cmd_list` and `cmd_fetch` call them): a task with a session of
  its own; LIST, then a STATUS for each name, and folders made and deleted by others
  meanwhile. Every `?` is `Fail`. The names of LIST come in a stream, and the stream of a
  LIST that was refused or broke off may just end: `List` goes on with any part of
  the names. `lasting` and `whole` are history: the folders that existed all through the
  call, and whether LIST gave all there were. `fetch_headers` is one step here; `ImapBackend` has its detail.
* `GuiApp` (gui main.rs): the form, the flag `connecting`, the folders shown, and the
  presses that wait in the queue. `Press` is the button as last drawn; `HandleConnect`
  and `HandleConnected` are the arms of `update`; the task runs in between.
* `CommandLine` (cli main.rs, smtp.rs): one invocation from its checks to its exit
  status. What is wrong with an invocation before the network is used is a set of
  `Flaws`. `Submit` and `Submitted` are the submission server taking the message and
  its answer arriving; `Die` is the process being killed.
* `MailClients` puts them side by side. `Run(p)` is everything a program does
  unasked; `StartCrab`, `StartApp`, `PressConnect`, `EditForm`, `KillCrab`, `EndApp`
  are the user, `OtherClients` the rest of the world.

| Run | Bounds | Shows |
|---|---|---|
| `mail_clients` | 1 program at a time, 2 accounts and an empty form, 2 folders, 2 scripts, 9 invocations (4 flawed), 3 events | `TypeOK`, `InStep`, `PushIsHonest`, `ExitIsHonest`, `AnsweredListIsWhole`, `OneAttempt`, `ShownIsCurrent`, `CrabExits`, `AttemptsEnd` |
| `folders_partial` | as the first, 1 event | `ListingIsWhole` of section 8 |
| `sieve_literal` | 1 program, 1 event, pushes only | `TerminatorReturned` of section 8 |

Why this is enough. Programs share no memory and no file here: they meet only at the
servers, where a second program is one more of `OtherClients`, so one program at a
time loses no behaviour of that program. An event is what someone outside the
program does. Three are two presses of the button and a folder that goes; an
attempt, an edit and an attempt with another account; a push, another client's change,
and a second push or a kill. Each conversation has all its stages in any case,
and any of them can go wrong, any number of times.

Fairness: weak fairness of each program's own steps (`Run`), since a process is
scheduled; and of each ManageSieve server's (`StepSieveServer`): it answers or hangs
up in the end, as RFC 5804 (1.6) has an inactivity timeout. The code has no timeout of
its own, so nothing less would do; the IMAP commands have their answer in the step
that sends them, which is the same assumption. Of users and other clients nothing
is assumed. `CrabExits` and `AttemptsEnd` are about what is left to the code: to
notice every way in which a conversation ends, also in the middle of a line or of a
literal, and to leave no state behind in which nothing comes next.

### Proofs (`ManageSieveProofs`, `MailClientsProofs`)

For any number of programs at a time, any accounts, folders, scripts and
invocations, where the run has one program: `TypeOK`, `InStep`, `PushIsHonest`,
`ExitIsHonest`, `AnsweredListIsWhole`, `OneAttempt`, `ShownIsCurrent`. Each component has an
invariant of its own, and `ClientsInv` is their conjunction.

* `SieveInv`, per call. `Stream`: every line on its way answers the stage the client is
  in (and an OK is true), or is the bytes of a literal and stands behind a
  marker, or is a goodbye and stands last. This is the shape that `InStep` needs to be
  inductive: a reader that drains one line too few leaves a literal at the head, and one that
  drains too many waits in a stage whose answer is gone. `Progress`: the server has
  obeyed nothing of a later stage. `Undisturbed`: the filters are as this call left them,
  until somebody else writes, which is what `PushIsHonest` says at its end.
* `TaskInv`, per listing: if LIST was answered in full, a folder that has been there all
  along is still to be asked for or already in the listing. So a LIST cut short is the only
  way to the failing `ListingIsWhole` of section 8 (`ListsWhatIsAnswered`): neither folders that
  come and go nor a STATUS that fails shorten a listing.
* `CrabInv`, per invocation: which call it may have out at each point, and that none was
  made before its flaws were looked for. `Honest` is then what is left of it at the exit.
* `AppInv`: the tasks in flight are exactly those of the attempt the application says it
  makes. Two presses in the queue are harmless because the second finds `connecting` set.

The steps of one program leave the others' state alone (`Elsewhere`); what they share,
the servers, appears only in `Undisturbed` and `TaskInv`, which say what others may do
to it.

Model-checked only: `CrabExits` and `AttemptsEnd` (liveness).

## 6. Opening the store

`DbOpen` (`Db::open`, `Db::init` of db.rs): the tables and the rows of
`schema_version` in the file, and where each process is: `batch` (one CREATE TABLE IF
NOT EXISTS per step; the last with its indexes), `insert` (a version was looked for and
not found, or an older one), `open`. A statement that fails, a process that stops and a
handle that is dropped are one action, `Stop`. The version is a constant of the binary;
a later release is taken to be this code with a larger one, since its migrations are
not written. `floor` is history: the version in the file when the open began.

| Run | Bounds | Shows |
|---|---|---|
| `db_open` | 2 processes of release 1, one of release 2, 3 tables, 2 faults | `TypeOK`, `VersionComesLast`, `HandleIsSound`, `NoNewerFile`, `OpensInTheEnd` |

Two processes of one release are the race for the primary key; the third is the
upgrade under way; two faults interrupt an open and its repetition.

Fairness: a process that has no handle keeps trying (`Fairness`). `Db::open` itself does
not retry: its callers do, or start again. `OpensInTheEnd` says that this is enough.

### Proofs (`DbOpenProofs`)

For any processes, releases, list of tables and number of faults: `TypeOK`,
`VersionComesLast`, `HandleIsSound`, `NoNewerFile`. The inductive invariant `IInv` says
that what a process has seen stays true while it goes on: the statements behind it had
their effect (`CreatedInv`), past the batch the schema is whole (`WholeInv`), what the open
found is still on record and not above its release once it is past the check (`FloorInv`).
`LargestInv`, that there is a largest version, is what makes `SELECT MAX` the value it
is meant to be; it is an invariant and not a fact about finite sets, so no induction
over data is needed. Each holds because nothing is ever taken out of the file.

Model-checked only: `OpensInTheEnd` (liveness).

## 7. Plan

Done since the plan was made: the ledger, local learning, IMAP, ManageSieve, the GUI,
the command line, SMTP, opening the store.

Proved: every safety property the passing runs check, and the refinement of
`Corroboration`. Left to TLC, because the prover handles neither liveness under fairness nor
ENABLED: `EveryRequestEnds`, `CrabExits`, `AttemptsEnd`, `OpensInTheEnd`. The violated
properties of section 8 have no theorem, of course; for three of them a theorem says under
which assumption they hold (`RulesApartStand`, `WithoutTogglesFollow`, `ListsWhatIsAnswered`). To come: the same for `OkMeansMoved` (no STORE or EXPUNGE
refused), `FetchKeepsLimit` (no mail between EXAMINE and FETCH) and `TerminatorReturned`
(no text of an answer a literal); and the safety halves of the liveness properties (in each
state that is not the end some step of the program is possible).

A composition of several `LocalStore`s with a `Corroboration` (derived at one install,
corroborated, accepted at another) is not planned: no code in the repository
makes those calls, so the glue would be invented. `LocalStore` has its end of it, with any
suggestion coming in, and `CrabLedger` the other.

Not modelled: `put_sieve` of the IMAP backend (it refers to ManageSieve), TLS and MIME,
the text of headers, rules and errors, the JSON and HTTP encodings, key files, unsolicited
FETCH responses.

## 8. Where code and documents disagree

* `UserRulesStand`: `save_rule` replaces whatever row has the rule's id, and
  `apply_suggestion` keeps the id it was given. Two installs derive the same id from
  the same (domain, folder), so accepting a suggestion can replace the user's own
  rule, although `crab_rule.rs:60` says a federated suggestion can never override
  one.
* `CandidatesFollowMoves`: the grouped counts include flag toggles, whose destination
  is the name of a flag (`flag_event.rs:48`); two of them derive a rule that files mail
  into a folder named like the flag, where `derive.rs:3` speaks of moved messages.
* `OkMeansMoved`: `move_message` drops the answers of STORE and EXPUNGE
  (`rust_imap.rs:274`) and returns Ok with the message still in the source folder;
  `lib.rs:125` says "Move".
* `FetchKeepsLimit`: with no more messages than the limit the code fetches `1:*`
  (`rust_imap.rs:194`), and mail announced after EXAMINE makes the listing longer than
  the limit the comment at line 187 speaks of. With `Some(0)` the range
  `total+1:total` names one message.
* `ListingIsWhole`: `list_folders` reads names until their stream ends
  (`rust_imap.rs:137`) and does not look at the answer of LIST itself. One that is refused or
  breaks off can end it early, and then Ok comes with some of the folders or none, where
  `lib.rs:112` says "List all folders the user can see".
* `TerminatorReturned`: `read_response` looks for a literal marker before the word at
  the start of a line (`managesieve.rs:233`). An answer whose text is a literal, as
  servers write the errors of a script that does not compile, is dropped whole, and so is
  one with a number in braces in its text; the client goes on waiting, although line 207
  says it reads one response with its final terminator and returns that.

Smaller ones, seen in the code and not made into runs:

* At a threshold of one half two folders with half of a domain's mail each are both
  proposed, because a share equal to the threshold passes (`derive.rs:70`). `derive.rs:7-9`
  asks for more than the threshold, "so we don't propose conflicting rules"; line 39 says "at
  least", as the code does. `NoConflictingCandidates` is for thresholds above one half.
* Every error of LOGIN is `Auth`, a lost connection and a bad greeting included
  (`rust_imap.rs:98`); a rejected AUTH of the submission server is `Transport`
  (`smtp.rs:113`), where line 71 says `Auth`. A BYE as a greeting is `Transport`, where
  `managesieve.rs:62` says `Protocol`. Callers print the text and do not look at the kind.
* The password field is cleared when an attempt starts (gui `main.rs:125`), not "after a
  successful connect" (line 83).
* One folder whose STATUS fails, a `\Noselect` one for instance, fails the whole listing.
* A release may open a file that a later one upgrades between its query and its INSERT
  (`db.rs:122`), or keep a handle it already has: `NoNewerFile` is about upgrades before
  the open began.
* `api.rs:72` says the entries of the per-key limiter age out; nothing calls
  `retain_recent`, on which that depends.
