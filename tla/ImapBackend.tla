------------------------------ MODULE ImapBackend ------------------------------
(***************************************************************************)
(* The IMAP backend (thundercrab-imap/src/rust_imap.rs) and the server it  *)
(* talks to.                                                               *)
(*                                                                         *)
(* Tasks share one session behind a mutex and hold it for a whole          *)
(* operation, so operations do not interleave with each other; their       *)
(* commands do with new mail and with what the user's other mail clients   *)
(* do.  A command is answered OK, answered NO (or BAD), or lost with the   *)
(* connection, before or after the server obeyed it.                       *)
(*                                                                         *)
(* Left out: list_folders (LIST and STATUS change neither mailboxes nor    *)
(* the selection), the contents of headers, every flag but \Deleted, and   *)
(* folders that are created or whose uids are renumbered.                  *)
(***************************************************************************)
EXTENDS Integers, FiniteSets

CONSTANTS
    Tasks,      \* concurrent callers of the backend
    NoTask,     \* the session's mutex is free
    Folders,
    Inbox,      \* the folder mail is delivered to
    NoFolder,   \* no folder is selected
    Messages,
    Limits,     \* the limits fetch_headers is called with
    NoLimit,    \* limit = None
    MaxCalls,   \* bound: operations started
    MaxMarks    \* bound: flags changed and folders expunged by other clients

ASSUME NamesAssumption ==
    /\ NoTask \notin Tasks
    /\ Inbox \in Folders
    /\ NoFolder \notin Folders

ASSUME LimitsAssumption == Limits \subseteq Nat \cup {NoLimit} /\ NoLimit \notin Nat

ASSUME BoundsAssumption ==
    /\ MaxCalls \in Nat
    /\ MaxMarks \in Nat

MoveMessage == [op : {"move"}, from : Folders, to : Folders, uid : Nat]

FetchHeaders == [op : {"fetch"}, from : Folders, limit : Limits]

SetFlag == [op : {"flag"}, from : Folders, uid : Nat, set : BOOLEAN]

NoCall == [op |-> "none"]

Call == MoveMessage \cup FetchHeaders \cup SetFlag

Copy == [uid : Nat \ {0}, message : Messages, deleted : BOOLEAN]

VARIABLES
    mail,       \* server: the copies in each folder
    uidnext,    \* server: the uid the next copy in each folder gets
    alive,      \* the connection is up
    selected,   \* the folder the session has selected
    holder,     \* the task that holds the session, or NoTask
    pc,         \* the command each task sends next
    call,       \* the operation each task performs, or performed last
    seen,       \* fetch_headers: the uids EXAMINE counted
    result,     \* how the last operation of each task ended
    calls,      \* operations started
    marks,      \* flags changed and folders expunged by other clients
    delivered,  \* history: each message delivered, with its uid
    asked,      \* history: the <<folder, uid>>s somebody asked to move
    discarded   \* history: messages somebody flagged \Deleted, moves apart

server == <<mail, uidnext>>

tasks == <<holder, pc, call, result>>

bounds == <<calls, marks>>

history == <<delivered, asked, discarded>>

vars == <<mail, uidnext, alive, selected, holder, pc, call, seen, result, calls,
          marks, delivered, asked, discarded>>

Init ==
    /\ mail = [f \in Folders |-> {}]
    /\ uidnext = [f \in Folders |-> 1]
    /\ alive = TRUE
    /\ selected = NoFolder
    /\ holder = NoTask
    /\ pc = [t \in Tasks |-> "idle"]
    /\ call = [t \in Tasks |-> NoCall]
    /\ seen = [t \in Tasks |-> {}]
    /\ result = [t \in Tasks |-> [ok |-> FALSE, uids |-> {}]]
    /\ calls = 0
    /\ marks = 0
    /\ delivered = {}
    /\ asked = {}
    /\ discarded = {}

-----------------------------------------------------------------------------
(* The server. *)

Uids(copies) == {c.uid : c \in copies}

\* The copies a command is about.
Opened == IF selected = NoFolder THEN {} ELSE mail[selected]

\* The copies a UID command is about: none if the uid is gone, which is not
\* an error.
Addressed(uid) == {c \in Opened : c.uid = uid}

\* COPY and MOVE keep the flags of a message and give the copy a new uid.
Added(copies, folder) ==
    {[c EXCEPT !.uid = uidnext[folder]] : c \in copies}

\* Wrong variant (mutation runs): the next copy gets the same uid.
NextUidKept(copies, folder) == uidnext

NextUid(copies, folder) ==
    IF copies = {} THEN uidnext
                   ELSE [uidnext EXCEPT ![folder] = @ + 1]

\* A command that changes the mailboxes to `m` and `u`, and its answer.  On a
\* connection that is gone every command is lost.
Command(answer, m, u) ==
    \/ /\ answer = "ok"
       /\ alive
       /\ mail' = m
       /\ uidnext' = u
       /\ UNCHANGED alive
    \/ /\ answer = "no"
       /\ alive
       /\ UNCHANGED <<server, alive>>
    \/ /\ answer = "lost"
       /\ alive' = FALSE
       /\ \/ UNCHANGED server
          \/ alive /\ mail' = m /\ uidnext' = u

\* A new message.
Deliver(m) ==
    /\ \A d \in delivered : d[1] # m
    /\ delivered' = delivered \cup {<<m, uidnext[Inbox]>>}
    /\ mail' = [mail EXCEPT ![Inbox] = @ \cup
                  {[uid |-> uidnext[Inbox], message |-> m, deleted |-> FALSE]}]
    /\ uidnext' = [uidnext EXCEPT ![Inbox] = @ + 1]
    /\ UNCHANGED <<alive, selected, tasks, seen, bounds, asked, discarded>>

\* `copies` with the flag of those with `uid` set or cleared.
Flagged(copies, uid, set) ==
    {IF c.uid = uid THEN [c EXCEPT !.deleted = set] ELSE c : c \in copies}

\* Another mail client of the user flags a copy, or clears its flag.
Mark(f, c) ==
    /\ marks < MaxMarks
    /\ marks' = marks + 1
    /\ mail' = [mail EXCEPT ![f] = Flagged(@, c.uid, ~c.deleted)]
    /\ discarded' = IF c.deleted THEN discarded ELSE discarded \cup {c.message}
    /\ UNCHANGED <<uidnext, alive, selected, tasks, seen, calls, delivered, asked>>

\* It expunges a folder, also one that this session has open: sequence numbers
\* stay as they are until the session is told, which is never during FETCH.
Purge(f) ==
    /\ marks < MaxMarks
    /\ marks' = marks + 1
    /\ mail' = [mail EXCEPT ![f] = {c \in @ : ~c.deleted}]
    /\ UNCHANGED <<uidnext, alive, selected, tasks, seen, calls, history>>

-----------------------------------------------------------------------------
(* Calls, and the session they share. *)

\* Wrong variant (mutation runs): without the mutex.
BeginUnlocked(t, c, label) ==
    /\ pc[t] = "idle"
    /\ calls < MaxCalls
    /\ calls' = calls + 1
    /\ holder' = t
    /\ pc' = [pc EXCEPT ![t] = label]
    /\ call' = [call EXCEPT ![t] = c]
    /\ UNCHANGED <<server, alive, selected, seen, result, marks, delivered, discarded>>

\* A call gets the session.  One that still waits for it has done nothing, so
\* nothing tells it from a call made at this moment.
Begin(t, c, label) ==
    /\ pc[t] = "idle"
    /\ holder = NoTask
    /\ calls < MaxCalls
    /\ calls' = calls + 1
    /\ holder' = t
    /\ pc' = [pc EXCEPT ![t] = label]
    /\ call' = [call EXCEPT ![t] = c]
    /\ UNCHANGED <<server, alive, selected, seen, result, marks, delivered, discarded>>

BeginMove(t, from, to, uid) ==
    /\ Begin(t, [op |-> "move", from |-> from, to |-> to, uid |-> uid],
             "select")
    /\ asked' = asked \cup {<<from, uid>>}

BeginFetch(t, from, limit) ==
    /\ Begin(t, [op |-> "fetch", from |-> from, limit |-> limit], "examine")
    /\ UNCHANGED asked

BeginSetFlag(t, from, uid, set) ==
    /\ Begin(t, [op |-> "flag", from |-> from, uid |-> uid, set |-> set],
             "select")
    /\ UNCHANGED asked

\* A new session in the place of one that is gone.
Connect ==
    /\ ~alive
    /\ holder = NoTask
    /\ alive' = TRUE
    /\ selected' = NoFolder
    /\ UNCHANGED <<server, tasks, seen, bounds, history>>

\* Takes the backend itself, so no call of it is under way.
Logout ==
    /\ alive
    /\ holder = NoTask
    /\ alive' = FALSE
    /\ UNCHANGED <<server, selected, tasks, seen, bounds, history>>

GoTo(t, label) ==
    /\ pc' = [pc EXCEPT ![t] = label]
    /\ UNCHANGED <<holder, result>>

\* The operation returns Ok (with the uids of the headers it read) or Err, and
\* its guard frees the session.
Return(t, ok, uids) ==
    /\ pc' = [pc EXCEPT ![t] = "idle"]
    /\ holder' = NoTask
    /\ result' = [result EXCEPT ![t] = [ok |-> ok, uids |-> uids]]

\* `?` and `map_err`: any answer but OK is an error.
OkElseReturn(t, answer, label) ==
    IF answer = "ok" THEN GoTo(t, label) ELSE Return(t, FALSE, {})

\* SELECT and EXAMINE: a folder that cannot be opened leaves none open.
Open(t, answer) ==
    /\ Command(answer, mail, uidnext)
    /\ selected' = IF answer = "ok" THEN call[t].from ELSE NoFolder

Select(t, answer) ==
    /\ pc[t] = "select"
    /\ Open(t, answer)
    /\ OkElseReturn(t, answer,
                    IF call[t].op = "move" THEN "uid_mv" ELSE "set_flag")
    /\ UNCHANGED <<call, seen, bounds, history>>

-----------------------------------------------------------------------------
(* move_message.  A server without the MOVE extension answers UID MOVE with  *)
(* BAD; any other failure of it is treated alike.                           *)

UidMv(t, answer) ==
    LET moved == Addressed(call[t].uid)
        to == call[t].to
        left == [mail EXCEPT ![selected] = @ \ moved]
    IN
    /\ pc[t] = "uid_mv"
    /\ Command(answer, [left EXCEPT ![to] = @ \cup Added(moved, to)], NextUid(moved, to))
    /\ IF answer = "ok" THEN Return(t, TRUE, {}) ELSE GoTo(t, "uid_copy")
    /\ UNCHANGED <<selected, call, seen, bounds, history>>

\* Wrong variant (mutation runs): the answer of COPY is dropped like those that follow.
UidCopyUnchecked(t, answer) ==
    LET copied == Addressed(call[t].uid)
        to == call[t].to
    IN
    /\ pc[t] = "uid_copy"
    /\ Command(answer, [mail EXCEPT ![to] = @ \cup Added(copied, to)], NextUid(copied, to))
    /\ GoTo(t, "uid_store")
    /\ UNCHANGED <<selected, call, seen, bounds, history>>

UidCopy(t, answer) ==
    LET copied == Addressed(call[t].uid)
        to == call[t].to
    IN
    /\ pc[t] = "uid_copy"
    /\ Command(answer, [mail EXCEPT ![to] = @ \cup Added(copied, to)], NextUid(copied, to))
    /\ OkElseReturn(t, answer, "uid_store")
    /\ UNCHANGED <<selected, call, seen, bounds, history>>

\* The answer is read and dropped.  The call fails only if the command could
\* not even be sent.
UidStore(t, answer) ==
    /\ pc[t] = "uid_store"
    /\ Command(answer, [mail EXCEPT ![selected] = Flagged(@, call[t].uid, TRUE)], uidnext)
    /\ \/ GoTo(t, "expunge")
       \/ answer = "lost" /\ Return(t, FALSE, {})
    /\ UNCHANGED <<selected, call, seen, bounds, history>>

\* EXPUNGE removes whatever is flagged; its answer is dropped in the same way.
Expunge(t, answer) ==
    /\ pc[t] = "expunge"
    /\ Command(answer, [mail EXCEPT ![selected] = {c \in @ : ~c.deleted}], uidnext)
    /\ \/ Return(t, TRUE, {})
       \/ answer = "lost" /\ Return(t, FALSE, {})
    /\ UNCHANGED <<selected, call, seen, bounds, history>>

-----------------------------------------------------------------------------
(* fetch_headers *)

Examine(t, answer) ==
    /\ pc[t] = "examine"
    /\ Open(t, answer)
    /\ seen' = [seen EXCEPT ![t] = IF answer = "ok" THEN Uids(mail[call[t].from]) ELSE {}]
    /\ IF answer = "ok" /\ mail[call[t].from] = {}
         THEN Return(t, TRUE, {})
         ELSE OkElseReturn(t, answer, "fetch")
    /\ UNCHANGED <<call, bounds, history>>

\* Wrong variant (mutation runs): off by one.
FirstToLastOneMore(total, limit) ==
    IF limit # NoLimit /\ limit < total THEN <<total - limit, total>>
                                        ELSE <<1, NoLimit>>

\* The first sequence number fetched and the last, of the `total` that EXAMINE
\* counted; NoLimit stands for `*`.
FirstToLast(total, limit) ==
    IF limit # NoLimit /\ limit < total THEN <<total - limit + 1, total>>
                                        ELSE <<1, NoLimit>>

\* A message's sequence number is its rank by uid.
SequenceNumber(uids, uid) == Cardinality({u \in uids : u <= uid})

\* IMAP reads a range in either direction, and `*` as the largest number.
Within(uids, range) ==
    LET end(n) == IF n = NoLimit THEN Cardinality(uids) ELSE n
        a == end(range[1])
        b == end(range[2])
    IN  {u \in uids : \/ SequenceNumber(uids, u) \in a..b
                      \/ SequenceNumber(uids, u) \in b..a}

\* The session numbers what EXAMINE counted, and mail that came since if the
\* server announces it.  Messages expunged meanwhile are not returned.  The
\* stream of headers may break off, with or without an error.
Fetch(t, answer) ==
    /\ pc[t] = "fetch"
    /\ Command(answer, mail, uidnext)
    /\ \E numbered \in {seen[t], seen[t] \cup Uids(Opened)} :
         LET range == FirstToLast(Cardinality(seen[t]), call[t].limit)
             fetched == Within(numbered, range) \cap Uids(Opened)
         IN  \/ answer = "ok" /\ Return(t, TRUE, fetched)
             \/ answer = "no" /\ Return(t, TRUE, {})
             \/ answer = "lost" /\ \E part \in SUBSET fetched : Return(t, TRUE, part)
             \/ answer # "ok" /\ Return(t, FALSE, {})
    /\ UNCHANGED <<selected, call, seen, bounds, history>>

-----------------------------------------------------------------------------
(* set_flag, with \Deleted.  Refused, it may or may not see the refusal: the *)
(* library's stream reports a failed command as an item or as its end.       *)

StoreFlag(t, answer) ==
    LET set == call[t].set
        flagged == Addressed(call[t].uid)
    IN
    /\ pc[t] = "set_flag"
    /\ Command(answer, [mail EXCEPT ![selected] = Flagged(@, call[t].uid, set)], uidnext)
    /\ discarded' = IF set /\ answer # "no"
                      THEN discarded \cup {c.message : c \in flagged} ELSE discarded
    /\ \/ Return(t, TRUE, {})
       \/ answer # "ok" /\ Return(t, FALSE, {})
    /\ UNCHANGED <<selected, call, seen, bounds, delivered, asked>>

-----------------------------------------------------------------------------

Answers == {"ok", "no", "lost"}

Work(t, answer) ==
    \/ Select(t, answer)
    \/ UidMv(t, answer)
    \/ UidCopy(t, answer)
    \/ UidStore(t, answer)
    \/ Expunge(t, answer)
    \/ Examine(t, answer)
    \/ Fetch(t, answer)
    \/ StoreFlag(t, answer)

\* Callers name a message by a uid the folder once had, maybe long gone.
KnownUids(folder) == 1..(uidnext[folder] - 1)

Next ==
    \/ \E m \in Messages : Deliver(m)
    \/ \E f \in Folders : \E c \in mail[f] : Mark(f, c)
    \/ \E f \in Folders : Purge(f)
    \/ \E t \in Tasks, from, to \in Folders : \E uid \in KnownUids(from) :
         BeginMove(t, from, to, uid)
    \/ \E t \in Tasks, from \in Folders, limit \in Limits : BeginFetch(t, from, limit)
    \/ \E t \in Tasks, from \in Folders : \E uid \in KnownUids(from), set \in BOOLEAN :
         BeginSetFlag(t, from, uid, set)
    \/ Connect
    \/ Logout
    \/ \E t \in Tasks, answer \in Answers : Work(t, answer)

Spec == Init /\ [][Next]_vars

-----------------------------------------------------------------------------
(* Properties. *)

TypeOK ==
    /\ mail \in [Folders -> SUBSET Copy]
    /\ uidnext \in [Folders -> Nat \ {0}]
    /\ \A f \in Folders : \A c \in mail[f] : c.uid < uidnext[f]
    /\ alive \in BOOLEAN
    /\ selected \in Folders \cup {NoFolder}
    /\ holder \in Tasks \cup {NoTask}
    /\ pc \in [Tasks -> {"idle", "select", "uid_mv", "uid_copy", "uid_store",
                         "expunge", "examine", "fetch", "set_flag"}]
    /\ call \in [Tasks -> Call \cup {NoCall}]
    /\ seen \in [Tasks -> SUBSET Nat]
    /\ result \in [Tasks -> [ok : BOOLEAN, uids : SUBSET Nat]]
    /\ calls \in 0..MaxCalls
    /\ marks \in 0..MaxMarks
    /\ delivered \subseteq Messages \X Nat
    /\ asked \subseteq Folders \X Nat
    /\ discarded \subseteq Messages

\* However moves fail half-way, are retried, or meet other clients, a message
\* nobody flagged \Deleted still has a copy (move_message copies before it
\* flags and expunges, and stops if the copy failed).
NeverLost ==
    \A d \in delivered :
        d[1] \notin discarded => \E f \in Folders : \E c \in mail[f] : c.message = d[1]

\* A message nobody asked to move and nobody flagged stays where it was
\* delivered, whatever the moves of other messages expunge, and whichever
\* folders other tasks select (one session, one guard per operation).
OthersStayPut ==
    \A d \in delivered :
        d[1] \notin discarded /\ <<Inbox, d[2]>> \notin asked
            => \E c \in mail[Inbox] : c.uid = d[2] /\ c.message = d[1]

Returned(t, op) == pc[t] = "idle" /\ call[t].op = op /\ result[t].ok

\* Of the messages EXAMINE counted, fetch_headers returns none that is not
\* among the `limit` most recent ones, also when mail is delivered or
\* expunged before FETCH, which names messages by sequence number.
FetchIsRecent ==
    \A t \in Tasks :
        Returned(t, "fetch") /\ call[t].limit \notin {NoLimit, 0}
            => \A u \in result[t].uids \cap seen[t] :
                 Cardinality({v \in seen[t] : v > u}) < call[t].limit

\* lib.rs: "Move `uid` from `from_folder` to `to_folder`."  When the call
\* returned Ok, the message is no longer in `from_folder`.
OkMeansMoved ==
    \A t \in Tasks :
        Returned(t, "move") /\ call[t].from # call[t].to
            => call[t].uid \notin Uids(mail[call[t].from])

\* rust_imap.rs: "limit=Some(N) -> fetch the most recent N".  No more than N
\* headers are returned.
FetchKeepsLimit ==
    \A t \in Tasks :
        Returned(t, "fetch") /\ call[t].limit # NoLimit
            => Cardinality(result[t].uids) <= call[t].limit

================================================================================
