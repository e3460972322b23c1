----------------------------- MODULE FolderListing -----------------------------
(***************************************************************************)
(* What the command line and the desktop application do with the IMAP      *)
(* backend (thundercrab-imap/src/rust_imap.rs): connect, log in, list the  *)
(* folders or fetch headers, log out.  Every task has a session of its     *)
(* own; the mailboxes behind them change while a listing is on its way,    *)
(* which is one LIST and then one STATUS per folder.                       *)
(*                                                                         *)
(* The commands on messages are in ImapBackend; fetch_headers is here no   *)
(* more than its success or its error.                                     *)
(***************************************************************************)
EXTENDS Naturals, FiniteSets

CONSTANTS
    Programs,       \* processes on the user's machine
    Slots,          \* the tasks of one process
    Accounts,
    Blank,          \* the account of an empty form, at no server
    Folders

ASSUME BlankAssumption == Blank \in Accounts

Tasks == Programs \X Slots

NoTask == [at |-> "none"]

\* secret: the password given is not empty.  todo: names LIST returned and
\* STATUS has yet to be asked for.  whole is history: LIST named every folder.
Session ==
    [at : {"connect", "login", "list", "status", "fetch", "logout"},
     op : {"list", "fetch"}, account : Accounts, secret : BOOLEAN,
     todo : SUBSET Folders, listed : SUBSET Folders, whole : BOOLEAN]

Outcome ==
    [at : {"returned"}, ok : BOOLEAN, op : {"list", "fetch"}, account : Accounts,
     listed : SUBSET Folders, whole : BOOLEAN]

VARIABLES
    mailboxes,      \* server: the folders of each account
    task,           \* the call each task is in, or what it returned
    lasting         \* history: folders there was at no time of the call without

listing_vars == <<mailboxes, task, lasting>>

ListingInit ==
    /\ mailboxes = [a \in Accounts |-> IF a = Blank THEN {} ELSE Folders]
    /\ task = [t \in Tasks |-> NoTask]
    /\ lasting = [t \in Tasks |-> {}]

Start(t, op, account, secret) ==
    /\ task[t] = NoTask
    /\ task' = [task EXCEPT ![t] = [at |-> "connect", op |-> op, account |-> account,
                                    secret |-> secret, todo |-> {}, listed |-> {},
                                    whole |-> FALSE]]
    /\ lasting' = [lasting EXCEPT ![t] = mailboxes[account]]
    /\ UNCHANGED mailboxes

Become(t, session) ==
    /\ task' = [task EXCEPT ![t] = session]
    /\ UNCHANGED <<mailboxes, lasting>>

Result(t, ok) ==
    [at |-> "returned", ok |-> ok, op |-> task[t].op, account |-> task[t].account,
     listed |-> IF ok THEN task[t].listed ELSE {}, whole |-> task[t].whole]

\* An error drops the session without LOGOUT.
Fail(t) == Become(t, Result(t, FALSE))

\* TCP and TLS.
Reach(t) ==
    /\ task[t].at = "connect"
    /\ \/ task[t].account # Blank /\ Become(t, [task[t] EXCEPT !.at = "login"])
       \/ Fail(t)

\* A rejected LOGIN, and an empty password always is, a bad greeting and a
\* lost connection: all of them are Auth.
Login(t) ==
    /\ task[t].at = "login"
    /\ (task[t].secret /\ Become(t, [task[t] EXCEPT !.at = task[t].op])) \/ Fail(t)

\* LIST "" "*".  The names are read until their stream ends.  A LIST that is
\* refused or interrupted may be no more than an early end to it, and the
\* answer's own OK or NO is not looked at.
List(t) ==
    LET names == mailboxes[task[t].account]
    IN  /\ task[t].at = "list"
        /\ \/ \E part \in SUBSET names :
                 Become(t, [task[t] EXCEPT !.at = "status", !.todo = part,
                                           !.whole = (part = names)])
           \/ Fail(t)

\* Wrong variant (mutation runs): a folder whose STATUS fails is left out.
StatusOrSkip(t) ==
    /\ task[t].at = "status" /\ task[t].todo # {}
    /\ \E f \in task[t].todo :
          \/ /\ f \in mailboxes[task[t].account]
             /\ Become(t, [task[t] EXCEPT !.todo = @ \ {f}, !.listed = @ \cup {f}])
          \/ Become(t, [task[t] EXCEPT !.todo = @ \ {f}])

\* One folder's STATUS: NO if the folder is gone, or for a reason of the
\* server's, and then nothing is listed at all.
Status(t) ==
    /\ task[t].at = "status" /\ task[t].todo # {}
    /\ \E f \in task[t].todo :
          \/ /\ f \in mailboxes[task[t].account]
             /\ Become(t, [task[t] EXCEPT !.todo = @ \ {f}, !.listed = @ \cup {f}])
          \/ Fail(t)

Listed(t) ==
    /\ task[t].at = "status" /\ task[t].todo = {}
    /\ Become(t, [task[t] EXCEPT !.at = "logout"])

\* fetch_headers, as a whole.
Fetch(t) ==
    /\ task[t].at = "fetch"
    /\ Become(t, [task[t] EXCEPT !.at = "logout"]) \/ Fail(t)

\* Best effort: whatever becomes of it, the call has its result.
Logout(t) ==
    /\ task[t].at = "logout"
    /\ Become(t, Result(t, TRUE))

RunTask(t) ==
    Reach(t) \/ Login(t) \/ List(t) \/ Status(t) \/ Listed(t) \/ Fetch(t) \/ Logout(t)

\* Other clients of the account make and delete folders.
ChangeMailboxes(account, folder) ==
    /\ account # Blank
    /\ mailboxes' = [mailboxes EXCEPT ![account] =
                        IF folder \in @ THEN @ \ {folder} ELSE @ \cup {folder}]
    /\ lasting' = [t \in Tasks |->
                      IF task[t].at \notin {"none", "returned"} /\ task[t].account = account
                      THEN lasting[t] \ {folder}
                      ELSE lasting[t]]
    /\ UNCHANGED task

--------------------------------------------------------------------------------
(* Properties. *)

ListingTypeOK ==
    /\ mailboxes \in [Accounts -> SUBSET Folders]
    /\ task \in [Tasks -> Session \cup Outcome \cup {NoTask}]
    /\ lasting \in [Tasks -> SUBSET Folders]

Succeeded(t) == task[t].at = "returned" /\ task[t].ok /\ task[t].op = "list"

\* Where LIST was answered in full, list_folders returns every folder or an
\* error: one that existed throughout a successful listing is in it,
\* although the folders around it come and go between LIST and the STATUS
\* of each, and any STATUS may fail (rust_imap.rs:150-157).
AnsweredListIsWhole ==
    \A t \in Tasks :
        Succeeded(t) /\ task[t].whole => lasting[t] \subseteq task[t].listed

\* lib.rs:112, "List all folders the user can see": whatever became of LIST,
\* a folder that existed throughout a successful listing is in it.
ListingIsWhole ==
    \A t \in Tasks : Succeeded(t) => lasting[t] \subseteq task[t].listed

================================================================================
