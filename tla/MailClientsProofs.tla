--------------------------- MODULE MailClientsProofs ---------------------------
(***************************************************************************)
(* What holds of the programs of one user together, for any number of      *)
(* them, any accounts, folders, scripts and invocations: lemmas about      *)
(* listings, and those of ManageSieveProofs, composed with what a program  *)
(* knows of the calls it makes.                                            *)
(*                                                                         *)
(* CrabInv says which calls an invocation may have out at each point and   *)
(* what they may have done; AppInv that the tasks in flight are those of   *)
(* the one attempt, or of the one invocation, that the program is in.      *)
(***************************************************************************)
EXTENDS MailClients, ManageSieveProofs, FiniteSetTheorems

--------------------------------------------------------------------------------
(* Listings: what their steps, and the clients that change the folders     *)
(* under them, preserve.  A folder that has been there since the listing   *)
(* began is still there, so a whole answer to LIST cannot leave it out,    *)
(* and after that it is either still to be asked for or in the listing.    *)

Unfinished(t) == task[t].at \notin {"none", "returned"}

TaskInv(t) ==
    /\ Unfinished(t) => lasting[t] \subseteq mailboxes[task[t].account]
    /\ task[t].at = "status" /\ task[t].whole =>
          lasting[t] \subseteq task[t].todo \cup task[t].listed
    /\ task[t].at = "fetch" => task[t].op = "fetch"
    /\ task[t].at = "logout" /\ task[t].op = "list" /\ task[t].whole =>
          lasting[t] \subseteq task[t].listed
    /\ task[t].at = "returned" /\ ~task[t].ok => task[t].listed = {}
    /\ Succeeded(t) /\ task[t].whole => lasting[t] \subseteq task[t].listed

ListingInv == ListingTypeOK /\ \A t \in Tasks : TaskInv(t)

LEMMA NoTaskInv == ASSUME NEW t, task[t] = NoTask PROVE TaskInv(t)
BY DEF TaskInv, Succeeded, Unfinished, NoTask

LEMMA TaskKept ==
    ASSUME NEW t \in Tasks, TaskInv(t), task'[t] = task[t], lasting'[t] = lasting[t],
           UNCHANGED mailboxes
    PROVE  TaskInv(t)'
BY DEF TaskInv, Succeeded, Unfinished

LEMMA BecomeKeeps ==
    ASSUME ListingInv, NEW t \in Tasks, NEW session \in Session \cup Outcome,
           Become(t, session), TaskInv(t)'
    PROVE  ListingInv'
<1>1. ListingTypeOK'
  BY DEF ListingInv, ListingTypeOK, Become
<1>2. ASSUME NEW u \in Tasks, u # t PROVE TaskInv(u)'
  BY <1>2, TaskKept DEF ListingInv, ListingTypeOK, Become
<1> QED BY <1>1, <1>2 DEF ListingInv

\* Every step of a call ends in another session or in a result.
LEMMA FailKeeps ==
    ASSUME ListingInv, NEW t \in Tasks, task[t] \in Session, Fail(t)
    PROVE  ListingInv' /\ task' = [task EXCEPT ![t] = Result(t, FALSE)]
<1>1. Result(t, FALSE) \in Outcome
  BY DEF Result, Session, Outcome
<1>2. task'[t] = Result(t, FALSE)
  BY DEF Fail, Become, ListingInv, ListingTypeOK
<1>3. TaskInv(t)'
  BY <1>2 DEF TaskInv, Succeeded, Unfinished, Result
<1> QED BY <1>1, <1>3, BecomeKeeps DEF Fail, Become

\* A call that runs is a session, and a session or a result when it has run.
LEMMA RunTaskRuns ==
    ASSUME ListingTypeOK, NEW t \in Tasks, RunTask(t)
    PROVE  /\ task[t] \in Session /\ UNCHANGED <<mailboxes, lasting>>
           /\ \E s \in Session \cup Outcome : task' = [task EXCEPT ![t] = s]
<1>1. task[t].at \in {"connect", "login", "list", "status", "fetch", "logout"}
  BY DEF RunTask, Reach, Login, List, Status, Listed, Fetch, Logout
<1>2. task[t] \in Session
  BY <1>1 DEF ListingTypeOK, Outcome, NoTask
<1>3. UNCHANGED <<mailboxes, lasting>>
  BY DEF RunTask, Reach, Login, List, Status, Listed, Fetch, Logout, Fail, Become
<1> DEFINE Becomes == \E s \in Session \cup Outcome : task' = [task EXCEPT ![t] = s]
<1>4. \A ok \in BOOLEAN : Result(t, ok) \in Outcome
  BY <1>2 DEF Result, Session, Outcome
<1>5. \A at \in {"login", "list", "fetch", "logout"} : [task[t] EXCEPT !.at = at] \in Session
  BY <1>2 DEF Session
<1>6. Fail(t) => Becomes
  BY <1>4 DEF Fail, Become
<1> SUFFICES Becomes
  BY <1>2, <1>3
<1>7. CASE Reach(t)
  BY <1>5, <1>6, <1>7 DEF Reach, Become
<1>8. CASE Login(t)
  <2>1. task[t].op \in {"login", "list", "fetch", "logout"}
    BY <1>2 DEF Session
  <2> QED BY <1>5, <1>6, <1>8, <2>1 DEF Login, Become
<1>9. CASE List(t)
  <2>1. mailboxes[task[t].account] \in SUBSET Folders
    BY <1>2 DEF Session, ListingTypeOK
  <2>2. \A part \in SUBSET Folders, w \in BOOLEAN :
           [task[t] EXCEPT !.at = "status", !.todo = part, !.whole = w] \in Session
    BY <1>2 DEF Session
  <2>3. CASE Fail(t)
    BY <1>6, <2>3
  <2>4. CASE ~Fail(t)
    <3>1. PICK part \in SUBSET mailboxes[task[t].account] :
             Become(t, [task[t] EXCEPT !.at = "status", !.todo = part,
                                       !.whole = (part = mailboxes[task[t].account])])
      BY <1>9, <2>4 DEF List
    <3>2. part \in SUBSET Folders /\ (part = mailboxes[task[t].account]) \in BOOLEAN
      BY <2>1
    <3> QED BY <2>2, <3>1, <3>2 DEF Become
  <2> QED BY <2>3, <2>4
<1>10. CASE Status(t)
  <2>1. \A f \in task[t].todo :
           [task[t] EXCEPT !.todo = @ \ {f}, !.listed = @ \cup {f}] \in Session
    BY <1>2 DEF Session
  <2> QED BY <1>6, <1>10, <2>1 DEF Status, Become
<1>11. CASE Listed(t)
  BY <1>5, <1>11 DEF Listed, Become
<1>12. CASE Fetch(t)
  BY <1>5, <1>6, <1>12 DEF Fetch, Become
<1>13. CASE Logout(t)
  BY <1>4, <1>13 DEF Logout, Become
<1> QED BY <1>7, <1>8, <1>9, <1>10, <1>11, <1>12, <1>13 DEF RunTask

LEMMA RunTaskKeeps == ASSUME ListingInv, NEW t \in Tasks, RunTask(t) PROVE ListingInv'
<1>1. ListingTypeOK /\ TaskInv(t) /\ task[t] \in Session /\ UNCHANGED <<mailboxes, lasting>>
  BY RunTaskRuns DEF ListingInv
<1>2. PICK s \in Session \cup Outcome : task' = [task EXCEPT ![t] = s]
  BY <1>1, RunTaskRuns
<1>3. task'[t] = s
  BY <1>1, <1>2 DEF ListingTypeOK
<1>4. Become(t, s)
  BY <1>1, <1>2 DEF Become
<1>5. SUFFICES TaskInv(t)'
  BY <1>4, BecomeKeeps
<1>6. Fail(t) => TaskInv(t)'
  BY <1>1, FailKeeps DEF ListingInv
<1>7. CASE Reach(t)
  <2>1. CASE Become(t, [task[t] EXCEPT !.at = "login"])
    <3>1. task'[t] = [task[t] EXCEPT !.at = "login"] /\ task[t].at = "connect"
      BY <1>1, <1>7, <2>1 DEF Become, ListingTypeOK, Reach
    <3> QED BY <1>1, <3>1 DEF TaskInv, Succeeded, Unfinished, Session
  <2> QED BY <1>6, <1>7, <2>1 DEF Reach
<1>8. CASE Login(t)
  <2>1. CASE Become(t, [task[t] EXCEPT !.at = task[t].op])
    <3>1. task'[t] = [task[t] EXCEPT !.at = task[t].op] /\ task[t].at = "login"
      BY <1>1, <1>8, <2>1 DEF Become, ListingTypeOK, Login
    <3> QED BY <1>1, <3>1 DEF TaskInv, Succeeded, Unfinished, Session
  <2> QED BY <1>6, <1>8, <2>1 DEF Login
<1>9. CASE List(t)
  <2>1. CASE ~Fail(t)
    <3>1. PICK part :
             Become(t, [task[t] EXCEPT !.at = "status", !.todo = part,
                                       !.whole = (part = mailboxes[task[t].account])])
      BY <1>9, <2>1 DEF List
    <3>2. /\ task'[t] = [task[t] EXCEPT !.at = "status", !.todo = part,
                                        !.whole = (part = mailboxes[task[t].account])]
          /\ task[t].at = "list"
      BY <1>1, <1>9, <3>1 DEF Become, ListingTypeOK, List
    <3>3. lasting[t] \subseteq mailboxes[task[t].account]
      BY <1>1, <3>2 DEF TaskInv, Succeeded, Unfinished
    <3>4. /\ task'[t].at = "status" /\ task'[t].todo = part
          /\ task'[t].account = task[t].account
          /\ task'[t].whole => part = mailboxes[task[t].account]
      BY <1>1, <3>2 DEF Session
    <3> QED BY <1>1, <3>3, <3>4 DEF TaskInv, Succeeded, Unfinished
  <2> QED BY <1>6, <2>1
<1>10. CASE Status(t)
  <2>1. PICK f \in task[t].todo :
           \/ Become(t, [task[t] EXCEPT !.todo = @ \ {f}, !.listed = @ \cup {f}])
           \/ Fail(t)
    BY <1>10 DEF Status
  <2>2. CASE Become(t, [task[t] EXCEPT !.todo = @ \ {f}, !.listed = @ \cup {f}])
    <3>1. /\ task'[t] = [task[t] EXCEPT !.todo = @ \ {f}, !.listed = @ \cup {f}]
          /\ task[t].at = "status"
      BY <1>1, <1>10, <2>2 DEF Become, ListingTypeOK, Status
    <3>2. /\ lasting[t] \subseteq mailboxes[task[t].account]
          /\ task[t].whole => lasting[t] \subseteq task[t].todo \cup task[t].listed
      BY <1>1, <3>1 DEF TaskInv, Succeeded, Unfinished
    <3>3. task[t].whole =>
             lasting[t] \subseteq (task[t].todo \ {f}) \cup (task[t].listed \cup {f})
      BY <3>2
    <3> QED BY <1>1, <3>1, <3>2, <3>3 DEF TaskInv, Succeeded, Unfinished, Session
  <2> QED BY <1>6, <2>1, <2>2
<1>11. CASE Listed(t)
  <2>1. task'[t] = [task[t] EXCEPT !.at = "logout"] /\ task[t].at = "status" /\ task[t].todo = {}
    BY <1>1, <1>11 DEF Become, ListingTypeOK, Listed
  <2>2. /\ lasting[t] \subseteq mailboxes[task[t].account]
        /\ task[t].whole => lasting[t] \subseteq task[t].listed
    BY <1>1, <2>1 DEF TaskInv, Succeeded, Unfinished
  <2> QED BY <1>1, <2>1, <2>2 DEF TaskInv, Succeeded, Unfinished, Session
<1>12. CASE Fetch(t)
  <2>1. CASE Become(t, [task[t] EXCEPT !.at = "logout"])
    <3>1. task'[t] = [task[t] EXCEPT !.at = "logout"] /\ task[t].at = "fetch"
      BY <1>1, <1>12, <2>1 DEF Become, ListingTypeOK, Fetch
    <3> QED BY <1>1, <3>1 DEF TaskInv, Succeeded, Unfinished, Session
  <2> QED BY <1>6, <1>12, <2>1 DEF Fetch
<1>13. CASE Logout(t)
  <2>1. task'[t] = Result(t, TRUE) /\ task[t].at = "logout"
    BY <1>1, <1>13 DEF Become, ListingTypeOK, Logout
  <2> QED BY <1>1, <2>1 DEF TaskInv, Succeeded, Unfinished, Result
<1> QED BY <1>7, <1>8, <1>9, <1>10, <1>11, <1>12, <1>13 DEF RunTask

LEMMA StartKeeps ==
    ASSUME ListingInv, NEW t \in Tasks, NEW op \in {"list", "fetch"}, NEW account \in Accounts,
           NEW secret \in BOOLEAN, Start(t, op, account, secret)
    PROVE  ListingInv'
<1> DEFINE session == [at |-> "connect", op |-> op, account |-> account, secret |-> secret,
                       todo |-> {}, listed |-> {}, whole |-> FALSE]
<1>1. ListingTypeOK /\ session \in Session
  BY DEF ListingInv, Session
<1>2. task' = [task EXCEPT ![t] = session] /\ mailboxes' = mailboxes
  BY DEF Start
<1>3. lasting' = [lasting EXCEPT ![t] = mailboxes[account]]
  BY DEF Start
<1>4. session.at = "connect" /\ session.account = account
  OBVIOUS
<1> HIDE DEF session
<1>5. ListingTypeOK'
  <2>1. task' \in [Tasks -> Session \cup Outcome \cup {NoTask}]
    BY <1>1, <1>2 DEF ListingTypeOK
  <2>2. lasting' \in [Tasks -> SUBSET Folders]
    BY <1>1, <1>3 DEF ListingTypeOK
  <2> QED BY <1>1, <1>2, <2>1, <2>2 DEF ListingTypeOK
<1>6. TaskInv(t)'
  <2>1. task'[t] = session /\ lasting'[t] = mailboxes[account]
    BY <1>1, <1>2, <1>3 DEF ListingTypeOK
  <2> QED BY <1>2, <1>4, <2>1 DEF TaskInv, Succeeded, Unfinished
<1>7. ASSUME NEW u \in Tasks, u # t PROVE TaskInv(u)'
  BY <1>1, <1>2, <1>3, <1>7, TaskKept DEF ListingInv, ListingTypeOK
<1> QED BY <1>5, <1>6, <1>7 DEF ListingInv

LEMMA ChangeMailboxesKeeps ==
    ASSUME ListingInv, NEW account \in Accounts, NEW folder \in Folders,
           ChangeMailboxes(account, folder)
    PROVE  ListingInv'
<1>1. ListingTypeOK /\ UNCHANGED task
  BY DEF ListingInv, ChangeMailboxes
<1>2. mailboxes' \in [Accounts -> SUBSET Folders]
  BY <1>1 DEF ListingTypeOK, ChangeMailboxes
<1>3. \A u \in Tasks : lasting'[u] \subseteq lasting[u] /\ lasting'[u] \in SUBSET Folders
  BY <1>1 DEF ListingTypeOK, ChangeMailboxes
<1>4. lasting' \in [Tasks -> SUBSET Folders]
  BY <1>3 DEF ChangeMailboxes
<1>5. ASSUME NEW u \in Tasks, Unfinished(u)
      PROVE  lasting'[u] \subseteq mailboxes'[task[u].account]
  <2>1. lasting[u] \subseteq mailboxes[task[u].account]
    BY <1>5 DEF ListingInv, TaskInv
  <2>2. CASE task[u].account = account
    <3>1. lasting'[u] = lasting[u] \ {folder}
      BY <1>5, <2>2 DEF ChangeMailboxes, Unfinished
    <3>2. mailboxes[account] \ {folder} \subseteq mailboxes'[account]
      BY <1>1 DEF ListingTypeOK, ChangeMailboxes
    <3> QED BY <2>1, <2>2, <3>1, <3>2
  <2>3. CASE task[u].account # account
    <3>1. task[u].account \in Accounts
      BY <1>1, <1>5 DEF ListingTypeOK, Unfinished, Session, Outcome, NoTask
    <3>2. mailboxes'[task[u].account] = mailboxes[task[u].account]
      BY <1>1, <2>3, <3>1 DEF ListingTypeOK, ChangeMailboxes
    <3> QED BY <1>3, <2>1, <3>2
  <2> QED BY <2>2, <2>3
<1>6. ASSUME NEW u \in Tasks PROVE TaskInv(u)'
  BY <1>1, <1>3, <1>5 DEF ListingInv, TaskInv, Succeeded, Unfinished
<1> QED BY <1>1, <1>2, <1>4, <1>6 DEF ListingInv, ListingTypeOK

\* A result is handed over, or the process that made the call is gone.
LEMMA TasksDropped ==
    ASSUME ListingInv, NEW gone \in SUBSET Tasks,
           task' = [t \in Tasks |-> IF t \in gone THEN NoTask ELSE task[t]],
           UNCHANGED <<mailboxes, lasting>>
    PROVE  ListingInv'
<1>1. ListingTypeOK'
  BY DEF ListingInv, ListingTypeOK
<1>2. ASSUME NEW u \in Tasks PROVE TaskInv(u)'
  <2>1. CASE u \in gone
    BY <2>1, NoTaskInv DEF TaskInv, Succeeded, Unfinished, NoTask
  <2>2. CASE u \notin gone
    BY <2>2, TaskKept DEF ListingInv
  <2> QED BY <2>1, <2>2
<1> QED BY <1>1, <1>2 DEF ListingInv

LEMMA TaskDropped ==
    ASSUME ListingInv, NEW t \in Tasks, task' = [task EXCEPT ![t] = NoTask],
           UNCHANGED <<mailboxes, lasting>>
    PROVE  /\ ListingInv' /\ task'[t] = NoTask
           /\ \A u \in Tasks : u # t => task'[u] = task[u]
<1>1. task' = [u \in Tasks |-> IF u \in {t} THEN NoTask ELSE task[u]]
  BY DEF ListingInv, ListingTypeOK
<1>2. ListingInv'
  BY <1>1, TasksDropped
<1> QED BY <1>1, <1>2

LEMMA ListingUnchanged == ASSUME ListingInv, UNCHANGED listing_vars PROVE ListingInv'
<1>1. UNCHANGED <<mailboxes, task, lasting>>
  BY DEF listing_vars
<1>2. ASSUME NEW u \in Tasks PROVE TaskInv(u)'
  BY <1>1, TaskKept DEF ListingInv
<1> QED BY <1>1, <1>2 DEF ListingInv, ListingTypeOK

LEMMA ListingStarts == ASSUME ListingInit PROVE ListingInv
<1>1. \A t \in Tasks : task[t] = NoTask
  BY DEF ListingInit
<1>2. ListingTypeOK
  BY DEF ListingInit, ListingTypeOK
<1> QED BY <1>1, <1>2, NoTaskInv DEF ListingInv

\* A folder that existed throughout a successful listing is in it, if LIST
\* was answered in full.
LEMMA ListingHolds == ASSUME ListingInv PROVE AnsweredListIsWhole
BY DEF ListingInv, TaskInv, AnsweredListIsWhole

--------------------------------------------------------------------------------
(* Programs. *)

\* No call is out but that of the point an invocation has reached, and no
\* flaw but the one that is still to be looked for.
CrabInv(p) ==
    /\ crab[p].at # "pushing" => stage[p] = "idle"
    /\ crab[p].at \in {"start", "listing", "composing", "submitting", "answering"} => done[p] = {}
    /\ crab[p].at \in {"start", "listing", "pushing", "composing", "submitting"} =>
          crab[p].accepted = 0
    /\ crab[p].at = "answering" => crab[p].accepted = 1
    /\ crab[p].at \in {"listing", "pushing", "submitting", "answering"} => crab[p].run.flaws = {}
    /\ crab[p].at = "composing" => crab[p].run.flaws \subseteq {"mailbox"}
    /\ crab[p].at = "listing" => crab[p].run.command \in {"list", "fetch"}
    /\ crab[p].at = "pushing" => crab[p].run.command = "push"
    /\ crab[p].at \in {"composing", "submitting", "answering"} => crab[p].run.command = "send"

Honest(p) ==
    crab[p].at = "exited" =>
        /\ crab[p].exit = "success" /\ crab[p].run.command = "push" =>
              {"authenticate", "putscript", "setactive"} \subseteq done[p]
        /\ crab[p].exit = "success" /\ crab[p].run.command = "send" => crab[p].accepted = 1
        /\ crab[p].run.flaws # {} =>
              crab[p].exit # "success" /\ done[p] = {} /\ crab[p].accepted = 0

\* The tasks of a program are those of the attempt, or the listing, it is in.
AppInv(p) ==
    /\ app[p].open => crab[p].at = "none"
    /\ ~app[p].open => InFlight(p) \subseteq IF crab[p].at = "listing" THEN {Main(p)} ELSE {}
    /\ app[p].open /\ app[p].connecting => \E t \in TasksOf(p) : InFlight(p) = {t}
    /\ app[p].open /\ ~app[p].connecting => InFlight(p) = {}

Shown(p) ==
    app[p].open /\ app[p].shown # {} =>
        /\ app[p].last.ok
        /\ app[p].shown = app[p].last.listed
        /\ app[p].shown_of = app[p].last.account

ClientsInv ==
    /\ ListingInv
    /\ SieveInv
    /\ CrabTypeOK
    /\ AppTypeOK
    /\ \A p \in Programs : CrabInv(p)
    /\ \A p \in Programs : Honest(p)
    /\ \A p \in Programs : AppInv(p)
    /\ \A p \in Programs : Shown(p)

--------------------------------------------------------------------------------
(* What a step leaves alone. *)

\* A step of another program.
Elsewhere(q) ==
    /\ crab'[q] = crab[q] /\ app'[q] = app[q] /\ stage'[q] = stage[q] /\ done'[q] = done[q]
    /\ \A t \in TasksOf(q) : task'[t] = task[t]

LEMMA ElsewhereKeeps ==
    ASSUME NEW q \in Programs, CrabInv(q), Honest(q), AppInv(q), Shown(q), Elsewhere(q)
    PROVE  CrabInv(q)' /\ Honest(q)' /\ AppInv(q)' /\ Shown(q)'
<1>1. CrabInv(q)'
  BY DEF Elsewhere, CrabInv
<1>2. Honest(q)'
  BY DEF Elsewhere, Honest
<1>3. InFlight(q)' = InFlight(q)
  BY DEF Elsewhere, InFlight
<1>4. AppInv(q)'
  BY <1>3 DEF Elsewhere, AppInv
<1>5. Shown(q)'
  BY DEF Elsewhere, Shown
<1> QED BY <1>1, <1>2, <1>4, <1>5

LEMMA StepOfProgram ==
    ASSUME ClientsInv, NEW p \in Programs, ListingInv', SieveInv', CrabTypeOK', AppTypeOK',
           CrabInv(p)', Honest(p)', AppInv(p)', Shown(p)',
           \A q \in Programs : q # p => Elsewhere(q)
    PROVE  ClientsInv'
<1>1. ASSUME NEW q \in Programs, q # p
      PROVE  CrabInv(q)' /\ Honest(q)' /\ AppInv(q)' /\ Shown(q)'
  BY <1>1, ElsewhereKeeps DEF ClientsInv
<1> QED BY <1>1 DEF ClientsInv

\* The window is open or it is not.
LEMMA OpenOrNot ==
    ASSUME AppTypeOK, NEW p \in Programs
    PROVE  /\ app[p].open <=> app[p] # NoApp
           /\ app[p].open <=> app[p] \in App
           /\ app[p].open \in BOOLEAN
<1>1. \A a \in App : a.open = TRUE
  BY DEF App
<1>2. NoApp.open = FALSE
  BY DEF NoApp
<1>3. app[p] \in App \/ app[p] = NoApp
  BY DEF AppTypeOK
<1>4. TRUE # FALSE
  OBVIOUS
<1>5. CASE app[p] \in App
  <2>1. app[p].open = TRUE
    BY <1>1, <1>5
  <2>2. app[p] # NoApp
    BY <1>2, <1>4, <2>1
  <2> QED BY <1>5, <2>1, <2>2
<1>6. CASE app[p] = NoApp
  <2>1. app[p].open = FALSE
    BY <1>2, <1>6
  <2>2. app[p] \notin App
    BY <1>1, <1>4, <2>1
  <2> QED BY <1>6, <2>1, <2>2
<1> QED BY <1>3, <1>5, <1>6

LEMMA CrabOrNot ==
    ASSUME CrabTypeOK, NEW p \in Programs, crab[p].at # "none"
    PROVE  crab[p] \in Crab
BY DEF CrabTypeOK, NoCrab

LEMMA GoesTo ==
    ASSUME CrabTypeOK, NEW p \in Programs, crab[p].at # "none",
           NEW at \in {"listing", "pushing", "composing", "submitting"}, Goes(p, at)
    PROVE  /\ CrabTypeOK'
           /\ crab'[p].at = at /\ crab'[p].run = crab[p].run
           /\ crab'[p].exit = crab[p].exit /\ crab'[p].accepted = crab[p].accepted
           /\ \A q \in Programs : q # p => crab'[q] = crab[q]
<1>1. crab[p] \in Crab
  BY CrabOrNot
<1>2. crab' = [crab EXCEPT ![p] = [crab[p] EXCEPT !.at = at]]
  BY DEF Goes
<1>3. [crab[p] EXCEPT !.at = at] \in Crab
  BY <1>1 DEF Crab
<1>4. crab'[p] = [crab[p] EXCEPT !.at = at]
  BY <1>2 DEF CrabTypeOK
<1>5. CrabTypeOK'
  BY <1>2, <1>3 DEF CrabTypeOK
<1> QED BY <1>1, <1>2, <1>4, <1>5 DEF CrabTypeOK, Crab

LEMMA ExitsWith ==
    ASSUME CrabTypeOK, NEW p \in Programs, crab[p].at # "none",
           NEW how \in {"success", "failure", "killed"}, Exits(p, how)
    PROVE  /\ CrabTypeOK'
           /\ crab'[p].at = "exited" /\ crab'[p].run = crab[p].run
           /\ crab'[p].exit = how /\ crab'[p].accepted = crab[p].accepted
           /\ \A q \in Programs : q # p => crab'[q] = crab[q]
<1>1. crab[p] \in Crab
  BY CrabOrNot
<1>2. crab' = [crab EXCEPT ![p] = [crab[p] EXCEPT !.at = "exited", !.exit = how]]
  BY DEF Exits
<1>3. [crab[p] EXCEPT !.at = "exited", !.exit = how] \in Crab
  BY <1>1 DEF Crab
<1>4. crab'[p] = [crab[p] EXCEPT !.at = "exited", !.exit = how]
  BY <1>2 DEF CrabTypeOK
<1>5. CrabTypeOK'
  BY <1>2, <1>3 DEF CrabTypeOK
<1> QED BY <1>1, <1>2, <1>4, <1>5 DEF CrabTypeOK, Crab

\* An invocation that passed the first checks.
LEMMA SoundRun ==
    ASSUME CrabTypeOK, NEW p \in Programs, NEW commands, Sound(p, commands)
    PROVE  /\ crab[p].at = "start" /\ crab[p].run.command \in commands
           /\ crab[p].run.flaws \subseteq {"mailbox"}
           /\ crab[p].run.command \in {"list", "fetch", "push"} => crab[p].run.flaws = {}
           /\ crab[p].run.command = "push" =>
                 crab[p].run.name \in ScriptNames /\ crab[p].run.script \in Scripts
<1>1. /\ crab[p].at = "start" /\ crab[p].run.command \in commands
      /\ crab[p].run.flaws \subseteq {"mailbox"}
  BY DEF Sound
<1>2. crab[p].run \in Invocation
  BY <1>1, CrabOrNot DEF Crab
<1>3. PICK run : run = crab[p].run
  OBVIOUS
<1>4. /\ run.command \in {"list", "fetch", "push"} => "mailbox" \notin run.flaws
      /\ run.command = "push" => run.name \in ScriptNames /\ run.script \in Scripts
  BY <1>2, <1>3 DEF Invocation
<1> QED BY <1>1, <1>3, <1>4

\* What is known of a program whose window is not open.
LEMMA NoWindow ==
    ASSUME ClientsInv, NEW p \in Programs, crab[p].at # "none"
    PROVE  /\ app[p].open = FALSE
           /\ InFlight(p) \subseteq IF crab[p].at = "listing" THEN {Main(p)} ELSE {}
           /\ \A t \in TasksOf(p) : t # Main(p) => task[t] = NoTask
           /\ crab[p].at # "listing" => \A t \in TasksOf(p) : task[t] = NoTask
<1>1. app[p].open = FALSE
  BY OpenOrNot DEF ClientsInv, AppInv
<1>2. InFlight(p) \subseteq IF crab[p].at = "listing" THEN {Main(p)} ELSE {}
  BY <1>1 DEF ClientsInv, AppInv
<1> QED BY <1>1, <1>2 DEF InFlight

--------------------------------------------------------------------------------
(* The steps of an invocation. *)

\* It only takes note of something.
LEMMA NoteKeeps ==
    ASSUME ClientsInv, NEW p \in Programs, crab[p].at \notin {"none", "listing"},
           UNCHANGED <<listing_vars, sieve_vars, app>>,
           CrabTypeOK', \A q \in Programs : q # p => crab'[q] = crab[q],
           crab'[p].at # "listing", CrabInv(p)', Honest(p)'
    PROVE  ClientsInv'
<1>1. ListingInv' /\ SieveInv' /\ AppTypeOK'
  BY ListingUnchanged, SieveUnchanged DEF ClientsInv, AppTypeOK
<1>2. UNCHANGED <<task, stage, done, app>>
  BY DEF listing_vars, sieve_vars, connection, filters
<1>3. app'[p].open = FALSE /\ InFlight(p)' = {}
  BY <1>2, NoWindow DEF InFlight
<1>4. AppInv(p)' /\ Shown(p)'
  BY <1>3 DEF AppInv, Shown
<1>5. \A q \in Programs : q # p => Elsewhere(q)
  BY <1>2 DEF Elsewhere
<1> QED BY <1>1, <1>4, <1>5, StepOfProgram

LEMMA RejectKeeps ==
    ASSUME ClientsInv, NEW p \in Programs, Reject(p), UNCHANGED app
    PROVE  ClientsInv'
<1>1. /\ CrabTypeOK /\ CrabInv(p) /\ crab[p].at = "start" /\ Exits(p, "failure")
      /\ UNCHANGED <<listing_vars, sieve_vars, app>>
  BY DEF ClientsInv, Reject, crab_world
<1>2. stage'[p] = stage[p] /\ done'[p] = done[p]
  BY <1>1 DEF sieve_vars, connection, filters
<1>3. /\ CrabTypeOK' /\ crab'[p].at = "exited" /\ crab'[p].run = crab[p].run
      /\ crab'[p].exit = "failure" /\ crab'[p].accepted = crab[p].accepted
      /\ \A q \in Programs : q # p => crab'[q] = crab[q]
  BY <1>1, ExitsWith
<1>4. CrabInv(p)' /\ Honest(p)'
  BY <1>1, <1>2, <1>3 DEF CrabInv, Honest
<1> QED BY <1>1, <1>3, <1>4, NoteKeeps

LEMMA PushDoneKeeps ==
    ASSUME ClientsInv, NEW p \in Programs, PushDone(p), UNCHANGED app
    PROVE  ClientsInv'
<1>1. PICK how \in {"success", "failure"} :
         /\ Exits(p, how)
         /\ how = "success" => returned[p] = "ok"
  BY DEF PushDone
<1>2. /\ CrabTypeOK /\ CrabInv(p) /\ crab[p].at = "pushing" /\ returned[p] # "none"
      /\ UNCHANGED <<listing_vars, sieve_vars, app>>
  BY DEF ClientsInv, PushDone, crab_world
<1>3. stage'[p] = stage[p] /\ done'[p] = done[p]
  BY <1>2 DEF sieve_vars, connection, filters
<1>4. /\ CrabTypeOK' /\ crab'[p].at = "exited" /\ crab'[p].run = crab[p].run
      /\ crab'[p].exit = how /\ crab'[p].accepted = crab[p].accepted
      /\ \A q \in Programs : q # p => crab'[q] = crab[q]
  BY <1>1, <1>2, ExitsWith
<1>5. /\ stage[p] = "idle"
      /\ returned[p] = "ok" => {"authenticate", "putscript", "setactive"} \subseteq done[p]
  BY <1>2, CallersAssumption DEF ClientsInv, SieveInv, CallInv, Reported
<1>6. CrabInv(p)' /\ Honest(p)'
  BY <1>1, <1>2, <1>3, <1>4, <1>5 DEF CrabInv, Honest
<1> QED BY <1>2, <1>4, <1>6, NoteKeeps

LEMMA ComposeKeeps ==
    ASSUME ClientsInv, NEW p \in Programs, Compose(p), UNCHANGED app
    PROVE  ClientsInv'
<1>1. /\ CrabTypeOK /\ CrabInv(p) /\ Sound(p, {"send"}) /\ Goes(p, "composing")
      /\ UNCHANGED <<listing_vars, sieve_vars, app>>
  BY DEF ClientsInv, Compose, crab_world
<1>2. /\ crab[p].at = "start" /\ crab[p].run.command = "send"
      /\ crab[p].run.flaws \subseteq {"mailbox"}
  BY <1>1, SoundRun
<1>3. stage'[p] = stage[p] /\ done'[p] = done[p]
  BY <1>1 DEF sieve_vars, connection, filters
<1>4. /\ CrabTypeOK' /\ crab'[p].at = "composing" /\ crab'[p].run = crab[p].run
      /\ crab'[p].accepted = crab[p].accepted
      /\ \A q \in Programs : q # p => crab'[q] = crab[q]
  BY <1>1, <1>2, GoesTo
<1>5. CrabInv(p)' /\ Honest(p)'
  BY <1>1, <1>2, <1>3, <1>4 DEF CrabInv, Honest
<1> QED BY <1>1, <1>2, <1>4, <1>5, NoteKeeps

LEMMA BuildTransportKeeps ==
    ASSUME ClientsInv, NEW p \in Programs, BuildTransport(p), UNCHANGED app
    PROVE  ClientsInv'
<1>1. /\ CrabTypeOK /\ CrabInv(p) /\ crab[p].at = "composing"
      /\ UNCHANGED <<listing_vars, sieve_vars, app>>
  BY DEF ClientsInv, BuildTransport, crab_world
<1>2. stage'[p] = stage[p] /\ done'[p] = done[p]
  BY <1>1 DEF sieve_vars, connection, filters
<1>3. CASE "mailbox" \in crab[p].run.flaws
  <2>1. Exits(p, "failure")
    BY <1>3 DEF BuildTransport
  <2>2. /\ CrabTypeOK' /\ crab'[p].at = "exited" /\ crab'[p].run = crab[p].run
        /\ crab'[p].exit = "failure" /\ crab'[p].accepted = crab[p].accepted
        /\ \A q \in Programs : q # p => crab'[q] = crab[q]
    BY <1>1, <2>1, ExitsWith
  <2>3. CrabInv(p)' /\ Honest(p)'
    BY <1>1, <1>2, <2>2 DEF CrabInv, Honest
  <2> QED BY <1>1, <2>2, <2>3, NoteKeeps
<1>4. CASE "mailbox" \notin crab[p].run.flaws
  <2>1. Goes(p, "submitting")
    BY <1>4 DEF BuildTransport
  <2>2. /\ CrabTypeOK' /\ crab'[p].at = "submitting" /\ crab'[p].run = crab[p].run
        /\ crab'[p].accepted = crab[p].accepted
        /\ \A q \in Programs : q # p => crab'[q] = crab[q]
    BY <1>1, <2>1, GoesTo
  <2>3. CrabInv(p)' /\ Honest(p)'
    BY <1>1, <1>2, <1>4, <2>2 DEF CrabInv, Honest
  <2> QED BY <1>1, <2>2, <2>3, NoteKeeps
<1> QED BY <1>3, <1>4

LEMMA SubmitKeeps ==
    ASSUME ClientsInv, NEW p \in Programs, Submit(p), UNCHANGED app
    PROVE  ClientsInv'
<1>1. /\ CrabTypeOK /\ CrabInv(p) /\ crab[p].at = "submitting"
      /\ UNCHANGED <<listing_vars, sieve_vars, app>>
  BY DEF ClientsInv, Submit, crab_world
<1>2. stage'[p] = stage[p] /\ done'[p] = done[p]
  BY <1>1 DEF sieve_vars, connection, filters
<1>3. CASE Exits(p, "failure")
  <2>1. /\ CrabTypeOK' /\ crab'[p].at = "exited" /\ crab'[p].run = crab[p].run
        /\ crab'[p].exit = "failure" /\ crab'[p].accepted = crab[p].accepted
        /\ \A q \in Programs : q # p => crab'[q] = crab[q]
    BY <1>1, <1>3, ExitsWith
  <2>2. CrabInv(p)' /\ Honest(p)'
    BY <1>1, <1>2, <2>1 DEF CrabInv, Honest
  <2> QED BY <1>1, <2>1, <2>2, NoteKeeps
<1>4. CASE crab' = [crab EXCEPT ![p].at = "answering", ![p].accepted = @ + 1]
  <2>1. crab[p] \in Crab /\ crab[p].accepted = 0
    BY <1>1, CrabOrNot DEF CrabInv
  <2>2. crab' = [crab EXCEPT ![p] = [crab[p] EXCEPT !.at = "answering", !.accepted = 1]]
    <3>1. PICK n : n = crab[p].accepted + 1
      OBVIOUS
    <3>2. n = 1
      BY <2>1, <3>1
    <3>3. crab' = [crab EXCEPT ![p] = [crab[p] EXCEPT !.at = "answering", !.accepted = n]]
      BY <1>4, <3>1
    <3> QED BY <3>2, <3>3
  <2>3. [crab[p] EXCEPT !.at = "answering", !.accepted = 1] \in Crab
    <3>1. 1 \in 0..1
      OBVIOUS
    <3> QED BY <2>1, <3>1 DEF Crab
  <2>4. crab'[p] = [crab[p] EXCEPT !.at = "answering", !.accepted = 1]
    BY <1>1, <2>2 DEF CrabTypeOK
  <2>5. /\ CrabTypeOK' /\ crab'[p].at = "answering" /\ crab'[p].run = crab[p].run
        /\ crab'[p].accepted = 1
        /\ \A q \in Programs : q # p => crab'[q] = crab[q]
    BY <1>1, <2>1, <2>2, <2>3, <2>4 DEF CrabTypeOK, Crab
  <2>6. CrabInv(p)' /\ Honest(p)'
    BY <1>1, <1>2, <2>5 DEF CrabInv, Honest
  <2> QED BY <1>1, <2>5, <2>6, NoteKeeps
<1> QED BY <1>3, <1>4 DEF Submit

LEMMA SubmittedKeeps ==
    ASSUME ClientsInv, NEW p \in Programs, Submitted(p), UNCHANGED app
    PROVE  ClientsInv'
<1>1. /\ CrabTypeOK /\ CrabInv(p) /\ crab[p].at = "answering"
      /\ UNCHANGED <<listing_vars, sieve_vars, app>>
  BY DEF ClientsInv, Submitted, crab_world
<1>2. PICK how \in {"success", "failure"} : Exits(p, how)
  BY DEF Submitted
<1>3. stage'[p] = stage[p] /\ done'[p] = done[p]
  BY <1>1 DEF sieve_vars, connection, filters
<1>4. /\ CrabTypeOK' /\ crab'[p].at = "exited" /\ crab'[p].run = crab[p].run
      /\ crab'[p].exit = how /\ crab'[p].accepted = crab[p].accepted
      /\ \A q \in Programs : q # p => crab'[q] = crab[q]
  BY <1>1, <1>2, ExitsWith
<1>5. CrabInv(p)' /\ Honest(p)'
  BY <1>1, <1>3, <1>4 DEF CrabInv, Honest
<1> QED BY <1>1, <1>4, <1>5, NoteKeeps

\* The task of an invocation is the program's own.
LEMMA MainIsOwn ==
    ASSUME NEW p \in Programs
    PROVE  /\ Main(p) \in Tasks /\ Main(p) \in TasksOf(p)
           /\ \A q \in Programs : q # p => \A t \in TasksOf(q) : t # Main(p)
BY AccountAssumption DEF Main, Tasks, TasksOf

LEMMA OpenKeeps ==
    ASSUME ClientsInv, NEW p \in Programs, Open(p), UNCHANGED app
    PROVE  ClientsInv'
<1>1. /\ ListingInv /\ CrabTypeOK /\ CrabInv(p) /\ Sound(p, {"list", "fetch"})
      /\ Goes(p, "listing") /\ UNCHANGED <<sieve_vars, app>>
  BY DEF ClientsInv, Open
<1>2. PICK secret \in BOOLEAN : Start(Main(p), crab[p].run.command, Account, secret)
  BY DEF Open
<1>3. /\ crab[p].at = "start" /\ crab[p].run.flaws = {}
      /\ crab[p].run.command \in {"list", "fetch"}
  BY <1>1, SoundRun
<1>4. PICK t \in Tasks, op \in {"list", "fetch"} : t = Main(p) /\ op = crab[p].run.command
  BY <1>3, MainIsOwn
<1>5. Start(t, op, Account, secret)
  BY <1>2, <1>4 DEF Start
<1>6. /\ ListingInv' /\ \A u \in Tasks : u # t => task'[u] = task[u]
  BY <1>1, <1>5, StartKeeps, AccountAssumption DEF Start, ListingInv, ListingTypeOK
<1>7. SieveInv' /\ AppTypeOK' /\ stage' = stage /\ done' = done
  BY <1>1, SieveUnchanged DEF ClientsInv, AppTypeOK, sieve_vars, connection, filters
<1>8. /\ CrabTypeOK' /\ crab'[p].at = "listing" /\ crab'[p].run = crab[p].run
      /\ crab'[p].accepted = crab[p].accepted
      /\ \A q \in Programs : q # p => crab'[q] = crab[q]
  BY <1>1, <1>3, GoesTo
<1>9. CrabInv(p)' /\ Honest(p)'
  BY <1>1, <1>3, <1>7, <1>8 DEF CrabInv, Honest
<1>10. AppInv(p)' /\ Shown(p)'
  <2>1. app'[p].open = FALSE /\ \A u \in TasksOf(p) : u # Main(p) => task[u] = NoTask
    BY <1>1, <1>3, NoWindow
  <2>2. InFlight(p)' \subseteq {Main(p)}
    BY <1>4, <1>6, <2>1 DEF InFlight, TasksOf
  <2> QED BY <1>8, <2>1, <2>2 DEF AppInv, Shown
<1>11. ASSUME NEW q \in Programs, q # p PROVE Elsewhere(q)
  <2>1. \A u \in TasksOf(q) : u \in Tasks /\ u # t
    BY <1>4, <1>11, MainIsOwn DEF TasksOf
  <2> QED BY <1>1, <1>6, <1>7, <1>8, <1>11, <2>1 DEF Elsewhere
<1> QED BY <1>6, <1>7, <1>8, <1>9, <1>10, <1>11, StepOfProgram

\* An invocation ends, with the task it may have had.
LEMMA EndKeeps ==
    ASSUME ClientsInv, NEW p \in Programs, crab[p].at # "none",
           NEW how \in {"success", "failure", "killed"}, Exits(p, how),
           task' = [task EXCEPT ![Main(p)] = NoTask], UNCHANGED <<mailboxes, lasting, app>>,
           SieveInv', \A q \in Programs : q # p => stage'[q] = stage[q] /\ done'[q] = done[q],
           stage'[p] = "idle", Honest(p)'
    PROVE  ClientsInv'
<1>1. ListingInv /\ CrabTypeOK /\ AppTypeOK'
  BY DEF ClientsInv, AppTypeOK
<1>2. PICK t \in Tasks : t = Main(p)
  BY MainIsOwn
<1>3. ListingInv' /\ task'[t] = NoTask /\ \A u \in Tasks : u # t => task'[u] = task[u]
  BY <1>1, <1>2, TaskDropped
<1>4. /\ CrabTypeOK' /\ crab'[p].at = "exited"
      /\ \A q \in Programs : q # p => crab'[q] = crab[q]
  BY <1>1, ExitsWith
<1>5. CrabInv(p)'
  BY <1>4 DEF CrabInv
<1>6. AppInv(p)' /\ Shown(p)'
  <2>1. app'[p].open = FALSE /\ \A u \in TasksOf(p) : u # Main(p) => task[u] = NoTask
    BY NoWindow
  <2>2. InFlight(p)' = {}
    BY <1>2, <1>3, <2>1 DEF InFlight, TasksOf
  <2> QED BY <2>1, <2>2 DEF AppInv, Shown
<1>7. ASSUME NEW q \in Programs, q # p PROVE Elsewhere(q)
  <2>1. \A u \in TasksOf(q) : u \in Tasks /\ u # t
    BY <1>2, <1>7, MainIsOwn DEF TasksOf
  <2> QED BY <1>3, <1>4, <1>7, <2>1 DEF Elsewhere
<1> QED BY <1>1, <1>3, <1>4, <1>5, <1>6, <1>7, StepOfProgram

LEMMA ListingDoneKeeps ==
    ASSUME ClientsInv, NEW p \in Programs, ListingDone(p), UNCHANGED app
    PROVE  ClientsInv'
<1>1. /\ CrabTypeOK /\ CrabInv(p) /\ crab[p].at = "listing"
      /\ UNCHANGED <<mailboxes, lasting, sieve_vars, app>>
      /\ task' = [task EXCEPT ![Main(p)] = NoTask]
  BY DEF ClientsInv, ListingDone
<1>2. PICK how \in {"success", "failure"} : Exits(p, how)
  BY DEF ListingDone
<1>3. SieveInv' /\ stage' = stage /\ done' = done
  BY <1>1, SieveUnchanged DEF ClientsInv, sieve_vars, connection, filters
<1>4. crab'[p].run = crab[p].run
  BY <1>1, <1>2, ExitsWith
<1>5. Honest(p)' /\ stage[p] = "idle"
  BY <1>1, <1>4 DEF CrabInv, Honest
<1> QED BY <1>1, <1>2, <1>3, <1>5, EndKeeps

LEMMA DieKeeps ==
    ASSUME ClientsInv, NEW p \in Programs, Die(p), UNCHANGED app
    PROVE  ClientsInv'
<1>1. /\ CrabTypeOK /\ CrabInv(p) /\ SieveInv /\ p \in Callers
      /\ crab[p].at \notin {"none", "start", "exited"} /\ Exits(p, "killed")
      /\ UNCHANGED <<mailboxes, lasting, app>>
      /\ task' = [task EXCEPT ![Main(p)] = NoTask]
  BY CallersAssumption DEF ClientsInv, Die
<1>2. /\ SieveInv' /\ stage'[p] = "idle"
      /\ \A q \in Programs : q # p => stage'[q] = stage[q] /\ done'[q] = done[q]
      /\ crab[p].at # "pushing" => done'[p] = done[p]
  <2>1. CASE stage[p] = "idle"
    <3>1. UNCHANGED sieve_vars
      BY <2>1 DEF Die
    <3> QED BY <1>1, <2>1, <3>1, SieveUnchanged DEF sieve_vars, connection, filters
  <2>2. CASE stage[p] # "idle"
    <3>1. AbandonPush(p)
      BY <2>2 DEF Die
    <3>2. SieveInv'
      BY <1>1, <2>2, <3>1, AbandonPushKeeps
    <3>3. \A q \in Callers : q # p => done'[q] = done[q]
      BY <1>1, <3>1, EffectKeeps DEF AbandonPush, Effect
    <3>4. stage' = [stage EXCEPT ![p] = "idle"]
      BY <3>1 DEF AbandonPush, Return
    <3> QED BY <1>1, <2>2, <3>2, <3>3, <3>4, CallersAssumption
            DEF CrabInv, SieveInv, SieveTyped, SieveTypeOK
  <2> QED BY <2>1, <2>2
<1>3. /\ crab'[p].run = crab[p].run /\ crab'[p].exit = "killed"
      /\ crab'[p].accepted = crab[p].accepted
  BY <1>1, ExitsWith
<1>4. crab[p].run.flaws # {} => done[p] = {} /\ crab[p].accepted = 0 /\ crab[p].at # "pushing"
  <2>1. crab[p].at \in {"listing", "pushing", "composing", "submitting", "answering"}
    BY <1>1, CrabOrNot DEF Crab
  <2> QED BY <1>1, <2>1 DEF CrabInv
<1>5. Honest(p)'
  BY <1>2, <1>3, <1>4 DEF Honest
<1> QED BY <1>1, <1>2, <1>5, EndKeeps

LEMMA PushScriptKeeps ==
    ASSUME ClientsInv, NEW p \in Programs, PushScript(p), UNCHANGED app
    PROVE  ClientsInv'
<1>1. /\ CrabTypeOK /\ CrabInv(p) /\ SieveInv /\ p \in Callers
      /\ Sound(p, {"push"}) /\ Goes(p, "pushing") /\ UNCHANGED <<listing_vars, app>>
  BY CallersAssumption DEF ClientsInv, PushScript
<1>2. /\ crab[p].at = "start" /\ crab[p].run.command = "push" /\ crab[p].run.flaws = {}
      /\ crab[p].run.name \in ScriptNames /\ crab[p].run.script \in Scripts
  BY <1>1, SoundRun
<1>3. PICK name \in ScriptNames, script \in Scripts :
         name = crab[p].run.name /\ script = crab[p].run.script
  BY <1>2
<1>4. Call(p, name, script)
  BY <1>3 DEF PushScript, Call
<1>5. /\ SieveInv' /\ \A q \in Programs : q # p => stage'[q] = stage[q] /\ done'[q] = done[q]
  BY <1>1, <1>4, CallKeeps, CallersAssumption
     DEF Call, SieveInv, SieveTyped, SieveTypeOK
<1>6. ListingInv' /\ AppTypeOK' /\ task' = task
  BY <1>1, ListingUnchanged DEF ClientsInv, AppTypeOK, listing_vars
<1>7. /\ CrabTypeOK' /\ crab'[p].at = "pushing" /\ crab'[p].run = crab[p].run
      /\ crab'[p].accepted = crab[p].accepted
      /\ \A q \in Programs : q # p => crab'[q] = crab[q]
  BY <1>1, <1>2, GoesTo
<1>8. CrabInv(p)' /\ Honest(p)'
  BY <1>1, <1>2, <1>7 DEF CrabInv, Honest
<1>9. AppInv(p)' /\ Shown(p)'
  <2>1. app'[p].open = FALSE /\ InFlight(p)' = {}
    BY <1>1, <1>2, <1>6, NoWindow DEF InFlight
  <2> QED BY <2>1 DEF AppInv, Shown
<1>10. \A q \in Programs : q # p => Elsewhere(q)
  BY <1>1, <1>5, <1>6, <1>7 DEF Elsewhere
<1> QED BY <1>5, <1>6, <1>7, <1>8, <1>9, <1>10, StepOfProgram

LEMMA CrabStepKeeps ==
    ASSUME ClientsInv, NEW p \in Programs, CrabStep(p), UNCHANGED app
    PROVE  ClientsInv'
BY RejectKeeps, OpenKeeps, ListingDoneKeeps, PushScriptKeeps, PushDoneKeeps, ComposeKeeps,
   BuildTransportKeeps, SubmitKeeps, SubmittedKeeps DEF CrabStep

--------------------------------------------------------------------------------
(* The other steps of the programs, of their tasks and of the servers. *)

LEMMA StartCrabKeeps ==
    ASSUME ClientsInv, NEW p \in Programs, StartCrab(p)
    PROVE  ClientsInv'
<1>1. PICK run \in Invocations : Invoke(p, run)
  BY DEF StartCrab
<1>2. /\ CrabTypeOK /\ CrabInv(p) /\ SieveInv /\ AppInv(p) /\ p \in Callers
      /\ app[p] = NoApp /\ crab[p].at \in {"none", "exited"} /\ ForgetCall(p)
      /\ UNCHANGED <<listing_vars, app>>
  BY <1>1, CallersAssumption DEF ClientsInv, StartCrab, Invoke
<1> DEFINE new == [at |-> "start", run |-> run, exit |-> "none", accepted |-> 0]
<1>3. crab' = [crab EXCEPT ![p] = new]
  BY <1>1 DEF Invoke
<1>4. new \in Crab /\ new.at = "start" /\ new.accepted = 0
  <2>1. run \in Invocation /\ 0 \in 0..1
    BY InvocationsAssumption
  <2> QED BY <2>1 DEF Crab
<1> HIDE DEF new
<1>5. /\ CrabTypeOK' /\ crab'[p] = new /\ \A q \in Programs : q # p => crab'[q] = crab[q]
  BY <1>2, <1>3, <1>4 DEF CrabTypeOK
<1>6. stage[p] = "idle"
  BY <1>2 DEF CrabInv
<1>7. SieveInv'
  BY <1>2, <1>6, ForgetCallKeeps
<1>8. /\ stage' = stage /\ done'[p] = {} /\ \A q \in Callers : q # p => done'[q] = done[q]
  BY <1>2 DEF ForgetCall, SieveInv, SieveTyped, SieveTypeOK
<1>9. ListingInv' /\ AppTypeOK' /\ task' = task
  BY <1>2, ListingUnchanged DEF ClientsInv, AppTypeOK, listing_vars
<1>10. CrabInv(p)' /\ Honest(p)'
  BY <1>4, <1>5, <1>6, <1>8 DEF CrabInv, Honest
<1>11. AppInv(p)' /\ Shown(p)'
  <2>1. app'[p].open = FALSE
    BY <1>2 DEF NoApp
  <2>2. InFlight(p)' = {}
    BY <1>2, <1>9, <2>1 DEF AppInv, InFlight
  <2> QED BY <2>1, <2>2 DEF AppInv, Shown
<1>12. \A q \in Programs : q # p => Elsewhere(q)
  BY <1>2, <1>5, <1>8, <1>9, CallersAssumption DEF Elsewhere
<1> QED BY <1>5, <1>7, <1>9, <1>10, <1>11, <1>12, StepOfProgram

\* A call that is out is that of an invocation that pushes.
LEMMA StepOfCall ==
    ASSUME ClientsInv, NEW p \in Programs, PutActiveScript(p) \/ SieveServer(p),
           UNCHANGED <<listing_vars, crab, app>>
    PROVE  ClientsInv'
<1>1. /\ ListingInv /\ CrabTypeOK /\ AppTypeOK /\ SieveInv /\ CrabInv(p) /\ AppInv(p) /\ Shown(p)
      /\ p \in Callers
  BY CallersAssumption DEF ClientsInv
<1>2. SieveInv'
  BY <1>1, PutActiveScriptKeeps, SieveServerKeeps
<1>3. /\ stage[p] # "idle"
      /\ \A q \in Callers : q # p => stage'[q] = stage[q] /\ done'[q] = done[q]
  BY <1>1, OneCallOnly
<1>4. crab[p].at = "pushing" /\ crab'[p] = crab[p]
  BY <1>1, <1>3 DEF CrabInv
<1>5. ListingInv' /\ CrabTypeOK' /\ AppTypeOK' /\ task' = task
  BY <1>1, ListingUnchanged DEF CrabTypeOK, AppTypeOK, listing_vars
<1>6. CrabInv(p)' /\ Honest(p)'
  BY <1>1, <1>4 DEF CrabInv, Honest
<1>7. InFlight(p)' = InFlight(p)
  BY <1>5 DEF InFlight
<1>8. AppInv(p)' /\ Shown(p)'
  BY <1>1, <1>7 DEF AppInv, Shown
<1>9. \A q \in Programs : q # p => Elsewhere(q)
  BY <1>3, <1>5, CallersAssumption DEF Elsewhere
<1> QED BY <1>2, <1>5, <1>6, <1>8, <1>9, StepOfProgram

LEMMA StepTaskKeeps ==
    ASSUME ClientsInv, NEW t \in Tasks, StepTask(t)
    PROVE  ClientsInv'
<1>1. ListingInv /\ ListingTypeOK /\ RunTask(t) /\ UNCHANGED <<sieve_vars, crab, app>>
  BY DEF ClientsInv, ListingInv, StepTask
<1>2. ListingInv'
  BY <1>1, RunTaskKeeps
<1>3. SieveInv' /\ CrabTypeOK' /\ AppTypeOK' /\ stage' = stage /\ done' = done
  BY <1>1, SieveUnchanged
     DEF ClientsInv, CrabTypeOK, AppTypeOK, sieve_vars, connection, filters
<1>4. task[t] \in Session
  BY <1>1, RunTaskRuns
<1>5. PICK s \in Session \cup Outcome : task' = [task EXCEPT ![t] = s]
  BY <1>1, RunTaskRuns
<1>6. task[t] # NoTask /\ s # NoTask
  BY <1>4 DEF Session, Outcome, NoTask
<1>7. \A u \in Tasks : task'[u] # NoTask <=> task[u] # NoTask
  BY <1>1, <1>5, <1>6 DEF ListingTypeOK
<1>8. ASSUME NEW p \in Programs
      PROVE  CrabInv(p)' /\ Honest(p)' /\ AppInv(p)' /\ Shown(p)'
  <2>1. InFlight(p)' = InFlight(p)
    BY <1>7 DEF InFlight, TasksOf
  <2>2. CrabInv(p)' /\ Honest(p)'
    BY <1>1, <1>3 DEF ClientsInv, CrabInv, Honest
  <2> QED BY <1>1, <2>1, <2>2 DEF ClientsInv, AppInv, Shown
<1> QED BY <1>2, <1>3, <1>8 DEF ClientsInv

LEMMA OtherClientsKeep == ASSUME ClientsInv, OtherClients PROVE ClientsInv'
<1>1. CASE /\ \E a \in Accounts, f \in Folders : ChangeMailboxes(a, f)
           /\ UNCHANGED sieve_vars
  <2>1. ListingInv' /\ task' = task
    BY <1>1, ChangeMailboxesKeeps DEF ClientsInv, ChangeMailboxes
  <2>2. SieveInv' /\ stage' = stage /\ done' = done
    BY <1>1, SieveUnchanged DEF ClientsInv, sieve_vars, connection, filters
  <2> QED BY <2>1, <2>2, ElsewhereKeeps
          DEF OtherClients, ClientsInv, CrabTypeOK, AppTypeOK, Elsewhere
<1>2. CASE /\ \E n \in ScriptNames, s \in Scripts \cup {NoScript} : ChangeFilters(n, s)
           /\ UNCHANGED listing_vars
  <2>1. ListingInv' /\ task' = task
    BY <1>2, ListingUnchanged DEF ClientsInv, listing_vars
  <2>2. SieveInv' /\ stage' = stage /\ done' = done
    BY <1>2, ChangeFiltersKeeps DEF ClientsInv, ChangeFilters, connection
  <2> QED BY <2>1, <2>2, ElsewhereKeeps
          DEF OtherClients, ClientsInv, CrabTypeOK, AppTypeOK, Elsewhere
<1> QED BY <1>1, <1>2 DEF OtherClients

--------------------------------------------------------------------------------
(* The steps of the application. *)

\* The application changes; what its tasks do is for each step to say.
LEMMA StepOfWindow ==
    ASSUME ClientsInv, NEW p \in Programs, crab[p].at = "none", UNCHANGED <<sieve_vars, crab>>,
           ListingInv', AppTypeOK', AppInv(p)', Shown(p)',
           \A q \in Programs : q # p => app'[q] = app[q],
           \A t \in Tasks : t \notin TasksOf(p) => task'[t] = task[t]
    PROVE  ClientsInv'
<1>1. /\ SieveInv' /\ CrabTypeOK' /\ UNCHANGED <<stage, done>>
  BY SieveUnchanged DEF ClientsInv, CrabTypeOK, sieve_vars, connection, filters
<1>2. CrabInv(p)' /\ Honest(p)'
  BY <1>1 DEF ClientsInv, CrabInv, Honest
<1>3. ASSUME NEW q \in Programs, q # p PROVE Elsewhere(q)
  <2>1. \A t \in TasksOf(q) : t \in Tasks /\ t \notin TasksOf(p)
    BY <1>3 DEF TasksOf
  <2> QED BY <1>1, <1>3, <2>1 DEF Elsewhere
<1> QED BY <1>1, <1>2, <1>3, StepOfProgram

\* What is known of a program whose window is open.
LEMMA Window ==
    ASSUME ClientsInv, NEW p \in Programs, app[p].open
    PROVE  /\ app[p] \in App /\ crab[p].at = "none"
           /\ app[p].connecting => \E t \in TasksOf(p) : InFlight(p) = {t}
           /\ ~app[p].connecting => InFlight(p) = {}
BY OpenOrNot DEF ClientsInv, AppInv

\* The form is edited, or the button pressed.
LEMMA FormKeeps ==
    ASSUME ClientsInv, NEW p \in Programs, app[p].open, NEW new \in App,
           app' = [app EXCEPT ![p] = new],
           new.connecting = app[p].connecting, new.shown = app[p].shown,
           new.shown_of = app[p].shown_of, new.last = app[p].last,
           UNCHANGED <<listing_vars, sieve_vars, crab>>
    PROVE  ClientsInv'
<1>1. ListingInv /\ AppTypeOK /\ AppInv(p) /\ Shown(p)
  BY DEF ClientsInv
<1>2. ListingInv' /\ task' = task
  BY <1>1, ListingUnchanged DEF listing_vars
<1>3. /\ AppTypeOK' /\ app'[p] = new /\ \A q \in Programs : q # p => app'[q] = app[q]
  BY <1>1 DEF AppTypeOK
<1>4. new.open = TRUE
  BY DEF App
<1>5. InFlight(p)' = InFlight(p)
  BY <1>2 DEF InFlight
<1>6. AppInv(p)' /\ Shown(p)'
  BY <1>1, <1>3, <1>4, <1>5 DEF AppInv, Shown
<1> QED BY <1>2, <1>3, <1>6, Window, StepOfWindow

LEMMA EditFormKeeps ==
    ASSUME ClientsInv, NEW p \in Programs, EditForm(p)
    PROVE  ClientsInv'
<1>1. UNCHANGED <<listing_vars, sieve_vars, crab>>
  BY DEF EditForm, UseForm, EditAccount, EditPassword
<1>2. CASE \E a \in Accounts : EditAccount(p, a)
  <2>1. PICK a \in Accounts : EditAccount(p, a)
    BY <1>2
  <2>2. app[p].open /\ app[p] \in App
    BY <2>1, Window DEF EditAccount
  <2>3. PICK new : new = [app[p] EXCEPT !.account = a]
    OBVIOUS
  <2>4. /\ new \in App /\ new.connecting = app[p].connecting /\ new.shown = app[p].shown
        /\ new.shown_of = app[p].shown_of /\ new.last = app[p].last
    BY <2>2, <2>3 DEF App
  <2>5. app' = [app EXCEPT ![p] = new]
    BY <2>1, <2>3 DEF EditAccount
  <2> QED BY <1>1, <2>2, <2>4, <2>5, FormKeeps
<1>3. CASE \E s \in {"", "typed"} : EditPassword(p, s)
  <2>1. PICK s \in {"", "typed"} : EditPassword(p, s)
    BY <1>3
  <2>2. app[p].open /\ app[p] \in App
    BY <2>1, Window DEF EditPassword
  <2>3. PICK new : new = [app[p] EXCEPT !.password = s]
    OBVIOUS
  <2>4. /\ new \in App /\ new.connecting = app[p].connecting /\ new.shown = app[p].shown
        /\ new.shown_of = app[p].shown_of /\ new.last = app[p].last
    BY <2>2, <2>3 DEF App
  <2>5. app' = [app EXCEPT ![p] = new]
    BY <2>1, <2>3 DEF EditPassword
  <2> QED BY <1>1, <2>2, <2>4, <2>5, FormKeeps
<1> QED BY <1>2, <1>3 DEF EditForm, UseForm

\* A press is one more message in the queue, or one less.
LEMMA QueueKeeps ==
    ASSUME ClientsInv, NEW p \in Programs, app[p].open, NEW n \in Nat,
           app' = [app EXCEPT ![p].pressed = n],
           UNCHANGED <<listing_vars, sieve_vars, crab>>
    PROVE  ClientsInv'
<1>1. app[p] \in App
  BY Window
<1>2. PICK new : new = [app[p] EXCEPT !.pressed = n]
  OBVIOUS
<1>3. /\ new \in App /\ new.connecting = app[p].connecting /\ new.shown = app[p].shown
      /\ new.shown_of = app[p].shown_of /\ new.last = app[p].last
  BY <1>1, <1>2 DEF App
<1> QED BY <1>2, <1>3, FormKeeps

LEMMA PressConnectKeeps ==
    ASSUME ClientsInv, NEW p \in Programs, PressConnect(p)
    PROVE  ClientsInv'
<1>1. app[p].open /\ app[p] \in App
  BY Window DEF PressConnect, Press
<1>2. PICK n : n = app[p].pressed + 1
  OBVIOUS
<1>3. n \in Nat
  <2>1. app[p].pressed \in Nat
    BY <1>1 DEF App
  <2> QED BY <1>2, <2>1
<1>4. app' = [app EXCEPT ![p].pressed = n]
  BY <1>2 DEF PressConnect, Press
<1> QED BY <1>1, <1>3, <1>4, QueueKeeps DEF PressConnect, Press

LEMMA StartAppKeeps ==
    ASSUME ClientsInv, NEW p \in Programs, StartApp(p)
    PROVE  ClientsInv'
<1>1. /\ CrabTypeOK /\ CrabInv(p) /\ SieveInv /\ AppInv(p) /\ AppTypeOK /\ p \in Callers
      /\ app[p] = NoApp /\ crab[p].at \in {"none", "exited"} /\ ForgetCall(p)
      /\ UNCHANGED listing_vars /\ crab' = [crab EXCEPT ![p] = NoCrab]
  BY CallersAssumption DEF ClientsInv, StartApp, Launch
<1> DEFINE new == [open |-> TRUE, account |-> Blank, password |-> "", pressed |-> 0,
                   connecting |-> FALSE, shown |-> {}, shown_of |-> Blank, last |-> NoTask]
<1>2. app' = [app EXCEPT ![p] = new]
  BY DEF StartApp, Launch
<1>3. new \in App /\ new.connecting = FALSE /\ new.shown = {}
  BY BlankAssumption DEF App
<1> HIDE DEF new
<1>4. AppTypeOK' /\ app'[p] = new /\ \A q \in Programs : q # p => app'[q] = app[q]
  BY <1>1, <1>2, <1>3 DEF AppTypeOK
<1>5. CrabTypeOK' /\ crab'[p] = NoCrab /\ \A q \in Programs : q # p => crab'[q] = crab[q]
  BY <1>1 DEF CrabTypeOK
<1>6. stage[p] = "idle"
  BY <1>1 DEF CrabInv
<1>7. SieveInv' /\ stage' = stage /\ \A q \in Callers : q # p => done'[q] = done[q]
  BY <1>1, <1>6, ForgetCallKeeps DEF ForgetCall, SieveInv, SieveTyped, SieveTypeOK
<1>8. ListingInv' /\ task' = task
  BY <1>1, ListingUnchanged DEF ClientsInv, listing_vars
<1>9. CrabInv(p)' /\ Honest(p)'
  BY <1>5, <1>6, <1>7 DEF CrabInv, Honest, NoCrab
<1>10. AppInv(p)' /\ Shown(p)'
  <2>1. app[p].open = FALSE
    BY <1>1 DEF NoApp
  <2>2. InFlight(p)' = {}
    BY <1>1, <1>8, <2>1 DEF AppInv, InFlight
  <2>3. app'[p].open = TRUE
    BY <1>3, <1>4 DEF App
  <2> QED BY <1>3, <1>4, <1>5, <2>2, <2>3 DEF AppInv, Shown, NoCrab
<1>11. \A q \in Programs : q # p => Elsewhere(q)
  BY <1>4, <1>5, <1>7, <1>8, CallersAssumption DEF Elsewhere
<1> QED BY <1>4, <1>5, <1>7, <1>8, <1>9, <1>10, <1>11, StepOfProgram

LEMMA AttemptKeeps ==
    ASSUME ClientsInv, NEW p \in Programs, app[p].open, ~app[p].connecting, app[p].pressed > 0,
           Attempt(p), UNCHANGED <<sieve_vars, crab>>
    PROVE  ClientsInv'
<1>1. /\ ListingInv /\ ListingTypeOK /\ AppTypeOK /\ Shown(p)
      /\ app[p] \in App /\ crab[p].at = "none" /\ InFlight(p) = {}
  BY Window DEF ClientsInv, ListingInv
<1>2. PICK account \in Accounts : account = app[p].account
  BY <1>1 DEF App
<1>3. PICK secret \in BOOLEAN : secret = (app[p].password # "")
  OBVIOUS
<1>4. PICK t \in TasksOf(p) : Start(t, "list", app[p].account, app[p].password # "")
  BY DEF Attempt
<1>5. t \in Tasks
  BY DEF TasksOf
<1>6. Start(t, "list", account, secret)
  BY <1>2, <1>3, <1>4 DEF Start
<1>7. ListingInv'
  BY <1>1, <1>5, <1>6, StartKeeps
<1>8. task'[t] # NoTask /\ \A u \in Tasks : u # t => task'[u] = task[u]
  BY <1>1, <1>5, <1>6 DEF Start, ListingTypeOK, NoTask
<1>9. PICK new : new = [app[p] EXCEPT !.pressed = @ - 1, !.connecting = TRUE, !.password = ""]
  OBVIOUS
<1>10. /\ new \in App /\ new.open = TRUE /\ new.connecting = TRUE
       /\ new.shown = app[p].shown /\ new.shown_of = app[p].shown_of /\ new.last = app[p].last
  <2>1. app[p].pressed \in Nat
    BY <1>1 DEF App
  <2>2. PICK n : n = app[p].pressed - 1
    OBVIOUS
  <2>3. n \in Nat
    BY <2>1, <2>2
  <2>4. new = [app[p] EXCEPT !.pressed = n, !.connecting = TRUE, !.password = ""]
    BY <1>9, <2>2
  <2> QED BY <1>1, <2>3, <2>4 DEF App
<1>11. app' = [app EXCEPT ![p] = new]
  BY <1>9 DEF Attempt
<1>12. AppTypeOK' /\ app'[p] = new /\ \A q \in Programs : q # p => app'[q] = app[q]
  BY <1>1, <1>10, <1>11 DEF AppTypeOK
<1>13. InFlight(p)' = {t}
  BY <1>1, <1>8 DEF InFlight, TasksOf
<1>14. AppInv(p)' /\ Shown(p)'
  BY <1>1, <1>10, <1>12, <1>13 DEF AppInv, Shown
<1>15. \A u \in Tasks : u \notin TasksOf(p) => task'[u] = task[u]
  BY <1>8
<1> QED BY <1>1, <1>7, <1>12, <1>14, <1>15, StepOfWindow

LEMMA HandleConnectKeeps ==
    ASSUME ClientsInv, NEW p \in Programs, HandleConnect(p), UNCHANGED <<sieve_vars, crab>>
    PROVE  ClientsInv'
<1>1. app[p].open /\ app[p].pressed > 0 /\ app[p] \in App
  BY Window DEF HandleConnect
<1>2. CASE app' = [app EXCEPT ![p].pressed = @ - 1] /\ UNCHANGED listing_vars
  <2>1. PICK n : n = app[p].pressed - 1
    OBVIOUS
  <2>2. n \in Nat
    <3>1. app[p].pressed \in Nat
      BY <1>1 DEF App
    <3> QED BY <1>1, <2>1, <3>1
  <2>3. app' = [app EXCEPT ![p].pressed = n]
    BY <1>2, <2>1
  <2> QED BY <1>1, <1>2, <2>2, <2>3, QueueKeeps
<1>3. CASE ~app[p].connecting /\ Attempt(p)
  BY <1>1, <1>3, AttemptKeeps
<1> QED BY <1>2, <1>3 DEF HandleConnect

LEMMA HandleConnectedKeeps ==
    ASSUME ClientsInv, NEW p \in Programs, HandleConnected(p), UNCHANGED <<sieve_vars, crab>>
    PROVE  ClientsInv'
<1>1. PICK t \in InFlight(p) :
         /\ Finished(p, t)
         /\ app' = [app EXCEPT ![p].connecting = FALSE, ![p].last = task[t],
                               ![p].shown = task[t].listed,
                               ![p].shown_of = task[t].account]
  BY DEF HandleConnected
<1>2. /\ t \in TasksOf(p) /\ t \in Tasks /\ app[p].open /\ task[t].at = "returned"
      /\ task' = [task EXCEPT ![t] = NoTask] /\ UNCHANGED <<mailboxes, lasting>>
  BY <1>1 DEF InFlight, TasksOf, Finished
<1>3. /\ ListingInv /\ ListingTypeOK /\ AppTypeOK /\ TaskInv(t)
      /\ app[p] \in App /\ crab[p].at = "none"
      /\ app[p].connecting => \E u \in TasksOf(p) : InFlight(p) = {u}
      /\ ~app[p].connecting => InFlight(p) = {}
  BY <1>2, Window DEF ClientsInv, ListingInv
<1>4. InFlight(p) = {t}
  BY <1>1, <1>3
<1>5. ListingInv' /\ task'[t] = NoTask /\ \A u \in Tasks : u # t => task'[u] = task[u]
  BY <1>2, <1>3, TaskDropped
<1>6. PICK result : result = task[t]
  OBVIOUS
<1>7. /\ result \in Outcome /\ result.listed \in SUBSET Folders /\ result.account \in Accounts
      /\ result.ok \in BOOLEAN
  <2>1. result \in Outcome
    BY <1>2, <1>3, <1>6 DEF ListingTypeOK, Session, NoTask
  <2> QED BY <2>1 DEF Outcome
<1>8. ~result.ok => result.listed = {}
  BY <1>2, <1>3, <1>6 DEF TaskInv
<1>9. PICK new : new = [app[p] EXCEPT !.connecting = FALSE, !.last = result,
                                      !.shown = result.listed, !.shown_of = result.account]
  OBVIOUS
<1>10. /\ new \in App /\ new.open = TRUE /\ new.connecting = FALSE /\ new.last = result
       /\ new.shown = result.listed /\ new.shown_of = result.account
  BY <1>3, <1>7, <1>9 DEF App
<1>11. app' = [app EXCEPT ![p] = new]
  BY <1>1, <1>6, <1>9
<1>12. AppTypeOK' /\ app'[p] = new /\ \A q \in Programs : q # p => app'[q] = app[q]
  BY <1>3, <1>10, <1>11 DEF AppTypeOK
<1>13. InFlight(p)' = {}
  BY <1>2, <1>4, <1>5 DEF InFlight, TasksOf
<1>14. AppInv(p)' /\ Shown(p)'
  BY <1>3, <1>8, <1>10, <1>12, <1>13 DEF AppInv, Shown
<1>15. \A u \in Tasks : u \notin TasksOf(p) => task'[u] = task[u]
  BY <1>2, <1>5
<1> QED BY <1>3, <1>5, <1>12, <1>14, <1>15, StepOfWindow

LEMMA EndAppKeeps ==
    ASSUME ClientsInv, NEW p \in Programs, EndApp(p)
    PROVE  ClientsInv'
<1>1. /\ ListingInv /\ AppTypeOK /\ app[p].open /\ crab[p].at = "none"
      /\ UNCHANGED <<mailboxes, lasting, sieve_vars, crab>>
      /\ app' = [app EXCEPT ![p] = NoApp]
      /\ task' = [t \in Tasks |-> IF t[1] = p THEN NoTask ELSE task[t]]
  BY Window DEF ClientsInv, EndApp, CloseApp
<1>2. TasksOf(p) \in SUBSET Tasks /\ \A t \in Tasks : t \in TasksOf(p) <=> t[1] = p
  BY DEF TasksOf
<1>3. task' = [t \in Tasks |-> IF t \in TasksOf(p) THEN NoTask ELSE task[t]]
  BY <1>1, <1>2
<1>4. ListingInv'
  BY <1>1, <1>2, <1>3, TasksDropped
<1>5. AppTypeOK' /\ app'[p].open = FALSE /\ \A q \in Programs : q # p => app'[q] = app[q]
  BY <1>1 DEF AppTypeOK, NoApp
<1>6. InFlight(p)' = {}
  BY <1>2, <1>3 DEF InFlight
<1>7. AppInv(p)' /\ Shown(p)'
  BY <1>1, <1>5, <1>6 DEF AppInv, Shown
<1>8. \A t \in Tasks : t \notin TasksOf(p) => task'[t] = task[t]
  BY <1>3
<1> QED BY <1>1, <1>4, <1>5, <1>7, <1>8, StepOfWindow

--------------------------------------------------------------------------------
(* All programs together. *)

LEMMA RunKeeps == ASSUME ClientsInv, NEW p \in Programs, Run(p) PROVE ClientsInv'
<1>1. CASE StepCrab(p)
  BY <1>1, CrabStepKeeps DEF StepCrab
<1>2. CASE StepPush(p)
  BY <1>2, StepOfCall DEF StepPush
<1>3. CASE StepApp(p)
  BY <1>3, HandleConnectKeeps, HandleConnectedKeeps DEF StepApp, AppStep
<1>4. CASE \E t \in TasksOf(p) : StepTask(t)
  BY <1>4, StepTaskKeeps DEF TasksOf
<1> QED BY <1>1, <1>2, <1>3, <1>4 DEF Run

LEMMA NextKeeps == ASSUME ClientsInv, Next PROVE ClientsInv'
<1>1. ASSUME NEW p \in Programs, KillCrab(p) PROVE ClientsInv'
  BY <1>1, DieKeeps DEF KillCrab
<1>2. ASSUME NEW p \in Programs, StepSieveServer(p) PROVE ClientsInv'
  BY <1>2, StepOfCall DEF StepSieveServer
<1> QED BY <1>1, <1>2, StartCrabKeeps, StartAppKeeps, EditFormKeeps, PressConnectKeeps,
           EndAppKeeps, RunKeeps, OtherClientsKeep DEF Next

LEMMA StutterKeeps == ASSUME ClientsInv, UNCHANGED client_vars PROVE ClientsInv'
<1>1. UNCHANGED <<listing_vars, sieve_vars, crab, app>>
  BY DEF client_vars
<1>2. ListingInv' /\ SieveInv' /\ task' = task /\ stage' = stage /\ done' = done
  BY <1>1, ListingUnchanged, SieveUnchanged
     DEF ClientsInv, listing_vars, sieve_vars, connection, filters
<1> QED BY <1>1, <1>2, ElsewhereKeeps DEF ClientsInv, CrabTypeOK, AppTypeOK, Elsewhere

LEMMA InitHolds == ASSUME Init PROVE ClientsInv
<1>1. ListingInv /\ SieveInv
  BY ListingStarts, SieveStarts DEF Init
<1>2. /\ \A t \in Tasks : task[t] = NoTask
      /\ \A p \in Callers : stage[p] = "idle"
      /\ \A p \in Programs : crab[p] = NoCrab /\ app[p] = NoApp
  BY DEF Init, ListingInit, SieveInit
<1>3. CrabTypeOK /\ AppTypeOK
  BY DEF Init, CrabTypeOK, AppTypeOK
<1>4. ASSUME NEW p \in Programs PROVE CrabInv(p) /\ Honest(p) /\ AppInv(p) /\ Shown(p)
  <2>1. stage[p] = "idle" /\ crab[p].at = "none" /\ app[p].open = FALSE
    BY <1>2, CallersAssumption DEF NoCrab, NoApp
  <2>2. InFlight(p) = {}
    BY <1>2 DEF InFlight, TasksOf
  <2> QED BY <2>1, <2>2 DEF CrabInv, Honest, AppInv, Shown
<1> QED BY <1>1, <1>3, <1>4 DEF ClientsInv

LEMMA ClientsHold == Spec => []ClientsInv
<1>1. Init => ClientsInv
  BY InitHolds
<1>2. ClientsInv /\ [Next]_client_vars => ClientsInv'
  BY NextKeeps, StutterKeeps
<1> QED BY <1>1, <1>2, PTL DEF Spec

\* Every value the programs and the servers keep has its type.
THEOREM ClientsTypeCorrect == Spec => []TypeOK
<1>1. ClientsInv => TypeOK
  BY DEF ClientsInv, ListingInv, SieveInv, SieveTyped, TypeOK
<1> QED BY <1>1, ClientsHold, PTL

\* What read_response returns for a command is the server's answer to that
\* very command or its goodbye, whatever literals the answers hold and
\* wherever the connection breaks.
THEOREM StaysInStep == Spec => []InStep
<1>1. ClientsInv => InStep
  BY SieveInStep DEF ClientsInv
<1> QED BY <1>1, ClientsHold, PTL

\* Ok from put_active_script means that its script is the active one until
\* somebody else, another crab included, changes it; a NO that nothing was
\* obeyed from there on.
THEOREM PushResultIsHonest == Spec => []PushIsHonest
<1>1. ClientsInv => PushIsHonest
  BY SievePushIsHonest DEF ClientsInv
<1> QED BY <1>1, ClientsHold, PTL

\* crab exits with 0 only if it was done, and an invocation with a flaw
\* exits with 1 and has reached no server.
THEOREM ExitStatusIsHonest == Spec => []ExitIsHonest
<1>1. ClientsInv => ExitIsHonest
  BY DEF ClientsInv, Honest, ExitIsHonest
<1> QED BY <1>1, ClientsHold, PTL

\* A folder that existed throughout a successful listing is in it, if LIST
\* was answered in full: what other clients make and delete meanwhile, and
\* STATUS commands that fail, never shorten a listing.
THEOREM ListsWhatIsAnswered == Spec => []AnsweredListIsWhole
<1>1. ClientsInv => AnsweredListIsWhole
  BY ListingHolds DEF ClientsInv
<1> QED BY <1>1, ClientsHold, PTL

\* One attempt is under way while the application says it connects, and none
\* while it does not, however many presses wait in the queue.
THEOREM OneAttemptAtATime == Spec => []OneAttempt
<1>1. ASSUME ClientsInv, NEW p \in Programs, app[p].open
      PROVE  Cardinality(InFlight(p)) = IF app[p].connecting THEN 1 ELSE 0
  <2>1. CASE app[p].connecting
    <3>1. PICK t \in TasksOf(p) : InFlight(p) = {t}
      BY <1>1, <2>1, Window
    <3> QED BY <2>1, <3>1, FS_Singleton
  <2>2. CASE ~app[p].connecting
    <3>1. InFlight(p) = {}
      BY <1>1, <2>2, Window
    <3> QED BY <2>2, <3>1, FS_EmptySet
  <2> QED BY <2>1, <2>2
<1>2. ClientsInv => OneAttempt
  BY <1>1 DEF OneAttempt
<1> QED BY <1>2, ClientsHold, PTL

\* The folders on the screen are those of the last attempt that came back.
THEOREM ScreenIsCurrent == Spec => []ShownIsCurrent
<1>1. ClientsInv => ShownIsCurrent
  BY DEF ClientsInv, Shown, ShownIsCurrent
<1> QED BY <1>1, ClientsHold, PTL

================================================================================
