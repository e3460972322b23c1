----------------------------- MODULE MailClients -----------------------------
(***************************************************************************)
(* The programs of one user together: invocations of crab and the desktop  *)
(* application, side by side, at the same servers.  A program that is no   *)
(* crab may be the application.                                            *)
(***************************************************************************)
EXTENDS CommandLine, GuiApp

CONSTANT
    MaxEvents       \* bound: what users and other clients do

ASSUME EventsAssumption == MaxEvents \in Nat

VARIABLE
    events      \* crabs invoked and killed, presses, changes by other clients

client_vars == <<listing_vars, sieve_vars, crab, app, events>>

Init ==
    /\ ListingInit
    /\ SieveInit
    /\ crab = [p \in Programs |-> NoCrab]
    /\ app = [p \in Programs |-> NoApp]
    /\ events = 0

Happens == events < MaxEvents /\ events' = events + 1

StartCrab(p) ==
    /\ Happens
    /\ app[p] = NoApp
    /\ \E run \in Invocations : Invoke(p, run)
    /\ UNCHANGED app

StepCrab(p) == CrabStep(p) /\ UNCHANGED <<app, events>>

KillCrab(p) == Happens /\ Die(p) /\ UNCHANGED app

StepPush(p) ==
    /\ PutActiveScript(p)
    /\ UNCHANGED <<listing_vars, crab, app, events>>

StepSieveServer(p) ==
    /\ SieveServer(p)
    /\ UNCHANGED <<listing_vars, crab, app, events>>

StepTask(t) ==
    /\ RunTask(t)
    /\ UNCHANGED <<sieve_vars, crab, app, events>>

StartApp(p) ==
    /\ crab[p].at \in {"none", "exited"}
    /\ \A q \in Programs : app[q] = NoApp
    /\ events < MaxEvents
    /\ Launch(p)
    /\ crab' = [crab EXCEPT ![p] = NoCrab]
    /\ ForgetCall(p)
    /\ UNCHANGED events

StepApp(p) == AppStep(p) /\ UNCHANGED <<sieve_vars, crab, events>>

\* No edit that no press can follow.
EditForm(p) ==
    /\ events < MaxEvents
    /\ UseForm(p)
    /\ UNCHANGED <<sieve_vars, crab, events>>

PressConnect(p) ==
    /\ Happens
    /\ Press(p)
    /\ UNCHANGED <<sieve_vars, crab>>

EndApp(p) == CloseApp(p) /\ UNCHANGED <<sieve_vars, crab, events>>

OtherClients ==
    /\ Happens
    /\ \/ /\ \E a \in Accounts, f \in Folders : ChangeMailboxes(a, f)
          /\ UNCHANGED sieve_vars
       \/ /\ \E n \in ScriptNames, s \in Scripts \cup {NoScript} : ChangeFilters(n, s)
          /\ UNCHANGED listing_vars
    /\ UNCHANGED <<crab, app>>

\* What a program does when nobody tells it to do anything.
Run(p) ==
    \/ StepCrab(p) \/ StepPush(p) \/ StepApp(p)
    \/ \E t \in TasksOf(p) : StepTask(t)

Next ==
    \/ \E p \in Programs :
          \/ StartCrab(p) \/ KillCrab(p) \/ StartApp(p) \/ EditForm(p)
          \/ PressConnect(p) \/ EndApp(p) \/ Run(p) \/ StepSieveServer(p)
    \/ OtherClients

\* Each program that can go on does, and servers answer or hang up; users
\* and other clients need not do anything.
Fairness ==
    \A p \in Programs : WF_client_vars(Run(p)) /\ WF_client_vars(StepSieveServer(p))

Spec == Init /\ [][Next]_client_vars /\ Fairness

--------------------------------------------------------------------------------

\* The types of every component.
TypeOK == ListingTypeOK /\ SieveTypeOK /\ CrabTypeOK /\ AppTypeOK

================================================================================
