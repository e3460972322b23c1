-------------------------------- MODULE GuiApp --------------------------------
(***************************************************************************)
(* The desktop application (thundercrab-gui/src/main.rs).  update handles  *)
(* one message at a time; connect_and_list runs beside it and comes back   *)
(* as the message Connected.  Messages wait in a queue, so a second press  *)
(* of the button may already be there when the first is handled, and the   *)
(* form may be edited while an attempt is under way.                       *)
(*                                                                         *)
(* The status line is text for the user and left out; host and user name   *)
(* are one account.                                                        *)
(***************************************************************************)
EXTENDS FolderListing

NoApp == [open |-> FALSE]

\* account and password are the form; shown is folders; shown_of and last
\* are history: the account the folders are of, the last attempt's result.
App ==
    [open : {TRUE}, account : Accounts, password : {"", "typed"},
     pressed : Nat, connecting : BOOLEAN, shown : SUBSET Folders,
     shown_of : Accounts, last : Outcome \cup {NoTask}]

VARIABLE
    app         \* the application a program runs, or NoApp

TasksOf(p) == {t \in Tasks : t[1] = p}

InFlight(p) == {t \in TasksOf(p) : task[t] # NoTask}

Launch(p) ==
    /\ app[p] = NoApp
    /\ app' = [app EXCEPT ![p] =
                  [open |-> TRUE, account |-> Blank, password |-> "",
                   pressed |-> 0, connecting |-> FALSE, shown |-> {},
                   shown_of |-> Blank, last |-> NoTask]]
    /\ UNCHANGED listing_vars

\* HostChanged, UserChanged
EditAccount(p, account) ==
    /\ app[p].open /\ app[p].account # account
    /\ app' = [app EXCEPT ![p].account = account]
    /\ UNCHANGED listing_vars

\* PasswordChanged
EditPassword(p, password) ==
    /\ app[p].open /\ app[p].password # password
    /\ app' = [app EXCEPT ![p].password = password]
    /\ UNCHANGED listing_vars

\* view: the button is dead while an attempt is under way, as last drawn.
Press(p) ==
    /\ app[p].open /\ ~app[p].connecting
    /\ app' = [app EXCEPT ![p].pressed = @ + 1]
    /\ UNCHANGED listing_vars

Attempt(p) ==
    /\ app' = [app EXCEPT ![p].pressed = @ - 1, ![p].connecting = TRUE,
                          ![p].password = ""]
    /\ \E t \in TasksOf(p) : Start(t, "list", app[p].account, app[p].password # "")

\* Wrong variant (mutation runs): the dead button is trusted.
ConnectUnguarded(p) ==
    /\ app[p].open /\ app[p].pressed > 0
    /\ Attempt(p)

\* Message::Connect
HandleConnect(p) ==
    /\ app[p].open /\ app[p].pressed > 0
    /\ \/ /\ app[p].connecting
          /\ app' = [app EXCEPT ![p].pressed = @ - 1]
          /\ UNCHANGED listing_vars
       \/ /\ ~app[p].connecting
          /\ Attempt(p)

Finished(p, t) ==
    /\ app[p].open
    /\ task[t].at = "returned"
    /\ task' = [task EXCEPT ![t] = NoTask]
    /\ UNCHANGED <<mailboxes, lasting>>

\* Wrong variant (mutation runs): a failed attempt leaves the old folders.
ConnectedErrKeeps(p) ==
    \E t \in InFlight(p) :
        /\ Finished(p, t)
        /\ app' = [app EXCEPT ![p].connecting = FALSE, ![p].last = task[t],
                              ![p].shown = IF task[t].ok THEN task[t].listed ELSE @,
                              ![p].shown_of = IF task[t].ok THEN task[t].account ELSE @]

\* Wrong variant (mutation runs): only success ends an attempt.
ConnectedErrForgotten(p) ==
    \E t \in InFlight(p) :
        /\ Finished(p, t)
        /\ app' = [app EXCEPT ![p].connecting = @ /\ ~task[t].ok, ![p].last = task[t],
                              ![p].shown = task[t].listed,
                              ![p].shown_of = task[t].account]

\* Message::Connected, with the folders or with an error and none.
HandleConnected(p) ==
    \E t \in InFlight(p) :
        /\ Finished(p, t)
        /\ app' = [app EXCEPT ![p].connecting = FALSE, ![p].last = task[t],
                              ![p].shown = task[t].listed,
                              ![p].shown_of = task[t].account]

\* The window is closed: the tasks end with the process.
CloseApp(p) ==
    /\ app[p].open
    /\ app' = [app EXCEPT ![p] = NoApp]
    /\ task' = [t \in Tasks |-> IF t[1] = p THEN NoTask ELSE task[t]]
    /\ UNCHANGED <<mailboxes, lasting>>

AppStep(p) == HandleConnect(p) \/ HandleConnected(p)

UseForm(p) ==
    \/ \E a \in Accounts : EditAccount(p, a)
    \/ \E s \in {"", "typed"} : EditPassword(p, s)

--------------------------------------------------------------------------------
(* Properties. *)

AppTypeOK == app \in [Programs -> App \cup {NoApp}]

\* However fast the button is pressed, one attempt is under way while the
\* application says it connects, and none while it does not.
OneAttempt ==
    \A p \in Programs :
        app[p].open => Cardinality(InFlight(p)) = IF app[p].connecting THEN 1 ELSE 0

\* The folders on the screen are those of the last attempt that came back,
\* which succeeded: never what another account listed before a failure.
ShownIsCurrent ==
    \A p \in Programs :
        app[p].open /\ app[p].shown # {} =>
            /\ app[p].last.ok
            /\ app[p].shown = app[p].last.listed
            /\ app[p].shown_of = app[p].last.account

\* The button does not stay dead: every attempt comes back, or the window
\* is closed.
AttemptsEnd ==
    \A p \in Programs :
        app[p].open /\ app[p].connecting ~> ~(app[p].open /\ app[p].connecting)

================================================================================
