----------------------------- MODULE CommandLine -----------------------------
(***************************************************************************)
(* The crab command (thundercrab-cli/src/main.rs): one process per         *)
(* invocation, which lists folders, fetches headers, pushes a Sieve script *)
(* or submits one message (thundercrab-imap/src/smtp.rs), and exits with   *)
(* SUCCESS or 1.                                                           *)
(*                                                                         *)
(* What can be wrong with an invocation before the network is used is a    *)
(* set of flaws; each of them ends it with 1, so the order in which they   *)
(* are looked for does not matter, except that parse_mailbox is called by  *)
(* send_message.  Submission is lettre's: one connection, one message.     *)
(***************************************************************************)
EXTENDS FolderListing, ManageSieve

CONSTANTS
    Invocations,
    Account         \* the account of the environment variables

\* An IMAP_ variable is not set (password included), a file is not readable,
\* there is no recipient, the encryption is unknown, an address cannot be
\* parsed.
Flaws == {"environment", "file", "no_recipient", "encryption", "mailbox"}

\* Only cmd_send looks at recipients, encryption and addresses.
Invocation ==
    [command : {"list", "fetch"}, flaws : SUBSET {"environment"}]
        \cup [command : {"send"}, flaws : SUBSET Flaws]
        \cup [command : {"push"}, flaws : SUBSET {"environment", "file"},
              name : ScriptNames, script : Scripts]

ASSUME InvocationsAssumption == Invocations \subseteq Invocation

ASSUME AccountAssumption == Account \in Accounts /\ 1 \in Slots

ASSUME CallersAssumption == Callers = Programs

NoCrab == [at |-> "none"]

\* accepted is history: how often the submission server took the message.
Crab ==
    [at : {"start", "listing", "pushing", "composing", "submitting", "answering", "exited"},
     run : Invocation, exit : {"none", "success", "failure", "killed"}, accepted : 0..1]

VARIABLE
    crab        \* the invocation each program runs, or ran last

crab_world == <<listing_vars, sieve_vars>>

Main(p) == <<p, 1>>

Invoke(p, run) ==
    /\ crab[p].at \in {"none", "exited"}
    /\ crab' = [crab EXCEPT ![p] =
                   [at |-> "start", run |-> run, exit |-> "none", accepted |-> 0]]
    /\ ForgetCall(p)
    /\ UNCHANGED listing_vars

Goes(p, at) == crab' = [crab EXCEPT ![p].at = at]

Exits(p, how) == crab' = [crab EXCEPT ![p].at = "exited", ![p].exit = how]

\* load_config, the password, and the checks of cmd_push_sieve and cmd_send.
Reject(p) ==
    /\ crab[p].at = "start"
    /\ crab[p].run.flaws \ {"mailbox"} # {}
    /\ Exits(p, "failure")
    /\ UNCHANGED crab_world

Sound(p, commands) ==
    /\ crab[p].at = "start"
    /\ crab[p].run.flaws \subseteq {"mailbox"}
    /\ crab[p].run.command \in commands

\* cmd_list, cmd_fetch
Open(p) ==
    /\ Sound(p, {"list", "fetch"})
    /\ Goes(p, "listing")
    /\ \E secret \in BOOLEAN : Start(Main(p), crab[p].run.command, Account, secret)
    /\ UNCHANGED sieve_vars

ListingDone(p) ==
    /\ crab[p].at = "listing"
    /\ task[Main(p)].at = "returned"
    /\ Exits(p, IF task[Main(p)].ok THEN "success" ELSE "failure")
    /\ task' = [task EXCEPT ![Main(p)] = NoTask]
    /\ UNCHANGED <<mailboxes, lasting, sieve_vars>>

\* cmd_push_sieve
PushScript(p) ==
    /\ Sound(p, {"push"})
    /\ Goes(p, "pushing")
    /\ Call(p, crab[p].run.name, crab[p].run.script)
    /\ UNCHANGED listing_vars

\* Wrong variant (mutation runs): the result is printed and dropped.
PushDoneAnyhow(p) ==
    /\ crab[p].at = "pushing"
    /\ returned[p] # "none"
    /\ Exits(p, "success")
    /\ UNCHANGED crab_world

PushDone(p) ==
    /\ crab[p].at = "pushing"
    /\ returned[p] # "none"
    /\ Exits(p, IF returned[p] = "ok" THEN "success" ELSE "failure")
    /\ UNCHANGED crab_world

\* cmd_send, once the checks are passed
Compose(p) ==
    /\ Sound(p, {"send"})
    /\ Goes(p, "composing")
    /\ UNCHANGED crab_world

\* send_message up to send: the addresses are parsed before any connection.
BuildTransport(p) ==
    /\ crab[p].at = "composing"
    /\ IF "mailbox" \in crab[p].run.flaws
       THEN Exits(p, "failure")
       ELSE Goes(p, "submitting")
    /\ UNCHANGED crab_world

\* transport.send: the server takes the message, or something fails first,
\* a rejected AUTH among the rest.
Submit(p) ==
    /\ crab[p].at = "submitting"
    /\ \/ crab' = [crab EXCEPT ![p].at = "answering", ![p].accepted = @ + 1]
       \/ Exits(p, "failure")
    /\ UNCHANGED crab_world

\* Wrong variant (mutation runs): an answer that is lost is asked for again.
SubmitAgain(p) ==
    /\ crab[p].at = "answering"
    /\ Exits(p, "success") \/ Goes(p, "submitting")
    /\ UNCHANGED crab_world

\* The 250 arrives, or the connection breaks before it does.
Submitted(p) ==
    /\ crab[p].at = "answering"
    /\ Exits(p, "success") \/ Exits(p, "failure")
    /\ UNCHANGED crab_world

\* ^C, or the machine stops.  Nothing here gives up by itself.
Die(p) ==
    /\ crab[p].at \notin {"none", "start", "exited"}
    /\ Exits(p, "killed")
    /\ task' = [task EXCEPT ![Main(p)] = NoTask]
    /\ IF stage[p] = "idle" THEN UNCHANGED sieve_vars ELSE AbandonPush(p)
    /\ UNCHANGED <<mailboxes, lasting>>

CrabStep(p) ==
    \/ Reject(p) \/ Open(p) \/ ListingDone(p) \/ PushScript(p) \/ PushDone(p)
    \/ Compose(p) \/ BuildTransport(p) \/ Submit(p) \/ Submitted(p)

--------------------------------------------------------------------------------
(* Properties. *)

CrabTypeOK == crab \in [Programs -> Crab \cup {NoCrab}]

\* Exit status 0 means it was done (main.rs:97): the script of this very
\* invocation was stored and activated by the server, or the message was
\* accepted, once.  An invocation with a flaw exits with 1 and has reached
\* no server.
ExitIsHonest ==
    \A p \in Programs :
        crab[p].at = "exited" =>
            LET run == crab[p].run
                success == crab[p].exit = "success"
                pushed == {"authenticate", "putscript", "setactive"} \subseteq done[p]
            IN  /\ success /\ run.command = "push" => pushed
                /\ success /\ run.command = "send" => crab[p].accepted = 1
                /\ run.flaws # {} => ~success /\ done[p] = {} /\ crab[p].accepted = 0

\* Every invocation exits although no call in it has a timeout
\* (managesieve.rs:218, rust_imap.rs:84), if the servers in the end answer or
\* hang up: the client notices, even with half of an answer read.
CrabExits ==
    \A p \in Programs :
        crab[p].at \notin {"none", "exited"} ~> crab[p].at \in {"none", "exited"}

================================================================================
