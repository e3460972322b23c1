------------------------------ MODULE ManageSieve ------------------------------
(***************************************************************************)
(* put_active_script (thundercrab-imap/src/managesieve.rs) and the server  *)
(* it talks to: greeting, STARTTLS, TLS handshake, capabilities,           *)
(* AUTHENTICATE, PUTSCRIPT, SETACTIVE, each answered before the next, with *)
(* a connection of its own for every call.                                 *)
(*                                                                         *)
(* The stream from the server is a sequence of lines.  What matters about  *)
(* a line is the word at its start and whether parse_literal_marker finds  *)
(* a marker in it, which then stands for "drop what follows".  The bytes   *)
(* of a literal are one more line, and look like an OK: the worst they can.*)
(* A capability's value and a reply's text may be literals (RFC 5804, 1.2).*)
(*                                                                         *)
(* The rest of the programs' state is in the modules that call this one.   *)
(***************************************************************************)
EXTENDS Naturals, Sequences

CONSTANTS
    Callers,        \* processes that call put_active_script
    ScriptNames,
    Scripts,        \* contents
    NoName,         \* no script is active
    NoScript        \* the server has no script of this name

ASSUME SieveAssumption == NoName \notin ScriptNames /\ NoScript \notin Scripts

\* The server speaks first in these stages; in the others it answers.
Announced == {"greeting", "capabilities"}

Commands == {"starttls", "authenticate", "putscript", "setactive"}

Stages == {"idle", "connect", "handshake"} \cup Announced \cup Commands

Results == {"none", "ok", "auth", "protocol", "transport"}

NoPush == [name |-> NoName, script |-> NoScript]

Push == [name : ScriptNames, script : Scripts]

\* re is history: the stage a line answers.
Line ==
    [word : {"capability", "OK", "NO", "BYE"}, marker : BOOLEAN,
     re : Announced \cup Commands \cup {"literal", "nothing"}]

NothingHeard == [at |-> "idle", re |-> "nothing", word |-> "capability"]

VARIABLES
    stage,      \* where each call is
    written,    \* the stage's command was written
    link,       \* the connection: "none", "open", "closed" by the server
    inbound,    \* lines sent to the client and not read yet
    request,    \* the stage the server has yet to answer, or "none"
    push,       \* the arguments of each call
    returned,   \* what the last call returned
    scripts,    \* server: the scripts of the account
    active,     \* server: the name of the active one
    done,       \* history: the commands of the call the server obeyed
    quiet,      \* history: no one else changed the filters since the call began
    heard       \* history: the last terminator read_response returned

connection == <<stage, written, link, inbound, request, returned>>

filters == <<scripts, active, done, quiet>>

sieve_vars == <<connection, push, filters, heard>>

SieveInit ==
    /\ stage = [p \in Callers |-> "idle"]
    /\ written = [p \in Callers |-> FALSE]
    /\ link = [p \in Callers |-> "none"]
    /\ inbound = [p \in Callers |-> <<>>]
    /\ request = [p \in Callers |-> "none"]
    /\ push = [p \in Callers |-> NoPush]
    /\ returned = [p \in Callers |-> "none"]
    /\ scripts = [n \in ScriptNames |-> NoScript]
    /\ active = NoName
    /\ done = [p \in Callers |-> {}]
    /\ quiet = [p \in Callers |-> TRUE]
    /\ heard = [p \in Callers |-> NothingHeard]

--------------------------------------------------------------------------------
(* The server. *)

LineOf(word, marker, s) == [word |-> word, marker |-> marker, re |-> s]

Literal == LineOf("OK", FALSE, "literal")

\* What may precede the terminator of an answer.
Capabilities(s) ==
    IF s \in Announced
    THEN {<<LineOf("capability", FALSE, s)>>, <<LineOf("capability", TRUE, s), Literal>>}
    ELSE {<<>>}

\* A terminator; to a command, also one with its text in a literal, and one
\* with a quoted text that has a number in braces.
Terminators(word, s) ==
    {<<LineOf(word, FALSE, s)>>} \cup
    IF s \in Announced
    THEN {}
    ELSE {<<LineOf(word, TRUE, s), Literal>>, <<LineOf(word, TRUE, s)>>}

\* The filters are somebody else's work from now on.
Disturb(p) == quiet' = [q \in Callers |-> quiet[q] /\ q = p]

Obey(p, s) ==
    /\ s \in {"putscript", "setactive"} => "authenticate" \in done[p]
    /\ s = "setactive" => scripts[push[p].name] # NoScript
    /\ scripts' = IF s = "putscript"
                  THEN [scripts EXCEPT ![push[p].name] = push[p].script]
                  ELSE scripts
    /\ active' = IF s = "setactive" THEN push[p].name ELSE active
    /\ done' = [done EXCEPT ![p] = @ \cup {s}]
    /\ IF s \in {"putscript", "setactive"} THEN Disturb(p) ELSE UNCHANGED quiet

\* Another client of the account.
ChangeFilters(name, script) ==
    /\ scripts' = [scripts EXCEPT ![name] = script]
    /\ active' = IF script # NoScript THEN name ELSE IF active = name THEN NoName ELSE active
    /\ quiet' = [q \in Callers |-> FALSE]
    /\ UNCHANGED <<connection, push, done, heard>>

Answer(p, word) ==
    /\ request[p] # "none"
    /\ link[p] = "open"
    /\ IF word = "OK" THEN Obey(p, request[p]) ELSE UNCHANGED filters
    /\ \E before \in Capabilities(request[p]), end \in Terminators(word, request[p]) :
          inbound' = [inbound EXCEPT ![p] = @ \o before \o end]
    /\ request' = [request EXCEPT ![p] = "none"]
    /\ link' = IF word = "BYE" THEN [link EXCEPT ![p] = "closed"] ELSE link
    /\ UNCHANGED <<stage, written, push, returned, heard>>

\* The server waits for a command no longer.
GoIdle(p) ==
    /\ request[p] = "none"
    /\ link[p] = "open"
    /\ inbound' = [inbound EXCEPT ![p] = Append(@, LineOf("BYE", FALSE, "nothing"))]
    /\ link' = [link EXCEPT ![p] = "closed"]
    /\ UNCHANGED <<stage, written, request, push, returned, filters, heard>>

\* read_line returns a line without its end, too: its word may still be
\* there, and a marker, which comes after it, not any more.  (Half a literal
\* is an error, as none at all is.)
Torn(line) ==
    {LineOf(w, FALSE, line.re) : w \in
        IF line.re = "literal" THEN {} ELSE {line.word, "capability"}}

\* What is left of a stream that is cut after line n, or in it.
CutAt(lines, n) ==
    {SubSeq(lines, 1, n)} \cup
    IF n = 0 THEN {} ELSE {Append(SubSeq(lines, 1, n - 1), l) : l \in Torn(lines[n])}

\* The connection breaks, and with it the end of the stream is lost and
\* perhaps the answer to a command that was obeyed.
Break(p) ==
    /\ link[p] = "open"
    /\ link' = [link EXCEPT ![p] = "closed"]
    /\ \E n \in 0..Len(inbound[p]) : \E rest \in CutAt(inbound[p], n) :
          inbound' = [inbound EXCEPT ![p] = rest]
    /\ UNCHANGED filters \/ (request[p] # "none" /\ Obey(p, request[p]))
    /\ request' = [request EXCEPT ![p] = "none"]
    /\ UNCHANGED <<stage, written, push, returned, heard>>

--------------------------------------------------------------------------------
(* The client. *)

Call(p, name, script) ==
    /\ stage[p] = "idle"
    /\ stage' = [stage EXCEPT ![p] = "connect"]
    /\ push' = [push EXCEPT ![p] = [name |-> name, script |-> script]]
    /\ done' = [done EXCEPT ![p] = {}]
    /\ heard' = [heard EXCEPT ![p] = NothingHeard]
    /\ returned' = [returned EXCEPT ![p] = "none"]
    /\ quiet' = [quiet EXCEPT ![p] = TRUE]
    /\ UNCHANGED <<written, link, inbound, request, scripts, active>>

\* A new process, with no call behind it.
ForgetCall(p) ==
    /\ push' = [push EXCEPT ![p] = NoPush]
    /\ returned' = [returned EXCEPT ![p] = "none"]
    /\ done' = [done EXCEPT ![p] = {}]
    /\ heard' = [heard EXCEPT ![p] = NothingHeard]
    /\ quiet' = [quiet EXCEPT ![p] = TRUE]
    /\ UNCHANGED <<stage, written, link, inbound, request, scripts, active>>

\* The connection goes when the call returns, whatever it returns.
Return(p, result) ==
    /\ stage' = [stage EXCEPT ![p] = "idle"]
    /\ written' = [written EXCEPT ![p] = FALSE]
    /\ link' = [link EXCEPT ![p] = "none"]
    /\ inbound' = [inbound EXCEPT ![p] = <<>>]
    /\ request' = [request EXCEPT ![p] = "none"]
    /\ returned' = [returned EXCEPT ![p] = result]

\* On to a stage in which the server speaks first: nothing is written.
Listen(p, s) ==
    /\ stage' = [stage EXCEPT ![p] = s]
    /\ written' = [written EXCEPT ![p] = TRUE]
    /\ link' = [link EXCEPT ![p] = "open"]
    /\ inbound' = [inbound EXCEPT ![p] = <<>>]
    /\ request' = [request EXCEPT ![p] = s]
    /\ UNCHANGED returned

Connect(p) ==
    /\ stage[p] = "connect"
    /\ Listen(p, "greeting") \/ Return(p, "transport")
    /\ UNCHANGED <<push, filters, heard>>

\* into_inner drops what the plain stream had buffered.
Handshake(p) ==
    /\ stage[p] = "handshake"
    /\ (link[p] = "open" /\ Listen(p, "capabilities")) \/ Return(p, "transport")
    /\ UNCHANGED <<push, filters, heard>>

\* A write on a connection the server closed fails, or is lost.
Write(p) ==
    /\ stage[p] \in Commands /\ ~written[p]
    /\ \/ /\ written' = [written EXCEPT ![p] = TRUE]
          /\ request' = IF link[p] = "open"
                        THEN [request EXCEPT ![p] = stage[p]]
                        ELSE request
          /\ UNCHANGED <<stage, link, inbound, returned>>
       \/ link[p] = "closed" /\ Return(p, "transport")
    /\ UNCHANGED <<push, filters, heard>>

Reading(p) == stage[p] \in Announced \cup Commands /\ written[p]

\* Wrong variant (mutation runs): the literal's bytes are left in the stream.
LiteralLeft(p) ==
    /\ Reading(p) /\ inbound[p] # <<>> /\ inbound[p][1].marker
    /\ inbound' = [inbound EXCEPT ![p] = Tail(@)]
    /\ UNCHANGED <<stage, written, link, request, returned, push, filters, heard>>

\* A line with a marker is dropped with the bytes after it, for which the
\* client waits, and the rest of the line those end in (one Literal here,
\* whatever lines it fills); the start of the line is not looked at.
DrainLiteral(p) ==
    /\ Reading(p) /\ inbound[p] # <<>> /\ inbound[p][1].marker
    /\ \/ /\ Len(inbound[p]) > 1
          /\ inbound' = [inbound EXCEPT ![p] = Tail(Tail(@))]
          /\ UNCHANGED <<stage, written, link, request, returned>>
       \/ /\ Len(inbound[p]) = 1 /\ link[p] = "closed"
          /\ Return(p, "transport")
    /\ UNCHANGED <<push, filters, heard>>

SkipCapability(p) ==
    /\ Reading(p) /\ inbound[p] # <<>> /\ ~inbound[p][1].marker
    /\ inbound[p][1].word = "capability"
    /\ inbound' = [inbound EXCEPT ![p] = Tail(@)]
    /\ UNCHANGED <<stage, written, link, request, returned, push, filters, heard>>

\* Wrong variant (mutation runs): an empty read_line is one more line.
EndIsALine(p) ==
    /\ Reading(p) /\ inbound[p] = <<>> /\ link[p] = "closed"
    /\ UNCHANGED sieve_vars

\* read_line returns 0
ReachEnd(p) ==
    /\ Reading(p) /\ inbound[p] = <<>> /\ link[p] = "closed"
    /\ Return(p, "transport")
    /\ UNCHANGED <<push, filters, heard>>

\* read_response returns a terminator.
Hear(p, word) ==
    /\ Reading(p) /\ inbound[p] # <<>> /\ ~inbound[p][1].marker
    /\ inbound[p][1].word = word
    /\ heard' = [heard EXCEPT ![p] = [at |-> stage[p], re |-> inbound[p][1].re,
                                      word |-> word]]
    /\ UNCHANGED <<push, filters>>

After(s) ==
    CASE s = "greeting"     -> "starttls"
      [] s = "starttls"     -> "handshake"
      [] s = "capabilities" -> "authenticate"
      [] s = "authenticate" -> "putscript"
      [] s = "putscript"    -> "setactive"

Proceed(p) ==
    /\ stage' = [stage EXCEPT ![p] = After(@)]
    /\ written' = [written EXCEPT ![p] = FALSE]
    /\ inbound' = [inbound EXCEPT ![p] = Tail(@)]
    /\ UNCHANGED <<link, request, returned>>

\* The last OK is followed by LOGOUT, whose fate is ignored.
HearOk(p) ==
    /\ Hear(p, "OK")
    /\ IF stage[p] = "setactive" THEN Return(p, "ok") ELSE Proceed(p)

\* Wrong variant (mutation runs): a script that does not compile is activated.
HearNoGoOn(p) ==
    /\ Hear(p, "NO")
    /\ IF stage[p] = "putscript"
       THEN Proceed(p)
       ELSE Return(p, IF stage[p] = "authenticate" THEN "auth" ELSE "protocol")

HearNo(p) ==
    /\ Hear(p, "NO")
    /\ Return(p, IF stage[p] = "authenticate" THEN "auth" ELSE "protocol")

HearBye(p) ==
    /\ Hear(p, "BYE")
    /\ Return(p, CASE stage[p] = "authenticate" -> "auth"
                   [] stage[p] \in {"putscript", "setactive"} -> "protocol"
                   [] OTHER -> "transport")

PutActiveScript(p) ==
    \/ Connect(p) \/ Handshake(p) \/ Write(p)
    \/ DrainLiteral(p) \/ SkipCapability(p) \/ ReachEnd(p)
    \/ HearOk(p) \/ HearNo(p) \/ HearBye(p)

SieveServer(p) == (\E w \in {"OK", "NO", "BYE"} : Answer(p, w)) \/ GoIdle(p) \/ Break(p)

\* The process is killed; the server may still obey what it was sent.
AbandonPush(p) ==
    /\ UNCHANGED filters \/ (request[p] # "none" /\ Obey(p, request[p]))
    /\ Return(p, "none")
    /\ UNCHANGED <<push, heard>>

--------------------------------------------------------------------------------
(* Properties. *)

SieveTypeOK ==
    /\ stage \in [Callers -> Stages]
    /\ written \in [Callers -> BOOLEAN]
    /\ link \in [Callers -> {"none", "open", "closed"}]
    /\ inbound \in [Callers -> Seq(Line)]
    /\ request \in [Callers -> Announced \cup Commands \cup {"none"}]
    /\ push \in [Callers -> Push \cup {NoPush}]
    /\ returned \in [Callers -> Results]
    /\ scripts \in [ScriptNames -> Scripts \cup {NoScript}]
    /\ active \in ScriptNames \cup {NoName}
    /\ done \in [Callers -> SUBSET (Announced \cup Commands)]
    /\ quiet \in [Callers -> BOOLEAN]

\* The client and the server stay in step: what read_response returns for a
\* command is the server's answer to that very command, or the BYE of a
\* server that hangs up, never the bytes of a literal and never the answer
\* to another command (managesieve.rs:231, "so we don't desync").
InStep ==
    \A p \in Callers :
        \/ heard[p].re = heard[p].at
        \/ heard[p].re = "nothing" /\ heard[p].word \in {"BYE", "capability"}

\* What put_active_script returns is what became of the filters: after Ok
\* the active script is the one it was called with, until somebody else
\* changes it; after a NO the refused command was not obeyed, and SETACTIVE
\* neither.  (After Transport or a BYE either may be true.)
PushIsHonest ==
    \A p \in Callers :
        /\ returned[p] = "ok" /\ quiet[p] =>
              active = push[p].name /\ scripts[active] = push[p].script
        /\ returned[p] # "none" /\ heard[p].word = "NO" =>
              heard[p].at \notin done[p] /\ "setactive" \notin done[p]

\* read_response returns the terminator of a response (managesieve.rs:207,
\* "Read exactly one ManageSieve response (capability lines + final
\* terminator). Returns the terminator type"): the client does not wait for
\* one when the server answered, the connection is up and all was read.
TerminatorReturned ==
    \A p \in Callers :
        ~ (Reading(p) /\ request[p] = "none" /\ inbound[p] = <<>> /\ link[p] = "open")

================================================================================
