-------------------------- MODULE ImapBackendProofs --------------------------
(***************************************************************************)
(* The safety of the shared IMAP session for any tasks, folders, messages, *)
(* limits and bounds: no message is lost, none moves that nobody asked     *)
(* about, and a limited listing is the most recent mail.                   *)
(*                                                                         *)
(* The invariant has three parts, proved one after the other: who holds    *)
(* the session and what it has open (Typed), what is in the folders        *)
(* (MailInv), and what EXAMINE counted (SeenInv).                          *)
(***************************************************************************)
EXTENDS ImapBackend, FiniteSetTheorems, TLAPS

MoveCommands == {"uid_mv", "uid_copy", "uid_store", "expunge"}

\* A task in the middle of an operation holds the session and, once past
\* SELECT or EXAMINE, has the folder of its call open; what it moves somebody
\* asked to move, by a uid that no copy gets any more.
ControlInv ==
    \A t \in Tasks :
        /\ pc[t] # "idle" <=> holder = t
        /\ pc[t] = "select" => call[t] \in MoveMessage \cup SetFlag
        /\ pc[t] \in MoveCommands => call[t] \in MoveMessage
        /\ pc[t] \in {"examine", "fetch"} => call[t] \in FetchHeaders
        /\ pc[t] = "set_flag" => call[t] \in SetFlag
        /\ pc[t] \in MoveCommands \cup {"fetch", "set_flag"} => selected = call[t].from
        /\ pc[t] # "idle" /\ call[t].op = "move" =>
              <<call[t].from, call[t].uid>> \in asked /\ call[t].uid < uidnext[call[t].from]

Typed == TypeOK /\ ControlInv

\* A copy that no flag marks for expunging.
Kept(f, uid, m) == [uid |-> uid, message |-> m, deleted |-> FALSE] \in mail[f]

\* Whoever sends STORE to flag a copy has made another that is not flagged.
CopiedFirst ==
    \A t \in Tasks : \A c \in Opened :
        pc[t] = "uid_store" /\ c.uid = call[t].uid /\ c.message \notin discarded =>
            \E f \in Folders : \E u \in Nat :
                Kept(f, u, c.message) /\ <<f, u>> # <<selected, c.uid>>

UniqueUids == \A f \in Folders : \A c, d \in mail[f] : c.uid = d.uid => c = d

KnownMessages == \A f \in Folders : \A c \in mail[f] : \E d \in delivered : d[1] = c.message

KeptSomewhere ==
    \A d \in delivered :
        d[1] \notin discarded => \E f \in Folders : \E u \in Nat : Kept(f, u, d[1])

KeptInInbox ==
    \A d \in delivered :
        d[1] \notin discarded /\ <<Inbox, d[2]>> \notin asked => Kept(Inbox, d[2], d[1])

Mailboxes == UniqueUids /\ KnownMessages /\ KeptSomewhere /\ KeptInInbox

MailInv == Mailboxes /\ CopiedFirst

\* Until FETCH, what EXAMINE counted is older than anything that came since.
SeenInv ==
    /\ \A t \in Tasks : IsFiniteSet(seen[t])
    /\ \A t \in Tasks : pc[t] = "fetch" =>
          /\ \A v \in seen[t] : v < uidnext[selected]
          /\ \A v \in seen[t], c \in mail[selected] : c.uid \notin seen[t] => v < c.uid

--------------------------------------------------------------------------------
(* Commands. *)

\* A command changes the mailboxes as asked or not at all, and as its answer
\* says unless that is lost.
LEMMA CommandOutcome ==
    ASSUME NEW answer, NEW m, NEW u, Command(answer, m, u), alive \in BOOLEAN
    PROVE  /\ alive' \in BOOLEAN
           /\ \/ mail' = mail /\ uidnext' = uidnext
              \/ mail' = m /\ uidnext' = u
           /\ answer = "ok" => mail' = m /\ uidnext' = u
           /\ answer = "no" => mail' = mail /\ uidnext' = uidnext
BY DEF Command, server

--------------------------------------------------------------------------------
(* Types and control. *)

LEMMA TypedInit == Init => Typed
BY NamesAssumption, BoundsAssumption
   DEF Init, Typed, TypeOK, ControlInv, MoveCommands, NoCall

\* What a command leaves typed, whatever comes of it.
LEMMA CommandTyped ==
    ASSUME NEW answer, NEW m, NEW u, Command(answer, m, u), Typed,
           m \in [Folders -> SUBSET Copy], u \in [Folders -> Nat \ {0}],
           \A f \in Folders : uidnext[f] <= u[f],
           \A f \in Folders : \A c \in m[f] : c.uid < u[f]
    PROVE  /\ mail' \in [Folders -> SUBSET Copy]
           /\ uidnext' \in [Folders -> Nat \ {0}]
           /\ \A f \in Folders : uidnext[f] <= uidnext'[f]
           /\ \A f \in Folders : \A c \in mail'[f] : c.uid < uidnext'[f]
           /\ alive' \in BOOLEAN
<1>1. alive \in BOOLEAN
  BY DEF Typed, TypeOK
<1>2. alive' \in BOOLEAN
  BY <1>1, CommandOutcome
<1>3. (mail' = mail /\ uidnext' = uidnext) \/ (mail' = m /\ uidnext' = u)
  BY <1>1, CommandOutcome
<1> QED BY <1>2, <1>3 DEF Typed, TypeOK

\* Flagging keeps the types, and every copy its uid and its message.
LEMMA FlaggedCopies ==
    ASSUME NEW copies \in SUBSET Copy, NEW uid, NEW set \in BOOLEAN
    PROVE  /\ Flagged(copies, uid, set) \subseteq Copy
           /\ \A c \in Flagged(copies, uid, set) : \E d \in copies :
                 /\ c.uid = d.uid /\ c.message = d.message
                 /\ c.deleted = IF d.uid = uid THEN set ELSE d.deleted
           /\ \A d \in copies : d.uid # uid => d \in Flagged(copies, uid, set)
           /\ \A d \in copies : [d EXCEPT !.deleted = set] \in Copy
BY DEF Flagged, Copy

\* Flagging in the selected folder.
LEMMA FlaggedMail ==
    ASSUME Typed, NEW uid, NEW set \in BOOLEAN, NEW f
    PROVE  LET m == [mail EXCEPT ![f] = Flagged(@, uid, set)]
           IN  /\ m \in [Folders -> SUBSET Copy]
               /\ \A g \in Folders : \A c \in m[g] : c.uid < uidnext[g]
<1> DEFINE m == [mail EXCEPT ![f] = Flagged(@, uid, set)]
<1>1. mail \in [Folders -> SUBSET Copy] /\ \A g \in Folders : \A c \in mail[g] : c.uid < uidnext[g]
  BY DEF Typed, TypeOK
<1>2. ASSUME NEW g \in Folders
      PROVE  m[g] \in SUBSET Copy /\ \A c \in m[g] : c.uid < uidnext[g]
  <2>1. CASE g = f
    <3>1. m[g] = Flagged(mail[g], uid, set)
      BY <1>1, <2>1
    <3> QED BY <1>1, <3>1, FlaggedCopies
  <2>2. CASE g # f
    BY <1>1, <2>2
  <2> QED BY <2>1, <2>2
<1> QED BY <1>1, <1>2

\* Copies added under the next uid of a folder.
LEMMA AddedCopies ==
    ASSUME Typed, NEW copies \in SUBSET Copy, NEW to \in Folders
    PROVE  /\ Added(copies, to) \subseteq Copy
           /\ \A c \in Added(copies, to) : \E d \in copies :
                 c.uid = uidnext[to] /\ c.message = d.message /\ c.deleted = d.deleted
           /\ \A d \in copies : \E c \in Added(copies, to) :
                 c.uid = uidnext[to] /\ c.message = d.message /\ c.deleted = d.deleted
           /\ NextUid(copies, to) \in [Folders -> Nat \ {0}]
           /\ \A f \in Folders : uidnext[f] <= NextUid(copies, to)[f]
           /\ copies # {} => uidnext[to] < NextUid(copies, to)[to]
           /\ copies = {} => Added(copies, to) = {}
<1>1. uidnext \in [Folders -> Nat \ {0}]
  BY DEF Typed, TypeOK
<1>2. \A d \in copies : /\ [d EXCEPT !.uid = uidnext[to]] \in Copy
                        /\ [d EXCEPT !.uid = uidnext[to]].uid = uidnext[to]
                        /\ [d EXCEPT !.uid = uidnext[to]].message = d.message
                        /\ [d EXCEPT !.uid = uidnext[to]].deleted = d.deleted
  BY <1>1 DEF Copy
<1>3. /\ NextUid(copies, to) \in [Folders -> Nat \ {0}]
      /\ \A f \in Folders : uidnext[f] <= NextUid(copies, to)[f]
      /\ copies # {} => uidnext[to] < NextUid(copies, to)[to]
  BY <1>1 DEF NextUid
<1> QED BY <1>2, <1>3 DEF Added

\* COPY and MOVE: every folder keeps its copies or some of them, and `to` gets
\* the new ones.
LEMMA AddedMail ==
    ASSUME Typed, NEW copies \in SUBSET Copy, NEW to \in Folders,
           NEW left \in [Folders -> SUBSET Copy], \A f \in Folders : left[f] \subseteq mail[f]
    PROVE  LET m == [left EXCEPT ![to] = @ \cup Added(copies, to)]
           IN  /\ m \in [Folders -> SUBSET Copy]
               /\ \A f \in Folders : \A c \in m[f] : c.uid < NextUid(copies, to)[f]
<1> DEFINE m == [left EXCEPT ![to] = @ \cup Added(copies, to)]
<1>1. /\ uidnext \in [Folders -> Nat \ {0}]
      /\ \A f \in Folders : \A c \in mail[f] : c \in Copy /\ c.uid < uidnext[f]
  BY DEF Typed, TypeOK
<1>2. /\ Added(copies, to) \subseteq Copy
      /\ \A c \in Added(copies, to) : c.uid = uidnext[to]
      /\ NextUid(copies, to) \in [Folders -> Nat \ {0}]
      /\ \A f \in Folders : uidnext[f] <= NextUid(copies, to)[f]
      /\ copies # {} => uidnext[to] < NextUid(copies, to)[to]
      /\ copies = {} => Added(copies, to) = {}
  BY AddedCopies
<1>3. ASSUME NEW f \in Folders, NEW c \in m[f]
      PROVE  c \in Copy /\ c.uid < NextUid(copies, to)[f]
  <2>1. CASE c \in left[f]
    <3>1. c \in Copy /\ c.uid < uidnext[f]
      BY <1>1, <2>1
    <3> QED BY <1>1, <1>2, <3>1 DEF Copy
  <2>2. CASE c \notin left[f]
    <3>1. f = to /\ c \in Added(copies, to)
      BY <2>2
    <3> QED BY <1>1, <1>2, <3>1
  <2> QED BY <2>1, <2>2
<1>4. m \in [Folders -> SUBSET Copy]
  BY <1>2
<1> QED BY <1>3, <1>4

\* The holder of the session is the only task in the middle of an operation.
LEMMA Alone ==
    ASSUME Typed, NEW t \in Tasks, pc[t] # "idle"
    PROVE  holder = t /\ \A u \in Tasks \ {t} : pc[u] = "idle"
BY DEF Typed, ControlInv

Labels == {"select", "uid_mv", "uid_copy", "uid_store", "expunge", "examine", "fetch", "set_flag"}

\* The operation of `t` goes on to a command that fits its call, on the folder
\* of its call, or returns.
GoesOn(t) ==
    \/ \E ok \in BOOLEAN, uids \in SUBSET Nat : Return(t, ok, uids)
    \/ \E label \in Labels \ {"select", "examine"} :
         /\ GoTo(t, label)
         /\ selected' = call[t].from
         /\ label \in MoveCommands => call[t] \in MoveMessage
         /\ label = "fetch" => call[t] \in FetchHeaders
         /\ label = "set_flag" => call[t] \in SetFlag

\* What all the commands of the operations have in common.
LEMMA CommandKeepsTyped ==
    ASSUME Typed, NEW t \in Tasks, pc[t] # "idle",
           NEW answer, NEW m, NEW u, Command(answer, m, u),
           m \in [Folders -> SUBSET Copy], u \in [Folders -> Nat \ {0}],
           \A f \in Folders : uidnext[f] <= u[f],
           \A f \in Folders : \A c \in m[f] : c.uid < u[f],
           selected' \in Folders \cup {NoFolder}, seen' \in [Tasks -> SUBSET Nat],
           discarded' \subseteq Messages,
           UNCHANGED <<call, bounds, delivered, asked>>,
           GoesOn(t)
    PROVE  Typed'
<1>1. /\ mail' \in [Folders -> SUBSET Copy]
      /\ uidnext' \in [Folders -> Nat \ {0}]
      /\ \A f \in Folders : uidnext[f] <= uidnext'[f]
      /\ \A f \in Folders : \A c \in mail'[f] : c.uid < uidnext'[f]
      /\ alive' \in BOOLEAN
  BY CommandTyped
<1>2. holder = t /\ \A w \in Tasks \ {t} : pc[w] = "idle"
  BY Alone
<1>3. TypeOK /\ ControlInv
  BY DEF Typed
<1>4. CASE \E ok \in BOOLEAN, uids \in SUBSET Nat : Return(t, ok, uids)
  <2>1. PICK ok \in BOOLEAN, uids \in SUBSET Nat : Return(t, ok, uids)
    BY <1>4
  <2>2. pc' = [pc EXCEPT ![t] = "idle"] /\ holder' = NoTask
        /\ result' = [result EXCEPT ![t] = [ok |-> ok, uids |-> uids]]
    BY <2>1 DEF Return
  <2>3. \A w \in Tasks : pc'[w] = "idle" /\ holder' # w
    BY <1>2, <1>3, <2>2, NamesAssumption DEF TypeOK
  <2>4. ControlInv'
    BY <2>3 DEF ControlInv, MoveCommands
  <2>5. TypeOK'
    BY <1>1, <1>3, <2>2 DEF TypeOK, bounds
  <2> QED BY <2>4, <2>5 DEF Typed
<1>5. CASE \E label \in Labels \ {"select", "examine"} :
             /\ GoTo(t, label)
             /\ selected' = call[t].from
             /\ label \in MoveCommands => call[t] \in MoveMessage
             /\ label = "fetch" => call[t] \in FetchHeaders
             /\ label = "set_flag" => call[t] \in SetFlag
  <2>1. PICK label \in Labels \ {"select", "examine"} :
             /\ GoTo(t, label)
             /\ selected' = call[t].from
             /\ label \in MoveCommands => call[t] \in MoveMessage
             /\ label = "fetch" => call[t] \in FetchHeaders
             /\ label = "set_flag" => call[t] \in SetFlag
    BY <1>5
  <2>2. pc' = [pc EXCEPT ![t] = label] /\ holder' = holder /\ result' = result
    BY <2>1 DEF GoTo
  <2>3. pc'[t] = label /\ label # "idle" /\ \A w \in Tasks \ {t} : pc'[w] = "idle" /\ holder' # w
    BY <1>2, <1>3, <2>2, NamesAssumption DEF TypeOK, Labels
  <2>4. call' = call /\ asked' = asked
    OBVIOUS
  <2>5. call[t].op = "move" =>
           /\ <<call[t].from, call[t].uid>> \in asked
           /\ call[t].uid < uidnext[call[t].from]
           /\ call[t].from \in Folders /\ call[t].uid \in Nat
    BY <1>3 DEF ControlInv, TypeOK, Call, NoCall, MoveMessage, FetchHeaders, SetFlag
  <2>6. call[t].op = "move" => call[t].uid < uidnext'[call[t].from]
    BY <1>1, <1>3, <2>5 DEF TypeOK
  <2>7. ControlInv'
    BY <1>2, <2>1, <2>2, <2>3, <2>4, <2>5, <2>6 DEF ControlInv, MoveCommands, Labels
  <2>8. TypeOK'
    BY <1>1, <1>3, <2>2 DEF TypeOK, bounds, Labels
  <2> QED BY <2>7, <2>8 DEF Typed
<1> QED BY <1>4, <1>5 DEF GoesOn

\* A task obeys its call: what a command needs to know of it.
LEMMA CallTyped ==
    ASSUME Typed, NEW t \in Tasks
    PROVE  /\ pc[t] \in MoveCommands =>
                /\ call[t].to \in Folders /\ call[t].uid \in Nat
                /\ call[t].from \in Folders /\ selected = call[t].from
           /\ pc[t] \in {"examine", "fetch"} => call[t].from \in Folders
           /\ pc[t] = "fetch" => selected = call[t].from
           /\ pc[t] = "select" => call[t].from \in Folders
           /\ pc[t] = "set_flag" => /\ call[t].uid \in Nat /\ call[t].set \in BOOLEAN
                                    /\ call[t].from \in Folders /\ selected = call[t].from
BY DEF Typed, ControlInv, MoveCommands, MoveMessage, FetchHeaders, SetFlag

LEMMA AddressedCopies ==
    ASSUME Typed, NEW uid
    PROVE  /\ Addressed(uid) \in SUBSET Copy /\ Opened \in SUBSET Copy
           /\ Uids(Opened) \subseteq Nat
           /\ \A f \in Folders : Uids(mail[f]) \subseteq Nat
BY DEF Typed, TypeOK, Addressed, Opened, Uids, Copy

\* A folder from which copies are removed.
LEMMA RemovedMail ==
    ASSUME Typed, NEW f, NEW kept, f \in Folders => kept \subseteq mail[f]
    PROVE  LET m == [mail EXCEPT ![f] = kept]
           IN  /\ m \in [Folders -> SUBSET Copy]
               /\ \A g \in Folders : m[g] \subseteq mail[g]
               /\ \A g \in Folders : \A c \in m[g] : c.uid < uidnext[g]
BY DEF Typed, TypeOK

LEMMA SameMail ==
    ASSUME Typed
    PROVE  /\ mail \in [Folders -> SUBSET Copy] /\ uidnext \in [Folders -> Nat \ {0}]
           /\ \A f \in Folders : uidnext[f] <= uidnext[f]
           /\ \A f \in Folders : \A c \in mail[f] : c.uid < uidnext[f]
           /\ selected \in Folders \cup {NoFolder} /\ seen \in [Tasks -> SUBSET Nat]
           /\ discarded \subseteq Messages
BY DEF Typed, TypeOK

LEMMA SelectTyped ==
    ASSUME Typed, NEW t \in Tasks, NEW answer \in Answers, Select(t, answer)
    PROVE  Typed'
<1>1. /\ pc[t] = "select" /\ Command(answer, mail, uidnext)
      /\ selected' = IF answer = "ok" THEN call[t].from ELSE NoFolder
      /\ OkElseReturn(t, answer, IF call[t].op = "move" THEN "uid_mv" ELSE "set_flag")
      /\ UNCHANGED <<call, seen, bounds, delivered, asked, discarded>>
  BY DEF Select, Open, history
<1>2. call[t] \in MoveMessage \cup SetFlag /\ call[t].from \in Folders
  BY <1>1, CallTyped DEF Typed, ControlInv
<1>3. GoesOn(t)
  <2>1. CASE answer = "ok"
    <3>1. CASE call[t].op = "move"
      BY <1>1, <1>2, <2>1, <3>1 DEF OkElseReturn, GoesOn, MoveCommands, Labels, MoveMessage, SetFlag
    <3>2. CASE call[t].op # "move"
      BY <1>1, <1>2, <2>1, <3>2 DEF OkElseReturn, GoesOn, MoveCommands, Labels, MoveMessage, SetFlag
    <3> QED BY <3>1, <3>2
  <2>2. CASE answer # "ok"
    BY <1>1, <2>2 DEF OkElseReturn, GoesOn
  <2> QED BY <2>1, <2>2
<1>4. selected' \in Folders \cup {NoFolder}
  BY <1>1, <1>2
<1> QED BY <1>1, <1>3, <1>4, SameMail, CommandKeepsTyped

\* The mailboxes after UID MOVE.
MovedMail(t) ==
    [[mail EXCEPT ![selected] = @ \ Addressed(call[t].uid)]
        EXCEPT ![call[t].to] = @ \cup Added(Addressed(call[t].uid), call[t].to)]

\* The mailboxes after UID COPY.
CopiedMail(t) ==
    [mail EXCEPT ![call[t].to] = @ \cup Added(Addressed(call[t].uid), call[t].to)]

NewUids(t) == NextUid(Addressed(call[t].uid), call[t].to)

LEMMA CopiedTyped ==
    ASSUME Typed, NEW t \in Tasks, pc[t] \in MoveCommands
    PROVE  /\ MovedMail(t) \in [Folders -> SUBSET Copy]
           /\ \A f \in Folders : \A c \in MovedMail(t)[f] : c.uid < NewUids(t)[f]
           /\ CopiedMail(t) \in [Folders -> SUBSET Copy]
           /\ \A f \in Folders : \A c \in CopiedMail(t)[f] : c.uid < NewUids(t)[f]
           /\ NewUids(t) \in [Folders -> Nat \ {0}]
           /\ \A f \in Folders : uidnext[f] <= NewUids(t)[f]
<1> DEFINE copies == Addressed(call[t].uid)
           left == [mail EXCEPT ![selected] = @ \ copies]
<1>1. call[t].to \in Folders
  BY CallTyped
<1>2. copies \in SUBSET Copy
  BY AddressedCopies
<1>3. left \in [Folders -> SUBSET Copy] /\ \A f \in Folders : left[f] \subseteq mail[f]
  BY RemovedMail DEF Typed, TypeOK
<1>4. mail \in [Folders -> SUBSET Copy] /\ \A f \in Folders : mail[f] \subseteq mail[f]
  BY SameMail
<1>5. /\ MovedMail(t) \in [Folders -> SUBSET Copy]
      /\ \A f \in Folders : \A c \in MovedMail(t)[f] : c.uid < NewUids(t)[f]
  BY <1>1, <1>2, <1>3, AddedMail DEF MovedMail, NewUids
<1>6. /\ CopiedMail(t) \in [Folders -> SUBSET Copy]
      /\ \A f \in Folders : \A c \in CopiedMail(t)[f] : c.uid < NewUids(t)[f]
  BY <1>1, <1>2, <1>4, AddedMail DEF CopiedMail, NewUids
<1>7. /\ NewUids(t) \in [Folders -> Nat \ {0}]
      /\ \A f \in Folders : uidnext[f] <= NewUids(t)[f]
  BY <1>1, <1>2, AddedCopies DEF NewUids
<1> QED BY <1>5, <1>6, <1>7

LEMMA UidMvTyped ==
    ASSUME Typed, NEW t \in Tasks, NEW answer \in Answers, UidMv(t, answer)
    PROVE  Typed'
<1>1. /\ pc[t] = "uid_mv" /\ Command(answer, MovedMail(t), NewUids(t))
      /\ IF answer = "ok" THEN Return(t, TRUE, {}) ELSE GoTo(t, "uid_copy")
      /\ UNCHANGED <<selected, call, seen, bounds, delivered, asked, discarded>>
  BY DEF UidMv, MovedMail, NewUids, history
<1>2. pc[t] \in MoveCommands /\ pc[t] # "idle"
  BY <1>1 DEF MoveCommands
<1>3. GoesOn(t)
  BY <1>1, <1>2, CallTyped DEF GoesOn, Labels, MoveCommands, Typed, ControlInv
<1>4. /\ MovedMail(t) \in [Folders -> SUBSET Copy]
      /\ \A f \in Folders : \A c \in MovedMail(t)[f] : c.uid < NewUids(t)[f]
      /\ NewUids(t) \in [Folders -> Nat \ {0}]
      /\ \A f \in Folders : uidnext[f] <= NewUids(t)[f]
  BY <1>2, CopiedTyped
<1> QED BY <1>1, <1>2, <1>3, <1>4, SameMail, CommandKeepsTyped

LEMMA UidCopyTyped ==
    ASSUME Typed, NEW t \in Tasks, NEW answer \in Answers, UidCopy(t, answer)
    PROVE  Typed'
<1>1. /\ pc[t] = "uid_copy" /\ Command(answer, CopiedMail(t), NewUids(t))
      /\ OkElseReturn(t, answer, "uid_store")
      /\ UNCHANGED <<selected, call, seen, bounds, delivered, asked, discarded>>
  BY DEF UidCopy, CopiedMail, NewUids, history
<1>2. pc[t] \in MoveCommands /\ pc[t] # "idle"
  BY <1>1 DEF MoveCommands
<1>3. GoesOn(t)
  <2>1. \/ \E ok \in BOOLEAN, uids \in SUBSET Nat : Return(t, ok, uids)
        \/ GoTo(t, "uid_store")
    BY <1>1 DEF OkElseReturn
  <2>2. selected' = call[t].from /\ call[t] \in MoveMessage
    BY <1>1, <1>2, CallTyped DEF Typed, ControlInv
  <2> QED BY <2>1, <2>2 DEF GoesOn, Labels
<1>4. /\ CopiedMail(t) \in [Folders -> SUBSET Copy]
      /\ \A f \in Folders : \A c \in CopiedMail(t)[f] : c.uid < NewUids(t)[f]
      /\ NewUids(t) \in [Folders -> Nat \ {0}]
      /\ \A f \in Folders : uidnext[f] <= NewUids(t)[f]
  BY <1>2, CopiedTyped
<1> QED BY <1>1, <1>2, <1>3, <1>4, SameMail, CommandKeepsTyped

LEMMA UidStoreTyped ==
    ASSUME Typed, NEW t \in Tasks, NEW answer \in Answers, UidStore(t, answer)
    PROVE  Typed'
<1> DEFINE m == [mail EXCEPT ![selected] = Flagged(@, call[t].uid, TRUE)]
<1>1. /\ pc[t] = "uid_store" /\ Command(answer, m, uidnext)
      /\ GoTo(t, "expunge") \/ Return(t, FALSE, {})
      /\ UNCHANGED <<selected, call, seen, bounds, delivered, asked, discarded>>
  BY DEF UidStore, history
<1>2. pc[t] \in MoveCommands /\ pc[t] # "idle"
  BY <1>1 DEF MoveCommands
<1>3. GoesOn(t)
  BY <1>1, <1>2, CallTyped DEF GoesOn, Labels, MoveCommands, Typed, ControlInv
<1>4. /\ m \in [Folders -> SUBSET Copy]
      /\ \A f \in Folders : \A c \in m[f] : c.uid < uidnext[f]
  BY FlaggedMail
<1> HIDE DEF m
<1> QED BY <1>1, <1>2, <1>3, <1>4, SameMail, CommandKeepsTyped

LEMMA ExpungeTyped ==
    ASSUME Typed, NEW t \in Tasks, NEW answer \in Answers, Expunge(t, answer)
    PROVE  Typed'
<1> DEFINE m == [mail EXCEPT ![selected] = {c \in @ : ~c.deleted}]
<1>1. /\ pc[t] = "expunge" /\ Command(answer, m, uidnext)
      /\ Return(t, TRUE, {}) \/ Return(t, FALSE, {})
      /\ UNCHANGED <<selected, call, seen, bounds, delivered, asked, discarded>>
  BY DEF Expunge, history
<1>2. GoesOn(t)
  BY <1>1 DEF GoesOn
<1>3. /\ m \in [Folders -> SUBSET Copy]
      /\ \A f \in Folders : \A c \in m[f] : c.uid < uidnext[f]
  <2>1. m = [mail EXCEPT ![selected] = {c \in mail[selected] : ~c.deleted}]
    OBVIOUS
  <2>2. {c \in mail[selected] : ~c.deleted} \subseteq mail[selected]
    OBVIOUS
  <2> QED BY <2>1, <2>2, RemovedMail
<1> HIDE DEF m
<1> QED BY <1>1, <1>2, <1>3, SameMail, CommandKeepsTyped

LEMMA ExamineTyped ==
    ASSUME Typed, NEW t \in Tasks, NEW answer \in Answers, Examine(t, answer)
    PROVE  Typed'
<1>1. /\ pc[t] = "examine" /\ Command(answer, mail, uidnext)
      /\ selected' = IF answer = "ok" THEN call[t].from ELSE NoFolder
      /\ seen' = [seen EXCEPT ![t] = IF answer = "ok" THEN Uids(mail[call[t].from]) ELSE {}]
      /\ Return(t, TRUE, {}) \/ OkElseReturn(t, answer, "fetch")
      /\ UNCHANGED <<call, bounds, delivered, asked, discarded>>
  BY DEF Examine, Open, history
<1>2. call[t] \in FetchHeaders /\ call[t].from \in Folders
  BY <1>1, CallTyped DEF Typed, ControlInv
<1>3. GoesOn(t)
  <2>1. \/ \E ok \in BOOLEAN, uids \in SUBSET Nat : Return(t, ok, uids)
        \/ answer = "ok" /\ GoTo(t, "fetch")
    BY <1>1 DEF OkElseReturn
  <2> QED BY <1>1, <1>2, <2>1 DEF GoesOn, MoveCommands, Labels
<1>4. selected' \in Folders \cup {NoFolder}
  BY <1>1, <1>2
<1>5. seen' \in [Tasks -> SUBSET Nat]
  <2>1. Uids(mail[call[t].from]) \subseteq Nat
    BY <1>2, AddressedCopies
  <2> QED BY <1>1, <2>1, SameMail
<1> QED BY <1>1, <1>3, <1>4, <1>5, SameMail, CommandKeepsTyped

LEMMA FetchTyped ==
    ASSUME Typed, NEW t \in Tasks, NEW answer \in Answers, Fetch(t, answer)
    PROVE  Typed'
<1>1. /\ pc[t] = "fetch" /\ Command(answer, mail, uidnext)
      /\ UNCHANGED <<selected, call, seen, bounds, delivered, asked, discarded>>
  BY DEF Fetch, history
<1>2. \E ok \in BOOLEAN, uids \in SUBSET Uids(Opened) : Return(t, ok, uids)
  BY DEF Fetch
<1>3. GoesOn(t)
  BY <1>2, AddressedCopies DEF GoesOn
<1> QED BY <1>1, <1>3, SameMail, CommandKeepsTyped

LEMMA StoreFlagTyped ==
    ASSUME Typed, NEW t \in Tasks, NEW answer \in Answers, StoreFlag(t, answer)
    PROVE  Typed'
<1> DEFINE m == [mail EXCEPT ![selected] = Flagged(@, call[t].uid, call[t].set)]
<1>1. /\ pc[t] = "set_flag" /\ Command(answer, m, uidnext)
      /\ Return(t, TRUE, {}) \/ Return(t, FALSE, {})
      /\ UNCHANGED <<selected, call, seen, bounds, delivered, asked>>
  BY DEF StoreFlag, history
<1>2. GoesOn(t)
  BY <1>1 DEF GoesOn
<1>3. /\ m \in [Folders -> SUBSET Copy]
      /\ \A f \in Folders : \A c \in m[f] : c.uid < uidnext[f]
  <2>1. call[t].set \in BOOLEAN
    BY <1>1, CallTyped
  <2>2. CASE call[t].set = TRUE
    <3>1. m = [mail EXCEPT ![selected] = Flagged(@, call[t].uid, TRUE)]
      BY <2>2
    <3> QED BY <3>1, FlaggedMail
  <2>3. CASE call[t].set = FALSE
    <3>1. m = [mail EXCEPT ![selected] = Flagged(@, call[t].uid, FALSE)]
      BY <2>3
    <3> DEFINE n == [mail EXCEPT ![selected] = Flagged(@, call[t].uid, FALSE)]
    <3>2. /\ n \in [Folders -> SUBSET Copy]
          /\ \A f \in Folders : \A c \in n[f] : c.uid < uidnext[f]
      BY FlaggedMail
    <3> HIDE DEF m, n
    <3> QED BY <3>1, <3>2 DEF n
  <2> QED BY <2>1, <2>2, <2>3
<1>4. discarded' \subseteq Messages
  <2>1. {c.message : c \in Addressed(call[t].uid)} \subseteq Messages
    BY AddressedCopies DEF Copy
  <2> QED BY <2>1, SameMail DEF StoreFlag
<1> HIDE DEF m
<1> QED BY <1>1, <1>2, <1>3, <1>4, SameMail, CommandKeepsTyped

\* Steps of other clients: the tasks stay where they are.
LEMMA OthersKeepTyped ==
    ASSUME Typed,
           mail' \in [Folders -> SUBSET Copy], uidnext' \in [Folders -> Nat \ {0}],
           \A f \in Folders : uidnext[f] <= uidnext'[f],
           \A f \in Folders : \A c \in mail'[f] : c.uid < uidnext'[f],
           marks' \in 0..MaxMarks, discarded' \subseteq Messages,
           delivered' \subseteq Messages \X Nat,
           UNCHANGED <<alive, selected, tasks, seen, calls, asked>>
    PROVE  Typed'
<1>1. TypeOK /\ ControlInv
  BY DEF Typed
<1>2. /\ pc' = pc /\ holder' = holder /\ call' = call /\ result' = result /\ asked' = asked
      /\ alive' = alive /\ selected' = selected /\ seen' = seen /\ calls' = calls
  BY DEF tasks
<1>3. TypeOK'
  BY <1>1, <1>2 DEF TypeOK
<1>4. \A t \in Tasks : pc[t] # "idle" /\ call[t].op = "move" =>
         call[t].uid < uidnext'[call[t].from]
  <2>1. TAKE t \in Tasks
  <2>2. HAVE pc[t] # "idle" /\ call[t].op = "move"
  <2>3. /\ call[t].from \in Folders /\ call[t].uid \in Nat
        /\ call[t].uid < uidnext[call[t].from]
    BY <1>1, <2>2 DEF ControlInv, TypeOK, Call, NoCall, MoveMessage, FetchHeaders, SetFlag
  <2> QED BY <1>1, <2>3 DEF TypeOK
<1>5. ControlInv'
  BY <1>1, <1>2, <1>4 DEF ControlInv
<1> QED BY <1>3, <1>5 DEF Typed

LEMMA DeliverTyped ==
    ASSUME Typed, NEW msg \in Messages, Deliver(msg)
    PROVE  Typed'
<1> DEFINE new == [uid |-> uidnext[Inbox], message |-> msg, deleted |-> FALSE]
<1>1. /\ delivered' = delivered \cup {<<msg, uidnext[Inbox]>>}
      /\ mail' = [mail EXCEPT ![Inbox] = @ \cup {new}]
      /\ uidnext' = [uidnext EXCEPT ![Inbox] = @ + 1]
      /\ UNCHANGED <<alive, selected, tasks, seen, calls, marks, asked, discarded>>
  BY DEF Deliver, bounds
<1>2. /\ mail \in [Folders -> SUBSET Copy] /\ uidnext \in [Folders -> Nat \ {0}]
      /\ \A f \in Folders : \A c \in mail[f] : c \in Copy /\ c.uid \in Nat /\ c.uid < uidnext[f]
      /\ marks \in 0..MaxMarks /\ discarded \subseteq Messages /\ delivered \subseteq Messages \X Nat
  BY DEF Typed, TypeOK, Copy
<1>3. new \in Copy /\ new.uid = uidnext[Inbox] /\ uidnext[Inbox] \in Nat
  BY <1>2, NamesAssumption DEF Copy
<1>4. uidnext' \in [Folders -> Nat \ {0}] /\ \A f \in Folders : uidnext[f] <= uidnext'[f]
  BY <1>1, <1>2, <1>3, NamesAssumption
<1> HIDE DEF new
<1>5. mail' \in [Folders -> SUBSET Copy]
  BY <1>1, <1>2, <1>3
<1>6. \A f \in Folders : \A c \in mail'[f] : c.uid < uidnext'[f]
  BY <1>1, <1>2, <1>3
<1>7. marks' \in 0..MaxMarks /\ discarded' \subseteq Messages /\ delivered' \subseteq Messages \X Nat
  BY <1>1, <1>2, <1>3
<1>8. UNCHANGED <<alive, selected, tasks, seen, calls, asked>>
  BY <1>1
<1> QED BY <1>4, <1>5, <1>6, <1>7, <1>8, OthersKeepTyped

LEMMA MarkTyped ==
    ASSUME Typed, NEW f \in Folders, NEW c \in mail[f], Mark(f, c)
    PROVE  Typed'
<1> DEFINE m == [mail EXCEPT ![f] = Flagged(@, c.uid, ~c.deleted)]
<1>1. /\ mail' = m /\ uidnext' = uidnext /\ marks' = marks + 1 /\ marks < MaxMarks
      /\ discarded' \in {discarded, discarded \cup {c.message}} /\ delivered' = delivered
      /\ UNCHANGED <<alive, selected, tasks, seen, calls, asked>>
  BY DEF Mark
<1>2. c \in Copy
  BY DEF Typed, TypeOK
<1>3. c.message \in Messages
  BY <1>2 DEF Copy
<1>4. /\ m \in [Folders -> SUBSET Copy]
      /\ \A g \in Folders : \A d \in m[g] : d.uid < uidnext[g]
  <2>1. CASE c.deleted = TRUE
    <3>1. m = [mail EXCEPT ![f] = Flagged(@, c.uid, FALSE)]
      BY <2>1
    <3> QED BY <3>1, FlaggedMail
  <2>2. CASE c.deleted = FALSE
    <3>1. m = [mail EXCEPT ![f] = Flagged(@, c.uid, TRUE)]
      BY <2>2
    <3> QED BY <3>1, FlaggedMail
  <2> QED BY <1>2, <2>1, <2>2 DEF Copy
<1>5. marks' \in 0..MaxMarks /\ delivered' \subseteq Messages \X Nat /\ discarded' \subseteq Messages
  BY <1>1, <1>3, BoundsAssumption DEF Typed, TypeOK
<1> HIDE DEF m
<1> QED BY <1>1, <1>4, <1>5, SameMail, OthersKeepTyped

LEMMA PurgeTyped ==
    ASSUME Typed, NEW f \in Folders, Purge(f)
    PROVE  Typed'
<1> DEFINE m == [mail EXCEPT ![f] = {c \in mail[f] : ~c.deleted}]
<1>1. /\ mail' = m /\ uidnext' = uidnext /\ marks' = marks + 1 /\ marks < MaxMarks
      /\ discarded' = discarded /\ delivered' = delivered
      /\ UNCHANGED <<alive, selected, tasks, seen, calls, asked>>
  BY DEF Purge, history
<1>2. /\ m \in [Folders -> SUBSET Copy]
      /\ \A g \in Folders : \A d \in m[g] : d.uid < uidnext[g]
  BY RemovedMail
<1>3. marks' \in 0..MaxMarks /\ delivered' \subseteq Messages \X Nat
  BY <1>1, BoundsAssumption DEF Typed, TypeOK
<1> HIDE DEF m
<1> QED BY <1>1, <1>2, <1>3, SameMail, OthersKeepTyped

\* The first command of every operation opens its folder.
LEMMA BeginTyped ==
    ASSUME Typed, NEW t \in Tasks, NEW c \in Call, NEW label \in {"select", "examine"},
           Begin(t, c, label),
           label = "select" => c \in MoveMessage \cup SetFlag,
           label = "examine" => c \in FetchHeaders,
           asked' \subseteq Folders \X Nat, asked \subseteq asked',
           c.op = "move" => <<c.from, c.uid>> \in asked' /\ c.uid < uidnext[c.from]
    PROVE  Typed'
<1>1. /\ pc[t] = "idle" /\ holder = NoTask /\ calls < MaxCalls /\ calls' = calls + 1
      /\ holder' = t /\ pc' = [pc EXCEPT ![t] = label] /\ call' = [call EXCEPT ![t] = c]
      /\ mail' = mail /\ uidnext' = uidnext /\ alive' = alive /\ selected' = selected
      /\ seen' = seen /\ result' = result /\ marks' = marks /\ delivered' = delivered
      /\ discarded' = discarded
  BY DEF Begin, server
<1>2. TypeOK /\ ControlInv
  BY DEF Typed
<1>3. \A u \in Tasks \ {t} : pc[u] = "idle"
  BY <1>1, <1>2, NamesAssumption DEF ControlInv
<1>4. TypeOK'
  BY <1>1, <1>2, BoundsAssumption DEF TypeOK
<1>5. pc'[t] = label /\ call'[t] = c /\ \A u \in Tasks \ {t} : pc'[u] = "idle" /\ holder' # u
  BY <1>1, <1>2, <1>3 DEF TypeOK
<1>6. ControlInv'
  BY <1>1, <1>5 DEF ControlInv, MoveCommands
<1> QED BY <1>4, <1>6 DEF Typed

LEMMA CallsTyped ==
    ASSUME Typed, NEW t \in Tasks, NEW from \in Folders
    PROVE  /\ \A to \in Folders, uid \in KnownUids(from) : BeginMove(t, from, to, uid) => Typed'
           /\ \A limit \in Limits : BeginFetch(t, from, limit) => Typed'
           /\ \A uid \in KnownUids(from), set \in BOOLEAN : BeginSetFlag(t, from, uid, set) => Typed'
<1>1. /\ asked \subseteq Folders \X Nat /\ uidnext \in [Folders -> Nat \ {0}]
      /\ \A uid \in KnownUids(from) : uid \in Nat /\ uid < uidnext[from]
  BY DEF Typed, TypeOK, KnownUids
<1>2. ASSUME NEW to \in Folders, NEW uid \in KnownUids(from), BeginMove(t, from, to, uid)
      PROVE  Typed'
  <2> DEFINE c == [op |-> "move", from |-> from, to |-> to, uid |-> uid]
  <2>1. Begin(t, c, "select") /\ asked' = asked \cup {<<from, uid>>}
    BY <1>2 DEF BeginMove
  <2>2. c \in MoveMessage /\ c.from = from /\ c.uid = uid /\ uid < uidnext[from]
    BY <1>1 DEF MoveMessage
  <2>3. asked' \subseteq Folders \X Nat /\ asked \subseteq asked' /\ <<c.from, c.uid>> \in asked'
    BY <1>1, <2>1
  <2> HIDE DEF c
  <2> QED BY <2>1, <2>2, <2>3, BeginTyped DEF Call
<1>3. ASSUME NEW limit \in Limits, BeginFetch(t, from, limit)
      PROVE  Typed'
  <2> DEFINE c == [op |-> "fetch", from |-> from, limit |-> limit]
  <2>1. Begin(t, c, "examine") /\ asked' = asked
    BY <1>3 DEF BeginFetch
  <2>2. c \in FetchHeaders /\ c.op # "move"
    BY DEF FetchHeaders
  <2> HIDE DEF c
  <2> QED BY <1>1, <2>1, <2>2, BeginTyped DEF Call
<1>4. ASSUME NEW uid \in KnownUids(from), NEW set \in BOOLEAN, BeginSetFlag(t, from, uid, set)
      PROVE  Typed'
  <2> DEFINE c == [op |-> "flag", from |-> from, uid |-> uid, set |-> set]
  <2>1. Begin(t, c, "select") /\ asked' = asked
    BY <1>4 DEF BeginSetFlag
  <2>2. c \in SetFlag /\ c.op # "move"
    BY <1>1 DEF SetFlag
  <2> HIDE DEF c
  <2> QED BY <1>1, <2>1, <2>2, BeginTyped DEF Call
<1> QED BY <1>2, <1>3, <1>4

LEMMA SessionTyped ==
    ASSUME Typed, Connect \/ Logout
    PROVE  Typed'
<1>1. /\ holder = NoTask /\ alive' \in BOOLEAN /\ selected' \in {selected, NoFolder}
      /\ mail' = mail /\ uidnext' = uidnext /\ holder' = holder /\ pc' = pc /\ call' = call
      /\ result' = result /\ seen' = seen /\ calls' = calls /\ marks' = marks
      /\ delivered' = delivered /\ asked' = asked /\ discarded' = discarded
  BY DEF Connect, Logout, server, tasks, bounds, history
<1>2. TypeOK /\ ControlInv
  BY DEF Typed
<1>3. TypeOK'
  BY <1>1, <1>2 DEF TypeOK
<1>4. \A t \in Tasks : pc[t] = "idle"
  BY <1>1, <1>2, NamesAssumption DEF ControlInv
<1>5. ControlInv'
  BY <1>1, <1>2, <1>4 DEF ControlInv, MoveCommands
<1> QED BY <1>3, <1>5 DEF Typed

LEMMA TypedNext == Typed /\ [Next]_vars => Typed'
<1> SUFFICES ASSUME Typed, [Next]_vars PROVE Typed'
  OBVIOUS
<1>1. ASSUME NEW t \in Tasks, NEW answer \in Answers, Work(t, answer) PROVE Typed'
  BY <1>1, SelectTyped, UidMvTyped, UidCopyTyped, UidStoreTyped, ExpungeTyped,
     ExamineTyped, FetchTyped, StoreFlagTyped DEF Work
<1>2. ASSUME UNCHANGED vars PROVE Typed'
  BY <1>2 DEF vars, Typed, TypeOK, ControlInv
<1> QED BY <1>1, <1>2, DeliverTyped, MarkTyped, PurgeTyped, CallsTyped, SessionTyped DEF Next

\* Every variable keeps its type, every uid a folder holds is below the next
\* one, and a task that sends a command of an operation is the one that holds
\* the session, with the folder of its call open.
LEMMA TypedHolds == Spec => []Typed
<1> QED BY TypedInit, TypedNext, PTL DEF Spec

\* rust_imap.rs, the session: uids are handed out in order and never twice, and
\* what every call returns has its type.
THEOREM TypeCorrect == Spec => []TypeOK
<1>1. Typed => TypeOK
  BY DEF Typed
<1> QED BY <1>1, TypedHolds, PTL

--------------------------------------------------------------------------------
(* Mail.  First what the three ways to change a folder do to the copies in it. *)

\* A copy that is flagged or unflagged keeps its uid and its message, and all
\* others stay as they are.
LEMMA FlagStep ==
    ASSUME Typed, UniqueUids, NEW f \in Folders, NEW uid, NEW set \in BOOLEAN,
           mail' = [mail EXCEPT ![f] = Flagged(@, uid, set)]
    PROVE  /\ UniqueUids'
           /\ \A g \in Folders : \A c \in mail'[g] : \E d \in mail[g] :
                 d.uid = c.uid /\ d.message = c.message
           /\ \A g \in Folders : \A v \in Nat : \A m :
                 Kept(g, v, m) /\ (set = FALSE \/ <<g, v>> # <<f, uid>>) => Kept(g, v, m)'
<1>1. mail \in [Folders -> SUBSET Copy]
  BY DEF Typed, TypeOK
<1>2. mail'[f] = Flagged(mail[f], uid, set) /\ \A g \in Folders : g # f => mail'[g] = mail[g]
  BY <1>1
<1>3. ASSUME NEW c \in mail'[f]
      PROVE  \E d \in mail[f] : /\ c = IF d.uid = uid THEN [d EXCEPT !.deleted = set] ELSE d
                                /\ d \in Copy
                                /\ c.uid = d.uid /\ c.message = d.message
  BY <1>1, <1>2 DEF Flagged, Copy
<1>4. UniqueUids'
  <2>1. SUFFICES ASSUME NEW g \in Folders, NEW c \in mail'[g], NEW d \in mail'[g], c.uid = d.uid
                 PROVE  c = d
    BY DEF UniqueUids
  <2>2. CASE g = f
    BY <1>3, <2>1, <2>2 DEF UniqueUids
  <2>3. CASE g # f
    BY <1>2, <2>1, <2>3 DEF UniqueUids
  <2> QED BY <2>2, <2>3
<1>5. \A g \in Folders : \A c \in mail'[g] : \E d \in mail[g] :
         d.uid = c.uid /\ d.message = c.message
  BY <1>2, <1>3
<1>6. ASSUME NEW g \in Folders, NEW v \in Nat, NEW m, Kept(g, v, m),
             set = FALSE \/ <<g, v>> # <<f, uid>>
      PROVE  Kept(g, v, m)'
  <2> DEFINE k == [uid |-> v, message |-> m, deleted |-> FALSE]
  <2>1. k \in mail[g]
    BY <1>6 DEF Kept
  <2>2. CASE g = f
    <3>1. (IF k.uid = uid THEN [k EXCEPT !.deleted = set] ELSE k) = k
      BY <1>6, <2>2
    <3>2. (IF k.uid = uid THEN [k EXCEPT !.deleted = set] ELSE k) \in Flagged(mail[f], uid, set)
      BY <2>1, <2>2 DEF Flagged
    <3> QED BY <1>2, <2>2, <3>1, <3>2 DEF Kept
  <2>3. CASE g # f
    BY <1>2, <2>1, <2>3 DEF Kept
  <2> QED BY <2>2, <2>3
<1> QED BY <1>4, <1>5, <1>6

\* Expunging spares what is not flagged.
LEMMA ExpungeStep ==
    ASSUME Typed, UniqueUids, NEW f \in Folders,
           mail' = [mail EXCEPT ![f] = {c \in @ : ~c.deleted}]
    PROVE  /\ UniqueUids'
           /\ \A g \in Folders : mail'[g] \subseteq mail[g]
           /\ \A g \in Folders : \A v, m : Kept(g, v, m) => Kept(g, v, m)'
<1>1. mail \in [Folders -> SUBSET Copy]
  BY DEF Typed, TypeOK
<1>2. mail'[f] = {c \in mail[f] : ~c.deleted} /\ \A g \in Folders : g # f => mail'[g] = mail[g]
  BY <1>1
<1> QED BY <1>2 DEF UniqueUids, Kept

\* COPY and MOVE add one copy to folder `to`, like the one addressed but for its
\* uid, or none.
LEMMA AddStep ==
    ASSUME Typed, UniqueUids, NEW uid, NEW to \in Folders, selected \in Folders,
           NEW left \in [Folders -> SUBSET Copy], \A g \in Folders : left[g] \subseteq mail[g],
           mail' = [left EXCEPT ![to] = @ \cup Added(Addressed(uid), to)]
    PROVE  /\ UniqueUids'
           /\ \A g \in Folders : left[g] \subseteq mail'[g]
           /\ \A g \in Folders : \A c \in mail'[g] : c \notin left[g] =>
                 /\ g = to /\ c.uid = uidnext[to]
                 /\ \E d \in mail[selected] : d.uid = uid /\ d.message = c.message
           /\ \A v, m : v = uidnext[to] /\ Kept(selected, uid, m) => Kept(to, v, m)'
<1> DEFINE copies == Addressed(uid)
<1>1. /\ mail \in [Folders -> SUBSET Copy] /\ uidnext \in [Folders -> Nat \ {0}]
      /\ \A g \in Folders : \A c \in mail[g] : c \in Copy /\ c.uid \in Nat /\ c.uid < uidnext[g]
      /\ NoFolder \notin Folders
  BY NamesAssumption DEF Typed, TypeOK, Copy
<1>2. /\ mail'[to] = left[to] \cup Added(copies, to)
      /\ \A g \in Folders : g # to => mail'[g] = left[g]
  OBVIOUS
<1>3. copies = {c \in mail[selected] : c.uid = uid} /\ copies \in SUBSET Copy
  BY <1>1 DEF Addressed, Opened
<1> HIDE DEF copies
<1>4. \A c, d \in copies : c = d
  BY <1>3 DEF UniqueUids
<1>5. \A c \in Added(copies, to) : c.uid = uidnext[to] /\ \E d \in copies : c.message = d.message
  BY <1>3 DEF Added, Copy
<1>6. \A c, d \in Added(copies, to) : c = d
  BY <1>4 DEF Added
<1>7. UniqueUids'
  <2>1. SUFFICES ASSUME NEW g \in Folders, NEW c \in mail'[g], NEW d \in mail'[g], c.uid = d.uid
                 PROVE  c = d
    BY DEF UniqueUids
  <2>2. CASE c \in left[g] /\ d \in left[g]
    BY <2>1, <2>2 DEF UniqueUids
  <2>3. CASE c \notin left[g] /\ d \notin left[g]
    BY <1>2, <1>6, <2>3
  <2>4. CASE c \in left[g] /\ d \notin left[g]
    <3>1. c.uid \in Nat /\ c.uid < uidnext[g] /\ g = to /\ d.uid = uidnext[to]
      BY <1>1, <1>2, <1>5, <2>4
    <3> QED BY <1>1, <2>1, <3>1
  <2>5. CASE c \notin left[g] /\ d \in left[g]
    <3>1. d.uid \in Nat /\ d.uid < uidnext[g] /\ g = to /\ c.uid = uidnext[to]
      BY <1>1, <1>2, <1>5, <2>5
    <3> QED BY <1>1, <2>1, <3>1
  <2> QED BY <2>2, <2>3, <2>4, <2>5
<1>8. \A g \in Folders : left[g] \subseteq mail'[g]
  BY <1>2
<1>9. \A g \in Folders : \A c \in mail'[g] : c \notin left[g] =>
         /\ g = to /\ c.uid = uidnext[to]
         /\ \E d \in mail[selected] : d.uid = uid /\ d.message = c.message
  BY <1>2, <1>3, <1>5
<1>10. ASSUME NEW v, NEW m, v = uidnext[to], Kept(selected, uid, m)
       PROVE  Kept(to, v, m)'
  <2> DEFINE k == [uid |-> uid, message |-> m, deleted |-> FALSE]
             n == [k EXCEPT !.uid = uidnext[to]]
  <2>1. k \in copies
    BY <1>3, <1>10 DEF Kept
  <2>2. n \in Added(copies, to)
    BY <2>1 DEF Added
  <2>3. n \in Copy /\ n.uid = uidnext[to] /\ n.message = m /\ n.deleted = FALSE
    BY <1>1, <1>3, <2>1 DEF Copy
  <2> HIDE DEF k, n
  <2>4. n = [uid |-> v, message |-> m, deleted |-> FALSE]
    BY <1>10, <2>3 DEF Copy
  <2> QED BY <1>2, <2>2, <2>4 DEF Kept
<1> QED BY <1>7, <1>8, <1>9, <1>10

\* A step that makes no message appear, and leaves every message that nobody
\* flagged a copy, and where it is if nobody asked to move it.
LEMMA MailboxesKept ==
    ASSUME Mailboxes, UniqueUids', delivered' = delivered,
           discarded \subseteq discarded', asked \subseteq asked',
           \A g \in Folders : \A c \in mail'[g] : \E h \in Folders : \E d \in mail[h] :
               d.message = c.message,
           \A g \in Folders : \A v \in Nat : \A m : m \notin discarded' /\ Kept(g, v, m) =>
               \E h \in Folders : \E w \in Nat : Kept(h, w, m)',
           \A v, m : m \notin discarded' /\ <<Inbox, v>> \notin asked' /\ Kept(Inbox, v, m) =>
               Kept(Inbox, v, m)'
    PROVE  Mailboxes'
<1>1. UniqueUids /\ KnownMessages /\ KeptSomewhere /\ KeptInInbox
  BY DEF Mailboxes
<1>2. KnownMessages'
  BY <1>1 DEF KnownMessages
<1>3. KeptSomewhere'
  BY <1>1 DEF KeptSomewhere
<1>4. KeptInInbox'
  BY <1>1 DEF KeptInInbox
<1> QED BY <1>2, <1>3, <1>4 DEF Mailboxes

LEMMA SameMailboxes ==
    ASSUME Mailboxes, mail' = mail, delivered' = delivered,
           discarded \subseteq discarded', asked \subseteq asked'
    PROVE  Mailboxes'
<1>1. \A g, v, m : Kept(g, v, m)' <=> Kept(g, v, m)
  BY DEF Kept
<1>2. UniqueUids'
  BY DEF Mailboxes, UniqueUids
<1> QED BY <1>1, <1>2, MailboxesKept

LEMMA CopiedFirstKept ==
    ASSUME CopiedFirst, pc' = pc, call' = call, selected' = selected,
           discarded \subseteq discarded',
           \A t \in Tasks : \A c \in Opened' : pc[t] = "uid_store" /\ c.uid = call[t].uid =>
               \E d \in Opened : d.uid = c.uid /\ d.message = c.message,
           \A g \in Folders : \A v \in Nat : \A m : m \notin discarded' /\ Kept(g, v, m) =>
               Kept(g, v, m)'
    PROVE  CopiedFirst'
<1>1. SUFFICES ASSUME NEW t \in Tasks, NEW c \in Opened', pc[t] = "uid_store",
                      c.uid = call[t].uid, c.message \notin discarded'
               PROVE  \E f \in Folders : \E u \in Nat :
                         Kept(f, u, c.message)' /\ <<f, u>> # <<selected, c.uid>>
  BY DEF CopiedFirst
<1>2. PICK d \in Opened : d.uid = c.uid /\ d.message = c.message
  BY <1>1
<1>3. PICK f \in Folders, u \in Nat : Kept(f, u, d.message) /\ <<f, u>> # <<selected, d.uid>>
  BY <1>1, <1>2 DEF CopiedFirst
<1>4. Kept(f, u, c.message)
  BY <1>2, <1>3
<1>5. Kept(f, u, c.message)'
  BY <1>1, <1>4
<1> QED BY <1>2, <1>3, <1>5

\* Nobody is between COPY and STORE.
LEMMA NobodyStores ==
    ASSUME \A t \in Tasks : pc'[t] # "uid_store"
    PROVE  CopiedFirst'
BY DEF CopiedFirst

LEMMA NotToStore ==
    ASSUME Typed, NEW t \in Tasks, pc[t] # "idle",
           \/ \E ok, uids : Return(t, ok, uids)
           \/ \E label \in Labels \ {"uid_store"} : GoTo(t, label)
    PROVE  CopiedFirst'
<1>1. \A w \in Tasks \ {t} : pc[w] = "idle"
  BY Alone
<1>2. pc \in [Tasks -> Labels \cup {"idle"}]
  BY DEF Typed, TypeOK, Labels
<1>3. \A w \in Tasks : pc'[w] # "uid_store"
  BY <1>1, <1>2 DEF Return, GoTo, Labels
<1> QED BY <1>3, NobodyStores

LEMMA DeliverMail ==
    ASSUME Typed, MailInv, NEW msg \in Messages, Deliver(msg)
    PROVE  MailInv'
<1> DEFINE new == [uid |-> uidnext[Inbox], message |-> msg, deleted |-> FALSE]
<1>1. /\ delivered' = delivered \cup {<<msg, uidnext[Inbox]>>}
      /\ mail' = [mail EXCEPT ![Inbox] = @ \cup {new}]
      /\ selected' = selected /\ pc' = pc /\ call' = call
      /\ asked' = asked /\ discarded' = discarded
  BY DEF Deliver, tasks
<1>2. /\ mail \in [Folders -> SUBSET Copy] /\ uidnext \in [Folders -> Nat \ {0}]
      /\ \A f \in Folders : \A c \in mail[f] : c.uid \in Nat /\ c.uid < uidnext[f]
  BY DEF Typed, TypeOK, Copy
<1>3. /\ mail'[Inbox] = mail[Inbox] \cup {new} /\ Inbox \in Folders
      /\ \A f \in Folders : f # Inbox => mail'[f] = mail[f]
      /\ \A f \in Folders : mail[f] \subseteq mail'[f]
  BY <1>1, <1>2, NamesAssumption
<1>4. UniqueUids /\ KnownMessages /\ KeptSomewhere /\ KeptInInbox /\ CopiedFirst
  BY DEF MailInv, Mailboxes
<1>5. UniqueUids'
  <2>1. SUFFICES ASSUME NEW f \in Folders, NEW c \in mail'[f], NEW d \in mail'[f], c.uid = d.uid
                 PROVE  c = d
    BY DEF UniqueUids
  <2>2. \A e \in mail[Inbox] : e.uid # new.uid
    BY <1>2, NamesAssumption
  <2> HIDE DEF new
  <2> QED BY <1>3, <1>4, <2>1, <2>2 DEF UniqueUids
<1>7. \A g \in Folders : \A v, m : Kept(g, v, m) => Kept(g, v, m)'
  BY <1>3 DEF Kept
<1>8. \A u : u = uidnext[Inbox] => Kept(Inbox, u, msg)'
  BY <1>3 DEF Kept
<1>9. uidnext[Inbox] \in Nat
  BY <1>2, NamesAssumption
<1>10. KnownMessages'
  <2>1. new.message = msg
    OBVIOUS
  <2> HIDE DEF new
  <2>2. <<msg, uidnext[Inbox]>> \in delivered' /\ delivered \subseteq delivered'
    BY <1>1
  <2> QED BY <1>3, <1>4, <2>1, <2>2 DEF KnownMessages
<1>11. KeptSomewhere'
  BY <1>1, <1>3, <1>4, <1>7, <1>8, <1>9 DEF KeptSomewhere
<1>12. KeptInInbox'
  BY <1>1, <1>3, <1>4, <1>7, <1>8, <1>9 DEF KeptInInbox
<1>13. CopiedFirst'
  <2>1. ASSUME NEW t \in Tasks, NEW c \in Opened', pc[t] = "uid_store", c.uid = call[t].uid
        PROVE  c \in Opened
    <3>1. selected = call[t].from /\ selected \in Folders /\ call[t].uid < uidnext[selected]
          /\ call[t].uid \in Nat
      BY <2>1, CallTyped DEF Typed, ControlInv, MoveCommands, MoveMessage
    <3>2. c \in mail'[selected] /\ Opened = mail[selected]
      BY <1>1, <2>1, <3>1, NamesAssumption DEF Opened
    <3>3. new.uid = uidnext[Inbox]
      OBVIOUS
    <3> HIDE DEF new
    <3> QED BY <1>2, <1>3, <2>1, <3>1, <3>2, <3>3
  <2> QED BY <1>1, <1>4, <1>7, <2>1, CopiedFirstKept
<1> QED BY <1>5, <1>10, <1>11, <1>12, <1>13 DEF MailInv, Mailboxes

\* A flag changes: what is set is discarded, on purpose (`discarded`) or by a move.
LEMMA FlagOfOthers ==
    ASSUME Typed, MailInv, NEW f \in Folders, NEW c \in mail[f], NEW set \in BOOLEAN,
           mail' = [mail EXCEPT ![f] = Flagged(@, c.uid, set)],
           discarded \subseteq discarded', set = TRUE => c.message \in discarded',
           UNCHANGED <<delivered, asked>>
    PROVE  /\ Mailboxes'
           /\ UNCHANGED <<selected, pc, call>> => CopiedFirst'
<1>1. Mailboxes /\ UniqueUids /\ CopiedFirst
  BY DEF MailInv, Mailboxes
<1>2. UniqueUids'
  BY <1>1, FlagStep
<1>3. \A g \in Folders : \A d \in mail'[g] : \E e \in mail[g] : e.uid = d.uid /\ e.message = d.message
  BY <1>1, FlagStep
<1>4. \A g \in Folders : \A v \in Nat : \A m :
         Kept(g, v, m) /\ (set = FALSE \/ <<g, v>> # <<f, c.uid>>) => Kept(g, v, m)'
  BY <1>1, FlagStep
<1>5. \A g \in Folders : \A v \in Nat : \A m : m \notin discarded' /\ Kept(g, v, m) => Kept(g, v, m)'
  <2>1. SUFFICES ASSUME NEW g \in Folders, NEW v \in Nat, NEW m, m \notin discarded', Kept(g, v, m)
                 PROVE  set = FALSE \/ <<g, v>> # <<f, c.uid>>
    BY <1>4
  <2>2. CASE g = f /\ v = c.uid
    <3>1. [uid |-> v, message |-> m, deleted |-> FALSE] = c
      BY <1>1, <2>1, <2>2 DEF Kept, UniqueUids
    <3>2. c.message = m
      BY <3>1
    <3> QED BY <2>1, <3>2
  <2> QED BY <2>2
<1>6. \A v, m : m \notin discarded' /\ <<Inbox, v>> \notin asked' /\ Kept(Inbox, v, m) => Kept(Inbox, v, m)'
  <2>1. SUFFICES ASSUME NEW v, NEW m, m \notin discarded', Kept(Inbox, v, m)
                 PROVE  Kept(Inbox, v, m)'
    OBVIOUS
  <2>2. v \in Nat
    BY <2>1, NamesAssumption DEF Kept, Typed, TypeOK, Copy
  <2> QED BY <1>5, <2>1, <2>2, NamesAssumption
<1>7. Mailboxes'
  BY <1>1, <1>2, <1>3, <1>5, <1>6, MailboxesKept
<1>8. ASSUME UNCHANGED <<selected, pc, call>>
      PROVE  CopiedFirst'
  <2>1. \A d \in Opened' : \E e \in Opened : e.uid = d.uid /\ e.message = d.message
    BY <1>3, <1>8 DEF Opened, Typed, TypeOK
  <2> QED BY <1>1, <1>5, <1>8, <2>1, CopiedFirstKept
<1> QED BY <1>7, <1>8

LEMMA MarkMail ==
    ASSUME Typed, MailInv, NEW f \in Folders, NEW c \in mail[f], Mark(f, c)
    PROVE  MailInv'
<1>1. /\ mail' = [mail EXCEPT ![f] = Flagged(@, c.uid, ~c.deleted)]
      /\ discarded' = IF c.deleted THEN discarded ELSE discarded \cup {c.message}
      /\ UNCHANGED <<delivered, asked>> /\ UNCHANGED <<selected, pc, call>>
  BY DEF Mark, tasks
<1>2. c.deleted \in BOOLEAN
  BY DEF Typed, TypeOK, Copy
<1>3. discarded \subseteq discarded'
  BY <1>1
<1>4. CASE c.deleted = TRUE
  <2>1. mail' = [mail EXCEPT ![f] = Flagged(@, c.uid, FALSE)]
    BY <1>1, <1>4
  <2> QED BY <1>1, <1>3, <2>1, FlagOfOthers DEF MailInv
<1>5. CASE c.deleted = FALSE
  <2>1. mail' = [mail EXCEPT ![f] = Flagged(@, c.uid, TRUE)] /\ c.message \in discarded'
    BY <1>1, <1>5
  <2> QED BY <1>1, <1>3, <2>1, FlagOfOthers DEF MailInv
<1> QED BY <1>2, <1>4, <1>5

LEMMA ExpungeOfFolder ==
    ASSUME Typed, MailInv, NEW f \in Folders,
           mail' = [mail EXCEPT ![f] = {c \in @ : ~c.deleted}],
           UNCHANGED <<delivered, asked, discarded>>
    PROVE  /\ Mailboxes'
           /\ UNCHANGED <<selected, pc, call>> => CopiedFirst'
<1>1. Mailboxes /\ UniqueUids /\ CopiedFirst
  BY DEF MailInv, Mailboxes
<1>2. /\ UniqueUids'
      /\ \A g \in Folders : mail'[g] \subseteq mail[g]
      /\ \A g \in Folders : \A v, m : Kept(g, v, m) => Kept(g, v, m)'
  BY <1>1, ExpungeStep
<1>3. Mailboxes'
  BY <1>1, <1>2, MailboxesKept, NamesAssumption
<1>4. ASSUME UNCHANGED <<selected, pc, call>>
      PROVE  CopiedFirst'
  <2>1. Opened' \subseteq Opened
    BY <1>2, <1>4 DEF Opened, Typed, TypeOK
  <2> QED BY <1>1, <1>2, <1>4, <2>1, CopiedFirstKept
<1> QED BY <1>3, <1>4

LEMMA PurgeMail ==
    ASSUME Typed, MailInv, NEW f \in Folders, Purge(f)
    PROVE  MailInv'
BY ExpungeOfFolder DEF Purge, history, tasks, MailInv

LEMMA SelectMail ==
    ASSUME Typed, MailInv, NEW t \in Tasks, NEW answer \in Answers,
           Select(t, answer) \/ Examine(t, answer) \/ Fetch(t, answer)
    PROVE  MailInv'
<1>1. Command(answer, mail, uidnext) /\ UNCHANGED <<delivered, asked, discarded>>
  BY DEF Select, Examine, Fetch, Open, history
<1>2. mail' = mail
  BY <1>1, CommandOutcome DEF Typed, TypeOK
<1>3. pc[t] # "idle"
  BY DEF Select, Examine, Fetch
<1>4. \/ \E ok, uids : Return(t, ok, uids)
      \/ \E label \in Labels \ {"uid_store"} : GoTo(t, label)
  BY DEF Select, Examine, Fetch, OkElseReturn, Labels
<1>5. CopiedFirst'
  BY <1>3, <1>4, NotToStore
<1> QED BY <1>1, <1>2, <1>5, SameMailboxes DEF MailInv

LEMMA ExpungeMail ==
    ASSUME Typed, MailInv, NEW t \in Tasks, NEW answer \in Answers, Expunge(t, answer)
    PROVE  MailInv'
<1>1. /\ Command(answer, [mail EXCEPT ![selected] = {c \in @ : ~c.deleted}], uidnext)
      /\ pc[t] = "expunge"
      /\ Return(t, TRUE, {}) \/ Return(t, FALSE, {})
      /\ UNCHANGED <<delivered, asked, discarded>>
  BY DEF Expunge, history
<1>2. selected \in Folders
  BY <1>1, CallTyped DEF MoveCommands
<1>3. CopiedFirst'
  BY <1>1, NotToStore
<1>4. CASE mail' = mail
  BY <1>1, <1>3, <1>4, SameMailboxes DEF MailInv
<1>5. CASE mail' = [mail EXCEPT ![selected] = {c \in @ : ~c.deleted}]
  <2>1. Mailboxes'
    BY <1>1, <1>2, <1>5, ExpungeOfFolder
  <2> QED BY <1>3, <2>1 DEF MailInv
<1> QED BY <1>1, <1>4, <1>5, CommandOutcome DEF Typed, TypeOK

LEMMA UidStoreMail ==
    ASSUME Typed, MailInv, NEW t \in Tasks, NEW answer \in Answers, UidStore(t, answer)
    PROVE  MailInv'
<1>1. /\ Command(answer, [mail EXCEPT ![selected] = Flagged(@, call[t].uid, TRUE)], uidnext)
      /\ pc[t] = "uid_store"
      /\ GoTo(t, "expunge") \/ Return(t, FALSE, {})
      /\ UNCHANGED <<delivered, asked, discarded>>
  BY DEF UidStore, history
<1>2. /\ selected \in Folders /\ <<selected, call[t].uid>> \in asked /\ call[t].uid \in Nat
      /\ NoFolder \notin Folders
  BY <1>1, CallTyped, NamesAssumption DEF MoveCommands, Typed, ControlInv, MoveMessage
<1>3. CopiedFirst'
  BY <1>1, NotToStore DEF Labels
<1>4. Mailboxes /\ UniqueUids /\ CopiedFirst
  BY DEF MailInv, Mailboxes
<1>5. CASE mail' = mail
  BY <1>1, <1>3, <1>5, SameMailboxes DEF MailInv
<1>6. CASE mail' = [mail EXCEPT ![selected] = Flagged(@, call[t].uid, TRUE)]
  <2>1. /\ UniqueUids'
        /\ \A g \in Folders : \A c \in mail'[g] : \E d \in mail[g] :
              d.uid = c.uid /\ d.message = c.message
        /\ \A g \in Folders : \A v \in Nat : \A m :
              Kept(g, v, m) /\ <<g, v>> # <<selected, call[t].uid>> => Kept(g, v, m)'
    BY <1>2, <1>4, <1>6, FlagStep
  <2>2. ASSUME NEW g \in Folders, NEW v \in Nat, NEW m, m \notin discarded', Kept(g, v, m)
        PROVE  \E h \in Folders : \E w \in Nat : Kept(h, w, m)'
    <3>1. CASE g = selected /\ v = call[t].uid
      <4> DEFINE c == [uid |-> v, message |-> m, deleted |-> FALSE]
      <4>1. c \in Opened /\ c.uid = call[t].uid /\ c.message = m /\ c.message \notin discarded
        BY <1>1, <1>2, <2>2, <3>1 DEF Opened, Kept
      <4> HIDE DEF c
      <4>2. PICK h \in Folders, w \in Nat : Kept(h, w, m) /\ <<h, w>> # <<selected, call[t].uid>>
        BY <1>1, <1>4, <4>1 DEF CopiedFirst
      <4> QED BY <2>1, <4>2
    <3>2. CASE ~(g = selected /\ v = call[t].uid)
      BY <2>1, <2>2, <3>2
    <3> QED BY <3>1, <3>2
  <2>3. ASSUME NEW v, NEW m, <<Inbox, v>> \notin asked', Kept(Inbox, v, m)
        PROVE  Kept(Inbox, v, m)'
    <3>1. <<Inbox, v>> # <<selected, call[t].uid>>
      BY <1>1, <1>2, <2>3
    <3>2. v \in Nat
      BY <2>3, NamesAssumption DEF Kept, Typed, TypeOK, Copy
    <3> QED BY <2>1, <2>3, <3>1, <3>2, NamesAssumption
  <2>4. Mailboxes'
    BY <1>1, <1>4, <2>1, <2>2, <2>3, MailboxesKept
  <2> QED BY <1>3, <2>4 DEF MailInv
<1> QED BY <1>1, <1>5, <1>6, CommandOutcome DEF Typed, TypeOK

LEMMA StoreFlagMail ==
    ASSUME Typed, MailInv, NEW t \in Tasks, NEW answer \in Answers, StoreFlag(t, answer)
    PROVE  MailInv'
<1> DEFINE uid == call[t].uid
           flagged == Addressed(uid)
<1>1. /\ Command(answer, [mail EXCEPT ![selected] = Flagged(@, uid, call[t].set)], uidnext)
      /\ pc[t] = "set_flag"
      /\ Return(t, TRUE, {}) \/ Return(t, FALSE, {})
      /\ discarded' = IF call[t].set /\ answer # "no"
                        THEN discarded \cup {c.message : c \in flagged} ELSE discarded
      /\ UNCHANGED <<delivered, asked>>
  BY DEF StoreFlag
<1>2. selected \in Folders /\ call[t].set \in BOOLEAN /\ NoFolder \notin Folders
  BY <1>1, CallTyped, NamesAssumption
<1>3. CopiedFirst'
  BY <1>1, NotToStore
<1>4. discarded \subseteq discarded' /\ UNCHANGED <<delivered, asked>> /\ Mailboxes
  BY <1>1 DEF MailInv
<1>5. CASE mail' = mail
  BY <1>3, <1>4, <1>5, SameMailboxes DEF MailInv
<1>6. CASE answer # "no" /\ mail' = [mail EXCEPT ![selected] = Flagged(@, uid, call[t].set)]
  <2>1. CASE \E c \in mail[selected] : c.uid = uid
    <3>1. PICK c \in mail[selected] : c.uid = uid
      BY <2>1
    <3>2. c \in flagged
      BY <1>2, <3>1 DEF Addressed, Opened
    <3> HIDE DEF flagged
    <3>3. call[t].set = TRUE => c.message \in discarded'
      BY <1>1, <1>6, <3>2
    <3>4. CASE call[t].set = TRUE
      <4>1. mail' = [mail EXCEPT ![selected] = Flagged(@, c.uid, TRUE)]
        BY <1>6, <3>1, <3>4
      <4>2. Mailboxes'
        BY <1>2, <1>4, <3>3, <3>4, <4>1, FlagOfOthers
      <4> QED BY <1>3, <4>2 DEF MailInv
    <3>5. CASE call[t].set = FALSE
      <4>1. mail' = [mail EXCEPT ![selected] = Flagged(@, c.uid, FALSE)]
        BY <1>6, <3>1, <3>5
      <4>2. Mailboxes'
        BY <1>2, <1>4, <4>1, FlagOfOthers
      <4> QED BY <1>3, <4>2 DEF MailInv
    <3> QED BY <1>2, <3>4, <3>5
  <2>2. CASE \A c \in mail[selected] : c.uid # uid
    <3>1. Flagged(mail[selected], uid, call[t].set) = mail[selected]
      BY <2>2 DEF Flagged
    <3>2. mail' = mail
      BY <1>6, <3>1 DEF Typed, TypeOK
    <3> QED BY <1>3, <1>4, <3>2, SameMailboxes DEF MailInv
  <2> QED BY <2>1, <2>2
<1>7. \/ mail' = mail
      \/ answer # "no" /\ mail' = [mail EXCEPT ![selected] = Flagged(@, uid, call[t].set)]
  BY <1>1 DEF Command, server
<1> QED BY <1>5, <1>6, <1>7

LEMMA UidMvMail ==
    ASSUME Typed, MailInv, NEW t \in Tasks, NEW answer \in Answers, UidMv(t, answer)
    PROVE  MailInv'
<1>0. PICK uid, to : uid = call[t].uid /\ to = call[t].to
  OBVIOUS
<1> DEFINE left == [mail EXCEPT ![selected] = @ \ Addressed(uid)]
<1>1. /\ Command(answer, [left EXCEPT ![to] = @ \cup Added(Addressed(uid), to)],
                  NextUid(Addressed(uid), to))
      /\ pc[t] = "uid_mv"
      /\ Return(t, TRUE, {}) \/ GoTo(t, "uid_copy")
      /\ UNCHANGED <<delivered, asked, discarded>>
  BY <1>0 DEF UidMv, history
<1>2. /\ selected \in Folders /\ to \in Folders /\ <<selected, uid>> \in asked /\ uid \in Nat
      /\ NoFolder \notin Folders
  BY <1>0, <1>1, CallTyped, NamesAssumption DEF MoveCommands, Typed, ControlInv, MoveMessage
<1>3. CopiedFirst'
  BY <1>1, NotToStore DEF Labels
<1>4. Mailboxes /\ UniqueUids
  BY DEF MailInv, Mailboxes
<1>5. CASE mail' = mail
  BY <1>1, <1>3, <1>5, SameMailboxes DEF MailInv
<1>6. CASE mail' = [left EXCEPT ![to] = @ \cup Added(Addressed(uid), to)]
  <2>1. /\ mail \in [Folders -> SUBSET Copy] /\ uidnext \in [Folders -> Nat \ {0}]
        /\ Opened = mail[selected]
    BY <1>2 DEF Typed, TypeOK, Opened
  <2>2. /\ left \in [Folders -> SUBSET Copy] /\ \A g \in Folders : left[g] \subseteq mail[g]
        /\ \A g \in Folders : \A c \in mail[g] : c.uid # uid \/ g # selected => c \in left[g]
    BY <2>1 DEF Addressed
  <2> HIDE DEF left
  <2>3. /\ UniqueUids'
        /\ \A g \in Folders : left[g] \subseteq mail'[g]
        /\ \A g \in Folders : \A c \in mail'[g] : c \notin left[g] =>
              /\ g = to /\ c.uid = uidnext[to]
              /\ \E d \in mail[selected] : d.uid = uid /\ d.message = c.message
        /\ \A v, m : v = uidnext[to] /\ Kept(selected, uid, m) => Kept(to, v, m)'
    BY <1>2, <1>4, <1>6, <2>2, AddStep
  <2>4. \A g \in Folders : \A v, m : Kept(g, v, m) /\ <<g, v>> # <<selected, uid>> => Kept(g, v, m)'
    BY <2>2, <2>3 DEF Kept
  <2>5. uidnext[to] \in Nat
    BY <1>2, <2>1
  <2>6. \A g \in Folders : \A v \in Nat : \A m : Kept(g, v, m) =>
           \E h \in Folders : \E w \in Nat : Kept(h, w, m)'
    <3>1. TAKE g \in Folders, v \in Nat
    <3>2. SUFFICES ASSUME NEW m, Kept(g, v, m)
                   PROVE  \E h \in Folders : \E w \in Nat : Kept(h, w, m)'
      OBVIOUS
    <3>3. CASE g = selected /\ v = uid
      BY <1>2, <2>3, <2>5, <3>2, <3>3
    <3>4. CASE ~(g = selected /\ v = uid)
      BY <2>4, <3>2, <3>4
    <3> QED BY <3>3, <3>4
  <2>7. \A v, m : <<Inbox, v>> \notin asked' /\ Kept(Inbox, v, m) => Kept(Inbox, v, m)'
    BY <1>1, <1>2, <2>4, NamesAssumption
  <2>8. \A g \in Folders : \A c \in mail'[g] : \E h \in Folders : \E d \in mail[h] :
           d.message = c.message
    BY <1>2, <2>2, <2>3
  <2>9. Mailboxes'
    BY <1>1, <1>4, <2>3, <2>6, <2>7, <2>8, MailboxesKept
  <2> QED BY <1>3, <2>9 DEF MailInv
<1> QED BY <1>1, <1>5, <1>6, CommandOutcome DEF Typed, TypeOK

LEMMA UidCopyMail ==
    ASSUME Typed, MailInv, NEW t \in Tasks, NEW answer \in Answers, UidCopy(t, answer)
    PROVE  MailInv'
<1>0. PICK uid, to : uid = call[t].uid /\ to = call[t].to
  OBVIOUS
<1>1. /\ Command(answer, [mail EXCEPT ![to] = @ \cup Added(Addressed(uid), to)],
                  NextUid(Addressed(uid), to))
      /\ pc[t] = "uid_copy"
      /\ OkElseReturn(t, answer, "uid_store")
      /\ UNCHANGED <<selected, call, delivered, asked, discarded>>
  BY <1>0 DEF UidCopy, history
<1>2. /\ selected \in Folders /\ to \in Folders /\ uid \in Nat /\ uid < uidnext[selected]
      /\ NoFolder \notin Folders
  BY <1>0, <1>1, CallTyped, NamesAssumption DEF MoveCommands, Typed, ControlInv, MoveMessage
<1>3. Mailboxes /\ UniqueUids /\ KnownMessages /\ KeptSomewhere
  BY DEF MailInv, Mailboxes
<1>4. CASE mail' = mail /\ answer # "ok"
  <2>1. CopiedFirst'
    BY <1>1, <1>4, NotToStore DEF OkElseReturn
  <2> QED BY <1>1, <1>4, <2>1, SameMailboxes DEF MailInv
<1>5. CASE mail' = [mail EXCEPT ![to] = @ \cup Added(Addressed(uid), to)]
  <2>1. /\ mail \in [Folders -> SUBSET Copy] /\ uidnext \in [Folders -> Nat \ {0}]
        /\ \A g \in Folders : mail[g] \subseteq mail[g]
    BY DEF Typed, TypeOK
  <2>2. /\ UniqueUids'
        /\ \A g \in Folders : mail[g] \subseteq mail'[g]
        /\ \A g \in Folders : \A c \in mail'[g] : c \notin mail[g] =>
              /\ g = to /\ c.uid = uidnext[to]
              /\ \E d \in mail[selected] : d.uid = uid /\ d.message = c.message
        /\ \A v, m : v = uidnext[to] /\ Kept(selected, uid, m) => Kept(to, v, m)'
    BY <1>2, <1>3, <1>5, <2>1, AddStep
  <2>3. \A g \in Folders : \A v, m : Kept(g, v, m) => Kept(g, v, m)'
    BY <2>2 DEF Kept
  <2>4. \A g \in Folders : \A c \in mail'[g] : \E h \in Folders : \E d \in mail[h] :
           d.message = c.message
    BY <1>2, <2>2
  <2>5. Mailboxes'
    BY <1>1, <1>3, <2>2, <2>3, <2>4, MailboxesKept, NamesAssumption
  <2>6. ASSUME NEW c \in mail'[selected], c.uid = uid, c.message \notin discarded
        PROVE  \E f \in Folders : \E u \in Nat :
                  Kept(f, u, c.message)' /\ <<f, u>> # <<selected, uid>>
    <3>1. c \in mail[selected] /\ c \in Copy
      BY <1>2, <2>1, <2>2, <2>6
    <3>2. CASE c.deleted = FALSE
      <4>1. Kept(selected, uid, c.message)
        BY <2>6, <3>1, <3>2 DEF Kept, Copy
      <4>2. uidnext[to] \in Nat /\ <<to, uidnext[to]>> # <<selected, uid>>
        BY <1>2, <2>1
      <4> QED BY <1>2, <2>2, <4>1, <4>2
    <3>3. CASE c.deleted = TRUE
      <4>1. PICK d \in delivered : d[1] = c.message
        BY <1>2, <1>3, <3>1 DEF KnownMessages
      <4>2. PICK f \in Folders, u \in Nat : Kept(f, u, c.message)
        BY <1>3, <2>6, <4>1 DEF KeptSomewhere
      <4>3. <<f, u>> # <<selected, uid>>
        BY <1>3, <2>6, <3>1, <3>3, <4>2 DEF UniqueUids, Kept
      <4> QED BY <2>3, <4>2, <4>3
    <3> QED BY <3>1, <3>2, <3>3 DEF Copy
  <2>7. \A w \in Tasks \ {t} : pc'[w] # "uid_store"
    BY <1>1, Alone DEF OkElseReturn, GoTo, Return, Typed, TypeOK
  <2>8. selected' = selected /\ call' = call /\ discarded' = discarded /\ Opened' = mail'[selected]
    BY <1>1, <1>2 DEF Opened
  <2>9. CopiedFirst'
    <3>1. SUFFICES ASSUME NEW w \in Tasks, NEW c \in Opened', pc'[w] = "uid_store",
                          c.uid = call'[w].uid, c.message \notin discarded'
                   PROVE  \E f \in Folders : \E u \in Nat :
                             Kept(f, u, c.message)' /\ <<f, u>> # <<selected', c.uid>>
      BY DEF CopiedFirst
    <3>2. w = t
      BY <2>7, <3>1
    <3>3. c \in mail'[selected] /\ c.uid = uid /\ c.message \notin discarded
      BY <1>0, <2>8, <3>1, <3>2
    <3> QED BY <2>6, <2>8, <3>3
  <2> QED BY <2>5, <2>9 DEF MailInv
<1>6. \/ mail' = mail /\ answer # "ok"
      \/ mail' = [mail EXCEPT ![to] = @ \cup Added(Addressed(uid), to)]
  BY <1>1 DEF Command, server
<1> QED BY <1>4, <1>5, <1>6

LEMMA BeginMail ==
    ASSUME Typed, MailInv, NEW t \in Tasks, NEW c, NEW label \in {"select", "examine"},
           Begin(t, c, label), asked \subseteq asked'
    PROVE  MailInv'
<1>1. /\ holder = NoTask /\ pc' = [pc EXCEPT ![t] = label] /\ mail' = mail
      /\ delivered' = delivered /\ discarded' = discarded
  BY DEF Begin, server
<1>2. \A w \in Tasks : pc'[w] # "uid_store"
  BY <1>1, NamesAssumption DEF Typed, TypeOK, ControlInv
<1> QED BY <1>1, <1>2, NobodyStores, SameMailboxes DEF MailInv

LEMMA CallsMail ==
    ASSUME Typed, MailInv, NEW t \in Tasks, NEW from
    PROVE  /\ \A to, uid : BeginMove(t, from, to, uid) => MailInv'
           /\ \A limit : BeginFetch(t, from, limit) => MailInv'
           /\ \A uid, set : BeginSetFlag(t, from, uid, set) => MailInv'
BY BeginMail DEF BeginMove, BeginFetch, BeginSetFlag

LEMMA SessionMail ==
    ASSUME Typed, MailInv, Connect \/ Logout
    PROVE  MailInv'
<1>1. /\ holder = NoTask /\ pc' = pc /\ mail' = mail
      /\ delivered' = delivered /\ discarded' = discarded /\ asked' = asked
  BY DEF Connect, Logout, server, tasks, history
<1>2. \A w \in Tasks : pc'[w] # "uid_store"
  BY <1>1, NamesAssumption DEF Typed, ControlInv
<1> QED BY <1>1, <1>2, NobodyStores, SameMailboxes DEF MailInv

LEMMA MailInit == Init => MailInv
BY DEF Init, MailInv, Mailboxes, UniqueUids, KnownMessages, KeptSomewhere, KeptInInbox,
       CopiedFirst, Opened

LEMMA MailNext == Typed /\ MailInv /\ [Next]_vars => MailInv'
<1> SUFFICES ASSUME Typed, MailInv, [Next]_vars PROVE MailInv'
  OBVIOUS
<1>1. ASSUME NEW t \in Tasks, NEW answer \in Answers, Work(t, answer) PROVE MailInv'
  BY <1>1, SelectMail, UidMvMail, UidCopyMail, UidStoreMail, ExpungeMail, StoreFlagMail DEF Work
<1>2. ASSUME UNCHANGED vars PROVE MailInv'
  BY <1>2 DEF vars, MailInv, Mailboxes, UniqueUids, KnownMessages, KeptSomewhere, KeptInInbox,
              CopiedFirst, Opened, Kept
<1> QED BY <1>1, <1>2, DeliverMail, MarkMail, PurgeMail, CallsMail, SessionMail DEF Next

LEMMA MailHolds == Spec => []MailInv
<1> QED BY MailInit, MailNext, TypedHolds, PTL DEF Spec

\* move_message, with a command refused or lost anywhere in it, retried, and
\* among other clients: a message nobody flagged \Deleted has a copy.
THEOREM MoveLosesNothing == Spec => []NeverLost
<1>1. MailInv => NeverLost
  BY DEF MailInv, Mailboxes, KeptSomewhere, NeverLost, Kept
<1> QED BY <1>1, MailHolds, PTL

\* The session behind the mutex: a command acts on the folder its own call
\* opened, and an EXPUNGE removes only what somebody flagged or asked to move.
THEOREM SessionSparesOthers == Spec => []OthersStayPut
<1>1. MailInv => OthersStayPut
  BY DEF MailInv, Mailboxes, KeptInInbox, OthersStayPut, Kept
<1> QED BY <1>1, MailHolds, PTL

--------------------------------------------------------------------------------
(* fetch_headers. *)

\* What the range names of the counted uids `s` is among the most recent ones,
\* whatever newer uids are numbered with them.
LEMMA RangeIsRecent ==
    ASSUME NEW s \in SUBSET Nat, IsFiniteSet(s), NEW numbered \in SUBSET Nat,
           s \subseteq numbered, \A v \in s, x \in numbered \ s : v < x,
           NEW limit \in Nat \ {0},
           NEW u \in s, u \in Within(numbered, FirstToLast(Cardinality(s), limit))
    PROVE  Cardinality({v \in s : v > u}) < limit
<1> DEFINE older == {v \in s : v <= u}
           newer == {v \in s : v > u}
           total == Cardinality(s)
<1>0. \A v \in s : (v <= u \/ v > u) /\ ~(v <= u /\ v > u)
  <2>1. u \in Nat /\ \A v \in s : v \in Nat
    OBVIOUS
  <2> QED BY <2>1
<1>1. IsFiniteSet(older) /\ IsFiniteSet(newer)
  BY FS_Subset
<1>2. Cardinality(older) \in Nat /\ Cardinality(newer) \in Nat /\ total \in Nat
  BY <1>1, FS_CardinalityType
<1>3. Cardinality(older) + Cardinality(newer) = total
  <2>1. older \cup newer = s
    BY <1>0
  <2>2. older \cap newer = {}
    BY <1>0
  <2>3. Cardinality(older \cup newer)
           = Cardinality(older) + Cardinality(newer) - Cardinality(older \cap newer)
    BY <1>1, FS_Union
  <2>4. Cardinality(older \cap newer) = 0
    BY <2>2, FS_EmptySet
  <2> HIDE DEF older, newer
  <2> QED BY <1>2, <2>1, <2>3, <2>4
<1>4. Cardinality(older) # 0
  <2>1. u \in older
    OBVIOUS
  <2> QED BY <1>1, <2>1, FS_EmptySet
<1>5. SequenceNumber(numbered, u) = Cardinality(older)
  <2>1. \A x \in numbered \ s : ~(x <= u)
    <3>1. TAKE x \in numbered \ s
    <3>2. u < x /\ u \in Nat /\ x \in Nat
      OBVIOUS
    <3> QED BY <3>2
  <2>2. {x \in numbered : x <= u} = older
    BY <2>1
  <2> QED BY <2>2 DEF SequenceNumber
<1>6. CASE limit < total
  <2>1. limit # NoLimit /\ total # NoLimit /\ total - limit + 1 # NoLimit
    BY <1>2, <1>6, LimitsAssumption
  <2>2. FirstToLast(total, limit) = <<total - limit + 1, total>>
    BY <1>6, <2>1 DEF FirstToLast
  <2>3. \/ SequenceNumber(numbered, u) \in (total - limit + 1)..total
        \/ SequenceNumber(numbered, u) \in total..(total - limit + 1)
    BY <2>1, <2>2 DEF Within
  <2> HIDE DEF older, newer, total
  <2>4. Cardinality(newer) < limit
    BY <1>2, <1>3, <1>5, <1>6, <2>3
  <2> QED BY <2>4 DEF newer
<1>7. CASE ~(limit < total)
  <2> HIDE DEF older, newer, total
  <2>1. Cardinality(newer) < limit
    BY <1>2, <1>3, <1>4, <1>7
  <2> QED BY <2>1 DEF newer
<1> QED BY <1>6, <1>7

\* The uids of a folder are finitely many.
LEMMA FiniteUids ==
    ASSUME Typed, NEW f \in Folders
    PROVE  IsFiniteSet(Uids(mail[f])) /\ \A u \in Uids(mail[f]) : u < uidnext[f]
<1>1. uidnext[f] \in Nat /\ \A c \in mail[f] : c.uid \in Nat \ {0} /\ c.uid < uidnext[f]
  BY DEF Typed, TypeOK, Copy
<1>2. Uids(mail[f]) \subseteq 1..uidnext[f]
  BY <1>1 DEF Uids
<1>3. IsFiniteSet(1..uidnext[f])
  BY <1>1, FS_Interval
<1> QED BY <1>1, <1>2, <1>3, FS_Subset DEF Uids

LEMMA SeenInit == Init => SeenInv
BY FS_EmptySet DEF Init, SeenInv

\* Nobody is between EXAMINE and FETCH.
LEMMA NobodyFetches ==
    ASSUME SeenInv, seen' = seen, \A t \in Tasks : pc'[t] # "fetch"
    PROVE  SeenInv'
BY DEF SeenInv

\* New mail, or less of the old.
LEMMA MailDuringFetch ==
    ASSUME Typed, SeenInv, UNCHANGED <<pc, seen, selected>>,
           \A f \in Folders : uidnext'[f] \in Nat /\ uidnext[f] <= uidnext'[f],
           \A f \in Folders : \A c \in mail'[f] :
               c.uid = uidnext[f] \/ \E d \in mail[f] : d.uid = c.uid
    PROVE  SeenInv'
<1>1. SUFFICES ASSUME NEW t \in Tasks, pc[t] = "fetch"
               PROVE  /\ \A v \in seen[t] : v < uidnext'[selected]
                      /\ \A v \in seen[t], c \in mail'[selected] : c.uid \notin seen[t] => v < c.uid
  BY DEF SeenInv
<1>2. selected \in Folders
  BY <1>1, CallTyped
<1>3. seen[t] \subseteq Nat /\ uidnext[selected] \in Nat /\ uidnext'[selected] \in Nat
      /\ uidnext[selected] <= uidnext'[selected]
  BY <1>2 DEF Typed, TypeOK
<1>4. /\ \A v \in seen[t] : v < uidnext[selected]
      /\ \A v \in seen[t], c \in mail[selected] : c.uid \notin seen[t] => v < c.uid
  BY <1>1 DEF SeenInv
<1>5. \A v \in seen[t] : v < uidnext'[selected]
  BY <1>3, <1>4
<1>6. \A v \in seen[t], c \in mail'[selected] : c.uid \notin seen[t] => v < c.uid
  BY <1>2, <1>4
<1> QED BY <1>5, <1>6

LEMMA DeliverSeen ==
    ASSUME Typed, SeenInv, NEW msg \in Messages, Deliver(msg)
    PROVE  SeenInv'
<1>1. /\ mail' = [mail EXCEPT ![Inbox] = @ \cup
                     {[uid |-> uidnext[Inbox], message |-> msg, deleted |-> FALSE]}]
      /\ uidnext' = [uidnext EXCEPT ![Inbox] = @ + 1]
      /\ UNCHANGED <<pc, seen, selected>>
  BY DEF Deliver, tasks
<1>2. mail \in [Folders -> SUBSET Copy] /\ uidnext \in [Folders -> Nat \ {0}]
  BY DEF Typed, TypeOK
<1>3. \A f \in Folders : uidnext'[f] \in Nat /\ uidnext[f] <= uidnext'[f]
  BY <1>1, <1>2
<1>4. \A f \in Folders : \A c \in mail'[f] :
         c.uid = uidnext[f] \/ \E d \in mail[f] : d.uid = c.uid
  BY <1>1, <1>2
<1> QED BY <1>1, <1>3, <1>4, MailDuringFetch

LEMMA ClientsSeen ==
    ASSUME Typed, MailInv, SeenInv, NEW f \in Folders,
           (\E c \in mail[f] : Mark(f, c)) \/ Purge(f)
    PROVE  SeenInv'
<1>1. UNCHANGED <<pc, seen, selected>> /\ uidnext' = uidnext
  BY DEF Mark, Purge, tasks
<1>2. mail \in [Folders -> SUBSET Copy] /\ uidnext \in [Folders -> Nat \ {0}]
  BY DEF Typed, TypeOK
<1>3. \A g \in Folders : \A c \in mail'[g] : \E d \in mail[g] : d.uid = c.uid
  <2>1. CASE Purge(f)
    BY <1>2, <2>1 DEF Purge
  <2>2. CASE \E c \in mail[f] : Mark(f, c)
    <3>1. PICK c \in mail[f] : mail' = [mail EXCEPT ![f] = Flagged(@, c.uid, ~c.deleted)]
      BY <2>2 DEF Mark
    <3>2. mail'[f] = Flagged(mail[f], c.uid, ~c.deleted)
          /\ \A g \in Folders : g # f => mail'[g] = mail[g]
      BY <1>2, <3>1
    <3>3. \A e \in mail'[f] : \E d \in mail[f] : d.uid = e.uid
      BY <1>2, <3>2 DEF Flagged, Copy
    <3> QED BY <3>2, <3>3
  <2> QED BY <2>1, <2>2
<1> QED BY <1>1, <1>2, <1>3, MailDuringFetch

LEMMA ExamineSeen ==
    ASSUME Typed, SeenInv, NEW t \in Tasks, NEW answer \in Answers, Examine(t, answer)
    PROVE  SeenInv'
<1>1. /\ pc[t] = "examine" /\ Command(answer, mail, uidnext)
      /\ selected' = IF answer = "ok" THEN call[t].from ELSE NoFolder
      /\ seen' = [seen EXCEPT ![t] = IF answer = "ok" THEN Uids(mail[call[t].from]) ELSE {}]
      /\ Return(t, TRUE, {}) \/ OkElseReturn(t, answer, "fetch")
  BY DEF Examine, Open
<1>2. call[t].from \in Folders
  BY <1>1, CallTyped
<1>3. mail' = mail /\ uidnext' = uidnext
  BY <1>1, CommandOutcome DEF Typed, TypeOK
<1>4. \A w \in Tasks \ {t} : pc'[w] # "fetch" /\ seen'[w] = seen[w]
  BY <1>1, Alone DEF OkElseReturn, Return, GoTo, Typed, TypeOK
<1>5. seen'[t] = IF answer = "ok" THEN Uids(mail[call[t].from]) ELSE {}
  BY <1>1 DEF Typed, TypeOK
<1>6. pc'[t] = "fetch" => answer = "ok"
  BY <1>1 DEF OkElseReturn, Return, GoTo, Typed, TypeOK
<1>7. \A w \in Tasks : IsFiniteSet(seen'[w])
  BY <1>2, <1>4, <1>5, FiniteUids, FS_EmptySet DEF SeenInv
<1>8. pc'[t] = "fetch" =>
        /\ \A v \in seen'[t] : v < uidnext'[selected']
        /\ \A c \in mail'[selected'] : c.uid \in seen'[t]
  <2>1. SUFFICES ASSUME pc'[t] = "fetch"
                 PROVE  /\ \A v \in seen'[t] : v < uidnext'[selected']
                        /\ \A c \in mail'[selected'] : c.uid \in seen'[t]
    OBVIOUS
  <2>2. selected' = call[t].from /\ seen'[t] = Uids(mail[call[t].from])
    BY <1>1, <1>5, <1>6, <2>1
  <2>3. \A v \in Uids(mail[call[t].from]) : v < uidnext[call[t].from]
    BY <1>2, FiniteUids
  <2> QED BY <1>3, <2>2, <2>3 DEF Uids
<1> QED BY <1>4, <1>7, <1>8 DEF SeenInv

\* Every other command leaves nobody between EXAMINE and FETCH.
LEMMA CommandsSeen ==
    ASSUME Typed, SeenInv, NEW t \in Tasks, NEW answer \in Answers,
           Work(t, answer), ~Examine(t, answer)
    PROVE  SeenInv'
<1>1. /\ pc[t] # "idle" /\ seen' = seen
      /\ \/ \E ok, uids : Return(t, ok, uids)
         \/ \E label \in Labels \ {"fetch"} : GoTo(t, label)
  BY DEF Work, Select, UidMv, UidCopy, UidStore, Expunge, Fetch, StoreFlag, OkElseReturn, Labels
<1>2. \A w \in Tasks : pc'[w] # "fetch"
  BY <1>1, Alone DEF Return, GoTo, Labels, Typed, TypeOK
<1> QED BY <1>1, <1>2, NobodyFetches

LEMMA CallsSeen ==
    ASSUME Typed, SeenInv, NEW t \in Tasks, NEW c, NEW label, Begin(t, c, label), label # "fetch"
    PROVE  SeenInv'
<1>1. /\ holder = NoTask /\ pc' = [pc EXCEPT ![t] = label] /\ seen' = seen
  BY DEF Begin
<1>2. \A w \in Tasks : pc'[w] # "fetch"
  BY <1>1, NamesAssumption DEF Typed, TypeOK, ControlInv
<1> QED BY <1>1, <1>2, NobodyFetches

LEMMA SessionSeen ==
    ASSUME Typed, SeenInv, Connect \/ Logout
    PROVE  SeenInv'
<1>1. holder = NoTask /\ pc' = pc /\ seen' = seen
  BY DEF Connect, Logout, tasks
<1>2. \A w \in Tasks : pc'[w] # "fetch"
  BY <1>1, NamesAssumption DEF Typed, ControlInv
<1> QED BY <1>1, <1>2, NobodyFetches

LEMMA SeenNext == Typed /\ MailInv /\ SeenInv /\ [Next]_vars => SeenInv'
<1> SUFFICES ASSUME Typed, MailInv, SeenInv, [Next]_vars PROVE SeenInv'
  OBVIOUS
<1>1. ASSUME NEW t \in Tasks, NEW answer \in Answers, Work(t, answer) PROVE SeenInv'
  BY <1>1, ExamineSeen, CommandsSeen
<1>2. ASSUME NEW t \in Tasks, NEW from, NEW to, NEW uid, BeginMove(t, from, to, uid) PROVE SeenInv'
  BY <1>2, CallsSeen DEF BeginMove
<1>3. ASSUME NEW t \in Tasks, NEW from, NEW limit, BeginFetch(t, from, limit) PROVE SeenInv'
  BY <1>3, CallsSeen DEF BeginFetch
<1>4. ASSUME NEW t \in Tasks, NEW from, NEW uid, NEW set, BeginSetFlag(t, from, uid, set) PROVE SeenInv'
  BY <1>4, CallsSeen DEF BeginSetFlag
<1>5. ASSUME UNCHANGED vars PROVE SeenInv'
  BY <1>5 DEF vars, SeenInv
<1> QED BY <1>1, <1>2, <1>3, <1>4, <1>5, DeliverSeen, ClientsSeen, SessionSeen DEF Next

\* A step after which at most one task has other headers, and those are recent.
LEMMA RecentKept ==
    ASSUME FetchIsRecent, NEW t,
           \A w \in Tasks \ {t} : /\ pc'[w] = pc[w] /\ call'[w] = call[w]
                                  /\ result'[w] = result[w] /\ seen'[w] = seen[w],
           t \in Tasks /\ pc'[t] = "idle" => result'[t].uids = {}
    PROVE  FetchIsRecent'
BY DEF FetchIsRecent, Returned

LEMMA FetchRecent ==
    ASSUME Typed, SeenInv, FetchIsRecent, NEW t \in Tasks, NEW answer \in Answers, Fetch(t, answer)
    PROVE  FetchIsRecent'
<1>1. /\ pc[t] = "fetch" /\ call' = call /\ seen' = seen
      /\ call[t] \in FetchHeaders
  BY DEF Fetch, Typed, ControlInv
<1>2. PICK numbered \in {seen[t], seen[t] \cup Uids(Opened)} : \E ok \in BOOLEAN :
         \E part \in SUBSET Within(numbered, FirstToLast(Cardinality(seen[t]), call[t].limit)) :
           Return(t, ok, part)
  BY DEF Fetch
<1> PICK ok \in BOOLEAN,
           uids \in SUBSET Within(numbered, FirstToLast(Cardinality(seen[t]), call[t].limit)) :
             Return(t, ok, uids)
  BY <1>2
<1>3. /\ pc' = [pc EXCEPT ![t] = "idle"]
      /\ result' = [result EXCEPT ![t] = [ok |-> ok, uids |-> uids]]
  BY DEF Return
<1>4. /\ result'[t].uids = uids
      /\ \A w \in Tasks \ {t} : pc'[w] = pc[w] /\ result'[w] = result[w]
  BY <1>3 DEF Typed, TypeOK
<1>5. ASSUME call[t].limit \notin {NoLimit, 0}, NEW u \in uids \cap seen[t]
      PROVE  Cardinality({v \in seen[t] : v > u}) < call[t].limit
  <2>1. call[t].limit \in Nat \ {0}
    BY <1>1, <1>5, LimitsAssumption DEF FetchHeaders
  <2>2. seen[t] \in SUBSET Nat /\ IsFiniteSet(seen[t]) /\ selected \in Folders /\ NoFolder \notin Folders
    BY <1>1, CallTyped, NamesAssumption DEF Typed, TypeOK, SeenInv
  <2>3. Opened = mail[selected] /\ Uids(Opened) \subseteq Nat
    BY <2>2, AddressedCopies DEF Opened
  <2>4. \A v \in seen[t], x \in numbered \ seen[t] : v < x
    BY <1>1, <2>3 DEF SeenInv, Uids
  <2>5. numbered \in SUBSET Nat /\ seen[t] \subseteq numbered
    BY <2>2, <2>3
  <2>6. u \in Within(numbered, FirstToLast(Cardinality(seen[t]), call[t].limit)) /\ u \in seen[t]
    BY <1>5
  <2> QED BY <2>1, <2>2, <2>4, <2>5, <2>6, RangeIsRecent
<1> QED BY <1>1, <1>4, <1>5 DEF FetchIsRecent, Returned

LEMMA CommandsRecent ==
    ASSUME Typed, FetchIsRecent, NEW t \in Tasks, NEW answer \in Answers,
           Work(t, answer), ~Fetch(t, answer)
    PROVE  FetchIsRecent'
<1>1. \/ \E ok : Return(t, ok, {})
      \/ \E label \in Labels : GoTo(t, label)
  BY DEF Work, Select, UidMv, UidCopy, UidStore, Expunge, Examine, StoreFlag, OkElseReturn, Labels
<1>2. call' = call /\ \A w \in Tasks \ {t} : seen'[w] = seen[w]
  BY DEF Work, Select, UidMv, UidCopy, UidStore, Expunge, Examine, StoreFlag, Typed, TypeOK
<1>3. \A w \in Tasks \ {t} : pc'[w] = pc[w] /\ result'[w] = result[w]
  BY <1>1 DEF Return, GoTo, Typed, TypeOK
<1>4. pc'[t] = "idle" => result'[t].uids = {}
  BY <1>1 DEF Return, GoTo, Labels, Typed, TypeOK
<1> QED BY <1>2, <1>3, <1>4, RecentKept

LEMMA CallsRecent ==
    ASSUME Typed, FetchIsRecent, NEW t \in Tasks, NEW c, NEW label, Begin(t, c, label), label # "idle"
    PROVE  FetchIsRecent'
<1>1. /\ pc' = [pc EXCEPT ![t] = label] /\ call' = [call EXCEPT ![t] = c]
      /\ seen' = seen /\ result' = result
  BY DEF Begin
<1>2. pc'[t] # "idle" /\ \A w \in Tasks \ {t} : pc'[w] = pc[w] /\ call'[w] = call[w]
  BY <1>1 DEF Typed, TypeOK
<1> QED BY <1>1, <1>2, RecentKept

LEMMA RecentNext == Typed /\ SeenInv /\ FetchIsRecent /\ [Next]_vars => FetchIsRecent'
<1> SUFFICES ASSUME Typed, SeenInv, FetchIsRecent, [Next]_vars PROVE FetchIsRecent'
  OBVIOUS
<1>1. ASSUME NEW t \in Tasks, NEW answer \in Answers, Work(t, answer) PROVE FetchIsRecent'
  BY <1>1, FetchRecent, CommandsRecent
<1>2. ASSUME NEW t \in Tasks, NEW from, NEW to, NEW uid, BeginMove(t, from, to, uid)
      PROVE  FetchIsRecent'
  BY <1>2, CallsRecent DEF BeginMove
<1>3. ASSUME NEW t \in Tasks, NEW from, NEW limit, BeginFetch(t, from, limit) PROVE FetchIsRecent'
  BY <1>3, CallsRecent DEF BeginFetch
<1>4. ASSUME NEW t \in Tasks, NEW from, NEW uid, NEW set, BeginSetFlag(t, from, uid, set)
      PROVE  FetchIsRecent'
  BY <1>4, CallsRecent DEF BeginSetFlag
<1>5. ASSUME UNCHANGED <<pc, call, result, seen>> PROVE FetchIsRecent'
  BY <1>5 DEF FetchIsRecent, Returned
<1>6. ASSUME \/ \E m \in Messages : Deliver(m)
             \/ \E f \in Folders : \E c \in mail[f] : Mark(f, c)
             \/ \E f \in Folders : Purge(f)
             \/ Connect \/ Logout \/ UNCHANGED vars
      PROVE  UNCHANGED <<pc, call, result, seen>>
  BY <1>6 DEF Deliver, Mark, Purge, Connect, Logout, tasks, vars
<1> QED BY <1>1, <1>2, <1>3, <1>4, <1>5, <1>6 DEF Next

LEMMA RecentInit == Init => FetchIsRecent
BY DEF Init, FetchIsRecent, Returned

LEMMA SeenHolds == Spec => []SeenInv
<1> QED BY SeenInit, SeenNext, TypedHolds, MailHolds, PTL DEF Spec

\* fetch_headers with a limit: a range of sequence numbers computed from the
\* count EXAMINE gave still names the most recent mail when FETCH arrives.
THEOREM LimitedFetchIsRecent == Spec => []FetchIsRecent
<1> QED BY RecentInit, RecentNext, TypedHolds, SeenHolds, PTL DEF Spec

================================================================================
