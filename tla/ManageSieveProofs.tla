--------------------------- MODULE ManageSieveProofs ---------------------------
(***************************************************************************)
(* What every step of put_active_script and of the server it talks to      *)
(* preserves, for any callers and scripts.  The steps are composed with    *)
(* those of the programs in MailClientsProofs.                             *)
(*                                                                         *)
(* SieveInv says of each call what may be in its stream (Stream), how far  *)
(* the server has got (Progress), what it returned (Reported), and of the  *)
(* filters that nobody else changed that they are as the call left them.   *)
(***************************************************************************)
EXTENDS ManageSieve, SequenceTheorems, TLAPS

Speaking == Announced \cup Commands

\* A line answers the stage the client is in, and an OK what the server did;
\* or it is the bytes of a literal, or the goodbye of a server that hung up.
LineFits(p, line) ==
    \/ /\ line.re = stage[p] /\ stage[p] \in Speaking /\ written[p]
       /\ line.word = "OK" => stage[p] \in done[p]
       /\ line.word = "NO" => stage[p] \notin done[p]
    \/ line = Literal
    \/ line = LineOf("BYE", FALSE, "nothing") /\ link[p] = "closed"

\* What may come after what: a literal after a marker only, nothing but a
\* goodbye after a terminator, and nothing after that.
MayFollow(x, y) ==
    /\ x.re # "nothing"
    /\ x.marker => y.re \in {"literal", "nothing"}
    /\ ~x.marker \/ x.re = "literal" => y.re # "literal"
    /\ ~x.marker /\ x.word # "capability" /\ x.re # "literal" => y.re = "nothing"

WellFormed(s) ==
    /\ s # <<>> => s[1].re # "literal"
    /\ \A i \in 1..Len(s) : i + 1 \in 1..Len(s) => MayFollow(s[i], s[i + 1])

Stream(p) ==
    /\ WellFormed(inbound[p])
    /\ \A i \in 1..Len(inbound[p]) : LineFits(p, inbound[p][i])
    /\ stage[p] \in {"idle", "connect"} =>
          link[p] = "none" /\ inbound[p] = <<>> /\ request[p] = "none"
    /\ request[p] # "none" =>
          /\ link[p] = "open" /\ inbound[p] = <<>>
          /\ request[p] = stage[p] /\ stage[p] \in Speaking /\ written[p]

\* The commands before that of a stage.
Before(s) ==
    CASE s \in {"connect", "greeting"} -> {}
      [] s = "starttls" -> {"greeting"}
      [] s \in {"handshake", "capabilities"} -> {"greeting", "starttls"}
      [] s = "authenticate" -> {"greeting", "starttls", "capabilities"}
      [] s = "putscript" -> {"greeting", "starttls", "capabilities", "authenticate"}
      [] s = "setactive" ->
            {"greeting", "starttls", "capabilities", "authenticate", "putscript"}

\* The server has obeyed no command of a later stage, and that of this stage
\* only if it was asked and answered, or lost.
Progress(p) ==
    stage[p] # "idle" =>
        /\ done[p] \subseteq Before(stage[p]) \cup
              IF Reading(p) /\ request[p] = "none" THEN {stage[p]} ELSE {}
        /\ stage[p] \in {"putscript", "setactive"} => "authenticate" \in done[p]
        /\ stage[p] = "setactive" => "putscript" \in done[p]
        /\ push[p] \in Push

Reported(p) ==
    /\ stage[p] # "idle" => returned[p] = "none" /\ heard[p].word \in {"OK", "capability"}
    /\ returned[p] = "ok" => {"authenticate", "putscript", "setactive"} \subseteq done[p]
    /\ returned[p] # "none" /\ heard[p].word = "NO" =>
          heard[p].at \notin done[p] /\ "setactive" \notin done[p]
    /\ \/ heard[p].re = heard[p].at
       \/ heard[p].re = "nothing" /\ heard[p].word \in {"BYE", "capability"}

\* The filters are as this call left them.
Undisturbed(p) ==
    quiet[p] =>
        /\ "putscript" \in done[p] => scripts[push[p].name] = push[p].script
        /\ "setactive" \in done[p] => active = push[p].name

Heard == [at : Stages, re : Announced \cup Commands \cup {"literal", "nothing"},
          word : {"capability", "OK", "NO", "BYE"}]

SieveTyped == SieveTypeOK /\ heard \in [Callers -> Heard]

CallInv(p) == Stream(p) /\ Progress(p) /\ Reported(p)

SieveInv ==
    /\ SieveTyped
    /\ \A p \in Callers : CallInv(p)
    /\ \A p \in Callers : Undisturbed(p)

--------------------------------------------------------------------------------
(* The stream. *)

LEMMA TailWellFormed ==
    ASSUME NEW s \in Seq(Line), WellFormed(s), s # <<>>, ~s[1].marker
    PROVE  /\ Tail(s) \in Seq(Line) /\ WellFormed(Tail(s))
           /\ \A i \in 1..Len(Tail(s)) : \E j \in 1..Len(s) : Tail(s)[i] = s[j]
           /\ s[1].word # "capability" => Tail(s) = <<>> \/ Tail(s)[1].re = "nothing"
<1>1. /\ Tail(s) \in Seq(Line) /\ Len(s) \in Nat \ {0} /\ Len(Tail(s)) = Len(s) - 1
      /\ \A i \in 1..Len(Tail(s)) : Tail(s)[i] = s[i + 1]
  BY HeadTailProperties, EmptySeq
<1>2. \A i \in 1..Len(Tail(s)) : i + 1 \in 1..Len(s)
  BY <1>1
<1>3. Tail(s) # <<>> => MayFollow(s[1], s[2]) /\ Tail(s)[1] = s[2]
  <2>1. SUFFICES ASSUME Tail(s) # <<>> PROVE MayFollow(s[1], s[2]) /\ Tail(s)[1] = s[2]
    OBVIOUS
  <2>2. Len(Tail(s)) \in Nat \ {0}
    BY <1>1, <2>1, EmptySeq
  <2>3. 1 \in 1..Len(s) /\ 1 + 1 \in 1..Len(s) /\ 1 \in 1..Len(Tail(s))
    BY <1>1, <2>2
  <2> QED BY <1>1, <2>3 DEF WellFormed
<1>4. Tail(s) # <<>> => Tail(s)[1].re # "literal"
  BY <1>3 DEF MayFollow
<1>5. \A i \in 1..Len(Tail(s)) : i + 1 \in 1..Len(Tail(s)) => MayFollow(Tail(s)[i], Tail(s)[i + 1])
  BY <1>1, <1>2 DEF WellFormed
<1>6. s[1].re # "literal"
  BY DEF WellFormed
<1> QED BY <1>1, <1>2, <1>3, <1>4, <1>5, <1>6 DEF WellFormed, MayFollow

\* A line with a marker and the one after it.
LEMMA DrainWellFormed ==
    ASSUME NEW s \in Seq(Line), WellFormed(s), Len(s) > 1, s[1].marker
    PROVE  /\ Tail(Tail(s)) \in Seq(Line) /\ WellFormed(Tail(Tail(s)))
           /\ \A i \in 1..Len(Tail(Tail(s))) : \E j \in 1..Len(s) : Tail(Tail(s))[i] = s[j]
<1> DEFINE r == Tail(Tail(s))
<1>1. Len(s) \in Nat /\ s # <<>>
  BY EmptySeq
<1>2. /\ Tail(s) \in Seq(Line) /\ Len(Tail(s)) = Len(s) - 1
      /\ \A i \in 1..Len(Tail(s)) : Tail(s)[i] = s[i + 1]
  BY <1>1, HeadTailProperties
<1>3. Tail(s) # <<>>
  BY <1>1, <1>2, EmptySeq
<1>4. /\ r \in Seq(Line) /\ Len(r) = Len(s) - 2
      /\ \A i \in 1..Len(r) : r[i] = Tail(s)[i + 1]
  BY <1>1, <1>2, <1>3, HeadTailProperties
<1> HIDE DEF r
<1>5. \A i \in 1..Len(r) : i + 2 \in 1..Len(s) /\ i + 1 \in 1..Len(Tail(s)) /\ r[i] = s[i + 2]
  BY <1>1, <1>2, <1>4
<1>6. MayFollow(s[1], s[2])
  BY <1>1 DEF WellFormed
<1>7. r # <<>> => r[1] = s[3] /\ MayFollow(s[2], s[3])
  <2>1. SUFFICES ASSUME r # <<>> PROVE r[1] = s[3] /\ MayFollow(s[2], s[3])
    OBVIOUS
  <2>2. 1 \in 1..Len(r)
    BY <1>4, <2>1, EmptySeq
  <2>3. r[1] = s[3] /\ 3 \in 1..Len(s) /\ 2 \in 1..Len(s)
    BY <1>1, <1>5, <2>2
  <2> QED BY <2>3 DEF WellFormed
<1>8. s[2] \in Line
  BY <1>1
<1>9. r # <<>> => r[1].re # "literal"
  BY <1>6, <1>7, <1>8 DEF MayFollow, WellFormed
<1>10. \A i \in 1..Len(r) : i + 1 \in 1..Len(r) => MayFollow(r[i], r[i + 1])
  BY <1>1, <1>5 DEF WellFormed
<1> QED BY <1>4, <1>5, <1>9, <1>10 DEF WellFormed, r

LEMMA PrefixWellFormed ==
    ASSUME NEW s \in Seq(Line), WellFormed(s), NEW n \in 0..Len(s)
    PROVE  /\ SubSeq(s, 1, n) \in Seq(Line) /\ WellFormed(SubSeq(s, 1, n))
           /\ \A i \in 1..Len(SubSeq(s, 1, n)) : i \in 1..Len(s) /\ SubSeq(s, 1, n)[i] = s[i]
<1> DEFINE r == SubSeq(s, 1, n)
<1>1. Len(s) \in Nat /\ n \in Nat
  OBVIOUS
<1>2. r \in Seq(Line) /\ Len(r) = n /\ \A i \in 1..n : r[i] = s[i]
  BY <1>1, SubSeqProperties
<1> HIDE DEF r
<1>3. \A i \in 1..Len(r) : i \in 1..Len(s) /\ r[i] = s[i]
  BY <1>1, <1>2
<1>4. r # <<>> => r[1].re # "literal"
  <2>1. SUFFICES ASSUME r # <<>> PROVE r[1].re # "literal"
    OBVIOUS
  <2>2. 1 \in 1..Len(r)
    BY <1>1, <1>2, <2>1, EmptySeq
  <2>3. s # <<>>
    BY <1>3, <2>2, EmptySeq
  <2> QED BY <1>3, <2>2, <2>3 DEF WellFormed
<1>5. \A i \in 1..Len(r) : i + 1 \in 1..Len(r) => MayFollow(r[i], r[i + 1])
  BY <1>3 DEF WellFormed
<1> QED BY <1>2, <1>3, <1>4, <1>5 DEF WellFormed, r

\* A torn line answers what the line did.
LEMMA TornLine ==
    ASSUME NEW line \in Line, NEW l \in Torn(line)
    PROVE  /\ l \in Line /\ l.re = line.re /\ ~l.marker /\ line.re # "literal"
           /\ l.word \in {line.word, "capability"}
<1>1. CASE line.re = "literal"
  BY <1>1 DEF Torn
<1>2. CASE line.re # "literal"
  <2>1. PICK w \in {line.word, "capability"} : l = LineOf(w, FALSE, line.re)
    BY <1>2 DEF Torn
  <2>2. l.word = w /\ l.marker = FALSE /\ l.re = line.re
    BY <2>1 DEF LineOf
  <2>3. l \in Line
    BY <2>1 DEF LineOf, Line
  <2> QED
    BY <1>2, <2>2, <2>3
<1> QED
  BY <1>1, <1>2

\* A stream that is cut in a line.
LEMMA TornWellFormed ==
    ASSUME NEW s \in Seq(Line), WellFormed(s), NEW n \in 1..Len(s), NEW l \in Torn(s[n])
    PROVE  LET r == Append(SubSeq(s, 1, n - 1), l)
           IN  /\ r \in Seq(Line) /\ WellFormed(r)
               /\ \A i \in 1..Len(r) : \E j \in 1..Len(s) : r[i] = s[j] \/ r[i] \in Torn(s[j])
<1> DEFINE q == SubSeq(s, 1, n - 1)
           r == Append(q, l)
<1>1. Len(s) \in Nat /\ n \in Nat /\ n - 1 \in 0..Len(s) /\ s[n] \in Line
  OBVIOUS
<1>2. q \in Seq(Line) /\ Len(q) = n - 1 /\ \A i \in 1..(n - 1) : q[i] = s[i]
  BY <1>1, SubSeqProperties
<1>3. l \in Line /\ l.re = s[n].re /\ l.re # "literal"
  BY <1>1, TornLine
<1> HIDE DEF q
<1>4. r \in Seq(Line) /\ Len(r) = n /\ r[n] = l /\ \A i \in 1..(n - 1) : r[i] = s[i]
  BY <1>1, <1>2, <1>3, AppendProperties
<1> HIDE DEF r
<1>5. \A i \in 1..n : r[i].re = s[i].re /\ (i # n => r[i] = s[i])
  BY <1>1, <1>3, <1>4
<1>6. r[1].re # "literal"
  <2>1. 1 \in 1..n /\ s # <<>>
    BY <1>1, EmptySeq
  <2> QED BY <1>5, <2>1 DEF WellFormed
<1>7. ASSUME NEW i \in 1..Len(r), i + 1 \in 1..Len(r) PROVE MayFollow(r[i], r[i + 1])
  <2>1. i \in 1..n /\ i + 1 \in 1..n /\ i # n /\ i \in 1..Len(s) /\ i + 1 \in 1..Len(s)
    BY <1>1, <1>4, <1>7
  <2>2. MayFollow(s[i], s[i + 1])
    BY <2>1 DEF WellFormed
  <2>3. r[i] = s[i] /\ r[i + 1].re = s[i + 1].re
    BY <1>5, <2>1
  <2> QED BY <2>2, <2>3 DEF MayFollow
<1>8. ASSUME NEW i \in 1..Len(r)
      PROVE  \E j \in 1..Len(s) : r[i] = s[j] \/ r[i] \in Torn(s[j])
  <2>1. i \in 1..n /\ i \in 1..Len(s)
    BY <1>1, <1>4
  <2>2. r[i] = s[i] \/ r[i] \in Torn(s[i])
    BY <1>4, <1>5, <2>1
  <2> QED BY <2>1, <2>2
<1>9. WellFormed(r)
  BY <1>6, <1>7 DEF WellFormed
<1> QED BY <1>4, <1>8, <1>9 DEF r, q

Goodbye == LineOf("BYE", FALSE, "nothing")

\* A server that hangs up says so at any point before it has.
LEMMA GoodbyeWellFormed ==
    ASSUME NEW s \in Seq(Line), WellFormed(s), \A i \in 1..Len(s) : s[i].re # "nothing"
    PROVE  /\ Append(s, Goodbye) \in Seq(Line) /\ WellFormed(Append(s, Goodbye))
           /\ \A i \in 1..Len(Append(s, Goodbye)) :
                 \/ Append(s, Goodbye)[i] = Goodbye
                 \/ i \in 1..Len(s) /\ Append(s, Goodbye)[i] = s[i]
<1> DEFINE r == Append(s, Goodbye)
<1>1. Goodbye \in Line /\ Goodbye.re = "nothing"
  BY DEF Goodbye, LineOf, Line
<1>2. /\ r \in Seq(Line) /\ Len(s) \in Nat /\ Len(r) = Len(s) + 1
      /\ \A i \in 1..Len(s) : r[i] = s[i]
      /\ r[Len(s) + 1] = Goodbye
  BY <1>1, AppendProperties
<1> HIDE DEF r
<1>3. ASSUME NEW i \in 1..Len(r)
      PROVE  (i \in 1..Len(s) /\ r[i] = s[i]) \/ (i = Len(s) + 1 /\ r[i] = Goodbye)
  <2>1. CASE i = Len(s) + 1
    BY <1>2, <2>1
  <2>2. CASE i # Len(s) + 1
    BY <1>2, <2>2
  <2> QED BY <2>1, <2>2
<1>4. r[1].re # "literal"
  <2>1. CASE Len(s) = 0
    BY <1>1, <1>2, <2>1
  <2>2. CASE Len(s) # 0
    BY <1>2, <2>2, EmptySeq DEF WellFormed
  <2> QED BY <2>1, <2>2
<1>5. \A i \in 1..Len(r) : i + 1 \in 1..Len(r) => MayFollow(r[i], r[i + 1])
  <2>1. TAKE i \in 1..Len(r)
  <2>2. HAVE i + 1 \in 1..Len(r)
  <2>3. i \in 1..Len(s) /\ r[i] = s[i] /\ s[i].re # "nothing"
    BY <1>2, <2>2
  <2>4. CASE i + 1 \in 1..Len(s)
    BY <1>2, <2>3, <2>4 DEF WellFormed
  <2>5. CASE i + 1 \notin 1..Len(s)
    <3>1. r[i + 1] = Goodbye
      BY <1>3, <2>2, <2>5
    <3> QED BY <1>1, <2>3, <3>1 DEF MayFollow
  <2> QED BY <2>4, <2>5
<1> QED BY <1>2, <1>3, <1>4, <1>5 DEF WellFormed, r

LEMMA ConcatElements ==
    ASSUME NEW S, NEW s \in Seq(S), NEW t \in Seq(S)
    PROVE  /\ s \o t \in Seq(S) /\ Len(s \o t) = Len(s) + Len(t)
           /\ \A i \in 1..Len(s) : (s \o t)[i] = s[i]
           /\ \A i \in 1..Len(t) : (s \o t)[Len(s) + i] = t[i]
<1>1. Len(s) \in Nat /\ Len(t) \in Nat
  OBVIOUS
<1>2. ASSUME NEW i \in 1..Len(s) PROVE (s \o t)[i] = s[i]
  <2>1. i \in 1..Len(s) + Len(t) /\ i <= Len(s)
    BY <1>1
  <2> QED BY <2>1, ConcatProperties
<1>3. ASSUME NEW i \in 1..Len(t) PROVE (s \o t)[Len(s) + i] = t[i]
  <2>1. Len(s) + i \in 1..Len(s) + Len(t) /\ ~(Len(s) + i <= Len(s)) /\ (Len(s) + i) - Len(s) = i
    BY <1>1
  <2> QED BY <2>1, ConcatProperties
<1> QED BY <1>2, <1>3, ConcatProperties

Answers(q, s, word) ==
    /\ q \in Seq(Line) /\ WellFormed(q)
    /\ \A i \in 1..Len(q) :
          q[i] = Literal \/ (q[i].re = s /\ q[i].word \in {"capability", word})

\* What the server sends in answer to the request `s`.
LEMMA AnswerWellFormed ==
    ASSUME NEW s \in Announced \cup Commands, NEW word \in {"OK", "NO", "BYE"},
           NEW before \in Capabilities(s), NEW end \in Terminators(word, s)
    PROVE  Answers(<<>> \o before \o end, s, word)
<1> DEFINE r == <<>> \o before \o end
           capF == LineOf("capability", FALSE, s)
           capT == LineOf("capability", TRUE, s)
           ansF == LineOf(word, FALSE, s)
           ansT == LineOf(word, TRUE, s)
<1>1. /\ Literal \in Line /\ Literal.re = "literal" /\ ~Literal.marker /\ Literal.word = "OK"
      /\ capF \in Line /\ capF.re = s /\ capF.word = "capability" /\ ~capF.marker
      /\ capT \in Line /\ capT.re = s /\ capT.word = "capability" /\ capT.marker
      /\ ansF \in Line /\ ansF.re = s /\ ansF.word = word /\ ~ansF.marker
      /\ ansT \in Line /\ ansT.re = s /\ ansT.word = word /\ ansT.marker
      /\ s # "literal" /\ s # "nothing" /\ word # "capability"
  BY DEF Literal, LineOf, Line, Announced, Commands
<1>2. \/ before = <<capF>> /\ end = <<ansF>>
      \/ before = <<capT, Literal>> /\ end = <<ansF>>
      \/ before = <<>> /\ end = <<ansF>>
      \/ before = <<>> /\ end = <<ansT, Literal>>
      \/ before = <<>> /\ end = <<ansT>>
  BY DEF Capabilities, Terminators
<1> HIDE DEF capF, capT, ansF, ansT
<1>3. /\ capF \in Line /\ capT \in Line /\ ansF \in Line /\ ansT \in Line
      /\ Literal \in Line
  BY <1>1
<1>4. ASSUME NEW q \in Seq(Line), Len(q) = 1, q[1].re = s, q[1].word = word
      PROVE  Answers(q, s, word)
  BY <1>1, <1>4 DEF WellFormed, Answers
<1>5. ASSUME NEW q \in Seq(Line), Len(q) = 2, q[1].re = s, q[1].word \in {"capability", word},
             q[2] = Literal \/ (q[2].re = s /\ q[2].word = word), MayFollow(q[1], q[2])
      PROVE  Answers(q, s, word)
  <2>1. \A i \in 1..2 : i = 1 \/ i = 2
    OBVIOUS
  <2>2. \A i \in 1..2 : i + 1 \in 1..2 => i = 1 /\ i + 1 = 2
    OBVIOUS
  <2>3. WellFormed(q)
    BY <1>1, <1>5, <2>2 DEF WellFormed
  <2>4. \A i \in 1..Len(q) : q[i] = Literal \/ (q[i].re = s /\ q[i].word \in {"capability", word})
    BY <1>5, <2>1
  <2> QED BY <1>5, <2>3, <2>4 DEF Answers
<1>6. ASSUME NEW q \in Seq(Line), Len(q) = 3, q[1].re = s, q[1].word = "capability", q[2] = Literal,
             q[3].re = s, q[3].word = word, MayFollow(q[1], Literal), MayFollow(Literal, q[3])
      PROVE  Answers(q, s, word)
  <2>1. \A i \in 1..3 : i = 1 \/ i = 2 \/ i = 3
    OBVIOUS
  <2>2. \A i \in 1..3 : i + 1 \in 1..3 => (i = 1 /\ i + 1 = 2) \/ (i = 2 /\ i + 1 = 3)
    OBVIOUS
  <2>3. WellFormed(q)
    BY <1>1, <1>6, <2>2 DEF WellFormed
  <2>4. \A i \in 1..Len(q) : q[i] = Literal \/ (q[i].re = s /\ q[i].word \in {"capability", word})
    BY <1>6, <2>1
  <2> QED BY <1>6, <2>3, <2>4 DEF Answers
<1>7. /\ MayFollow(capF, ansF) /\ MayFollow(capT, Literal)
      /\ MayFollow(Literal, ansF) /\ MayFollow(ansT, Literal)
  BY <1>1 DEF MayFollow
<1>8. before \in Seq(Line) /\ end \in Seq(Line)
  <2>1. \A x \in Line : <<x>> \in Seq(Line)
    OBVIOUS
  <2>2. \A x, y \in Line : <<x, y>> \in Seq(Line)
    OBVIOUS
  <2>3. <<>> \in Seq(Line)
    OBVIOUS
  <2> QED BY <1>2, <1>3, <2>1, <2>2, <2>3
<1>9. /\ r \in Seq(Line) /\ Len(r) = Len(before) + Len(end)
      /\ \A i \in 1..Len(before) : r[i] = before[i]
      /\ \A i \in 1..Len(end) : r[Len(before) + i] = end[i]
      /\ 1 <= Len(before) => r[1] = before[1]
      /\ 2 <= Len(before) => r[2] = before[2]
      /\ 1 <= Len(end) => r[Len(before) + 1] = end[1]
      /\ 2 <= Len(end) => r[Len(before) + 2] = end[2]
  <2>1. <<>> \o before = before
    BY <1>8, ConcatEmptySeq
  <2>2. /\ r \in Seq(Line) /\ Len(r) = Len(before) + Len(end)
        /\ \A i \in 1..Len(before) : r[i] = before[i]
        /\ \A i \in 1..Len(end) : r[Len(before) + i] = end[i]
    BY <1>8, <2>1, ConcatElements
  <2>3. /\ Len(before) \in Nat /\ Len(end) \in Nat
        /\ 1 <= Len(before) => 1 \in 1..Len(before)
        /\ 2 <= Len(before) => 2 \in 1..Len(before)
        /\ 1 <= Len(end) => 1 \in 1..Len(end)
        /\ 2 <= Len(end) => 2 \in 1..Len(end)
    BY <1>8
  <2> QED BY <2>2, <2>3
<1> HIDE DEF r
<1>10. ASSUME before = <<capF>> /\ end = <<ansF>>
       PROVE  Answers(r, s, word)
  <2>1. Len(before) = 1 /\ Len(end) = 1 /\ before[1] = capF /\ end[1] = ansF
    BY <1>10
  <2>2. Len(r) = 2 /\ r[1] = capF /\ r[2] = ansF
    BY <1>8, <1>9, <2>1
  <2> QED BY <1>1, <1>5, <1>7, <1>9, <2>2
<1>11. ASSUME before = <<capT, Literal>> /\ end = <<ansF>>
       PROVE  Answers(r, s, word)
  <2>1. /\ Len(before) = 2 /\ Len(end) = 1 /\ before[1] = capT /\ before[2] = Literal
        /\ end[1] = ansF
    BY <1>11
  <2>2. Len(r) = 3 /\ r[1] = capT /\ r[2] = Literal /\ r[3] = ansF
    BY <1>8, <1>9, <2>1
  <2> QED BY <1>1, <1>6, <1>7, <1>9, <2>2
<1>12. ASSUME before = <<>> /\ end = <<ansF>>
       PROVE  Answers(r, s, word)
  <2>1. Len(before) = 0 /\ Len(end) = 1 /\ end[1] = ansF
    BY <1>12
  <2>2. Len(r) = 1 /\ r[1] = ansF
    BY <1>8, <1>9, <2>1
  <2> QED BY <1>1, <1>4, <1>9, <2>2
<1>13. ASSUME before = <<>> /\ end = <<ansT, Literal>>
       PROVE  Answers(r, s, word)
  <2>1. Len(before) = 0 /\ Len(end) = 2 /\ end[1] = ansT /\ end[2] = Literal
    BY <1>13
  <2>2. Len(r) = 2 /\ r[1] = ansT /\ r[2] = Literal
    BY <1>8, <1>9, <2>1
  <2> QED BY <1>1, <1>5, <1>7, <1>9, <2>2
<1>14. ASSUME before = <<>> /\ end = <<ansT>>
       PROVE  Answers(r, s, word)
  <2>1. Len(before) = 0 /\ Len(end) = 1 /\ end[1] = ansT
    BY <1>14
  <2>2. Len(r) = 1 /\ r[1] = ansT
    BY <1>8, <1>9, <2>1
  <2> QED BY <1>1, <1>4, <1>9, <2>2
<1>15. Answers(r, s, word)
  BY <1>2, <1>10, <1>11, <1>12, <1>13, <1>14
<1> QED BY <1>15 DEF r

--------------------------------------------------------------------------------
(* What a step leaves alone. *)

\* A step in which a call takes no part.
Same(q) ==
    /\ stage'[q] = stage[q] /\ written'[q] = written[q] /\ link'[q] = link[q]
    /\ inbound'[q] = inbound[q] /\ request'[q] = request[q] /\ push'[q] = push[q]
    /\ returned'[q] = returned[q] /\ done'[q] = done[q] /\ heard'[q] = heard[q]

LEMMA SameKeeps ==
    ASSUME NEW q \in Callers, CallInv(q), Same(q)
    PROVE  CallInv(q)'
<1>1. Stream(q)'
  BY DEF CallInv, Same, Stream, LineFits, Speaking
<1>2. Progress(q)'
  BY DEF CallInv, Same, Progress, Before, Reading
<1>3. Reported(q)'
  BY DEF CallInv, Same, Reported
<1> QED BY <1>1, <1>2, <1>3 DEF CallInv

LEMMA FiltersKept ==
    ASSUME NEW q \in Callers, Undisturbed(q), push'[q] = push[q],
           scripts' = scripts, active' = active, done'[q] = done[q], quiet'[q] = quiet[q]
    PROVE  Undisturbed(q)'
BY DEF Undisturbed

\* What the server may still do for a call whose connection is lost.
Effect(p) == UNCHANGED filters \/ (request[p] # "none" /\ Obey(p, request[p]))

FiltersTyped ==
    /\ scripts \in [ScriptNames -> Scripts \cup {NoScript}]
    /\ active \in ScriptNames \cup {NoName}
    /\ done \in [Callers -> SUBSET (Announced \cup Commands)]
    /\ quiet \in [Callers -> BOOLEAN]

\* The server obeys the request it has: nobody else's filters are quiet then.
LEMMA EffectKeeps ==
    ASSUME SieveInv, NEW p \in Callers, Effect(p), UNCHANGED push
    PROVE  /\ FiltersTyped'
           /\ \A q \in Callers : q # p => done'[q] = done[q]
           /\ done'[p] = done[p] \/ (request[p] # "none" /\ done'[p] = done[p] \cup {request[p]})
           /\ \A q \in Callers : Undisturbed(q)'
<1>1. SieveTyped /\ CallInv(p) /\ \A q \in Callers : Undisturbed(q)
  BY DEF SieveInv
<1>2. FiltersTyped
  BY <1>1 DEF SieveTyped, SieveTypeOK, FiltersTyped
<1>3. CASE UNCHANGED filters
  <2>1. FiltersTyped'
    BY <1>2, <1>3 DEF FiltersTyped, filters
  <2>2. ASSUME NEW q \in Callers PROVE Undisturbed(q)'
    BY <1>1, <1>3, FiltersKept DEF filters
  <2> QED BY <1>3, <2>1, <2>2 DEF filters
<1>4. CASE request[p] # "none" /\ Obey(p, request[p])
  <2>1. PICK s : s = request[p]
    OBVIOUS
  <2>2. /\ Obey(p, s) /\ s # "none" /\ s \in Announced \cup Commands
        /\ s = stage[p] /\ push[p] \in Push /\ done[p] \subseteq Before(s)
    BY <1>1, <1>4, <2>1
       DEF SieveTyped, SieveTypeOK, CallInv, Stream, Progress, Speaking, Announced, Commands
  <2>3. push[p].name \in ScriptNames /\ push[p].script \in Scripts
    BY <2>2 DEF Push
  <2>4. done' = [done EXCEPT ![p] = @ \cup {s}]
    BY <2>2 DEF Obey
  <2>5. CASE s \in {"putscript", "setactive"}
    <3>1. \A q \in Callers : q # p => quiet'[q] = FALSE
      BY <2>2, <2>5 DEF Obey, Disturb
    <3>2. quiet' \in [Callers -> BOOLEAN]
      BY <1>2, <2>2, <2>5 DEF Obey, Disturb, FiltersTyped
    <3>3. FiltersTyped'
      <4>1. scripts' \in [ScriptNames -> Scripts \cup {NoScript}]
        BY <1>2, <2>2, <2>3 DEF Obey, FiltersTyped
      <4>2. active' \in ScriptNames \cup {NoName}
        BY <1>2, <2>2, <2>3 DEF Obey, FiltersTyped
      <4>3. done' \in [Callers -> SUBSET (Announced \cup Commands)]
        BY <1>2, <2>2, <2>4 DEF FiltersTyped
      <4> QED BY <3>2, <4>1, <4>2, <4>3 DEF FiltersTyped
    <3>4. Undisturbed(p)'
      <4>1. CASE s = "putscript"
        <5>1. scripts'[push[p].name] = push[p].script
          BY <1>2, <2>2, <2>3, <4>1 DEF Obey, FiltersTyped
        <5>2. "setactive" \notin done'[p]
          BY <1>2, <2>2, <2>4, <4>1 DEF Before, FiltersTyped
        <5> QED BY <5>1, <5>2 DEF Undisturbed
      <4>2. CASE s = "setactive"
        <5>1. active' = push[p].name /\ scripts' = scripts
          BY <2>2, <4>2 DEF Obey
        <5>2. quiet'[p] => quiet[p]
          BY <2>2, <2>5 DEF Obey, Disturb
        <5>3. "putscript" \in done'[p] => "putscript" \in done[p]
          BY <1>2, <2>4, <4>2 DEF FiltersTyped
        <5> QED BY <1>1, <5>1, <5>2, <5>3 DEF Undisturbed
      <4> QED BY <2>5, <4>1, <4>2
    <3>5. \A q \in Callers : Undisturbed(q)'
      BY <3>1, <3>4 DEF Undisturbed
    <3> QED BY <1>2, <2>1, <2>2, <2>4, <3>3, <3>5 DEF FiltersTyped
  <2>6. CASE s \notin {"putscript", "setactive"}
    <3>1. scripts' = scripts /\ active' = active /\ quiet' = quiet
      BY <2>2, <2>6 DEF Obey
    <3>2. FiltersTyped'
      BY <1>2, <2>2, <2>4, <3>1 DEF FiltersTyped
    <3>3. \A q \in Callers : /\ "putscript" \in done'[q] => "putscript" \in done[q]
                             /\ "setactive" \in done'[q] => "setactive" \in done[q]
      BY <1>2, <2>4, <2>6 DEF FiltersTyped
    <3>4. ASSUME NEW q \in Callers PROVE Undisturbed(q)'
      <4>1. push'[q] = push[q] /\ quiet'[q] = quiet[q] /\ Undisturbed(q)
        BY <1>1, <3>1
      <4> QED BY <3>1, <3>3, <4>1 DEF Undisturbed
    <3> QED BY <1>2, <2>1, <2>2, <2>4, <3>2, <3>4 DEF FiltersTyped
  <2> QED BY <2>5, <2>6
<1> QED BY <1>3, <1>4 DEF Effect

LEMMA StepOfOne ==
    ASSUME SieveInv, NEW p \in Callers, SieveTyped', CallInv(p)',
           \A q \in Callers : q # p => Same(q), \A q \in Callers : Undisturbed(q)'
    PROVE  SieveInv'
<1>1. ASSUME NEW q \in Callers, q # p PROVE CallInv(q)'
  BY <1>1, SameKeeps DEF SieveInv
<1> QED BY <1>1 DEF SieveInv

\* With the filters and the arguments untouched there is no more to show.
LEMMA StepOfClient ==
    ASSUME SieveInv, NEW p \in Callers, SieveTyped', CallInv(p)', UNCHANGED <<push, filters>>,
           \A q \in Callers : q # p => Same(q)
    PROVE  SieveInv'
<1>1. ASSUME NEW q \in Callers PROVE Undisturbed(q)'
  BY FiltersKept DEF SieveInv, filters
<1> QED BY <1>1, StepOfOne

--------------------------------------------------------------------------------
(* The steps of the client. *)

\* Whatever a call returns, its connection is gone; the server may still do
\* what it was asked.
LEMMA ReturnKeeps ==
    ASSUME SieveInv, NEW p \in Callers, NEW result \in Results, Return(p, result),
           UNCHANGED push, Effect(p), heard' \in [Callers -> Heard],
           \A q \in Callers : q # p => heard'[q] = heard[q], Reported(p)'
    PROVE  SieveInv'
<1>1. SieveTyped /\ SieveTypeOK
  BY DEF SieveInv, SieveTyped
<1>2. /\ FiltersTyped'
      /\ \A q \in Callers : q # p => done'[q] = done[q]
      /\ \A q \in Callers : Undisturbed(q)'
  BY EffectKeeps
<1>3. SieveTyped'
  <2>1. stage' \in [Callers -> Stages] /\ written' \in [Callers -> BOOLEAN]
    BY <1>1 DEF SieveTypeOK, Return, Stages
  <2>2. link' \in [Callers -> {"none", "open", "closed"}] /\ inbound' \in [Callers -> Seq(Line)]
    BY <1>1 DEF SieveTypeOK, Return
  <2>3. /\ request' \in [Callers -> Announced \cup Commands \cup {"none"}]
        /\ returned' \in [Callers -> Results]
        /\ push' \in [Callers -> Push \cup {NoPush}]
    BY <1>1 DEF SieveTypeOK, Return
  <2> QED BY <1>2, <2>1, <2>2, <2>3 DEF SieveTypeOK, SieveTyped, FiltersTyped
<1>4. /\ stage'[p] = "idle" /\ link'[p] = "none" /\ inbound'[p] = <<>> /\ request'[p] = "none"
  BY <1>1 DEF SieveTypeOK, Return
<1>5. Stream(p)'
  <2>1. \A i \in 1..Len(<<>>) : FALSE
    OBVIOUS
  <2> QED BY <1>4, <2>1 DEF Stream, WellFormed
<1>6. Progress(p)'
  BY <1>4 DEF Progress
<1>7. ASSUME NEW q \in Callers, q # p PROVE Same(q)
  BY <1>1, <1>2, <1>7 DEF SieveTypeOK, Return, Same
<1> QED BY <1>2, <1>3, <1>5, <1>6, <1>7, StepOfOne DEF CallInv

\* The call fails before an answer is read, or is killed.
LEMMA FailureKeeps ==
    ASSUME SieveInv, NEW p \in Callers, stage[p] # "idle", NEW result \in {"none", "transport"},
           Return(p, result), UNCHANGED <<push, heard>>, Effect(p)
    PROVE  SieveInv'
<1>1. SieveTyped /\ SieveTypeOK /\ Reported(p)
  BY DEF SieveInv, SieveTyped, CallInv
<1>2. returned'[p] = result /\ result \in Results
  BY <1>1 DEF SieveTypeOK, Return, Results
<1>3. stage'[p] = "idle"
  BY <1>1 DEF SieveTypeOK, Return
<1>4. Reported(p)'
  BY <1>1, <1>2, <1>3 DEF Reported
<1>5. heard' \in [Callers -> Heard]
  BY <1>1 DEF SieveTyped
<1> QED BY <1>2, <1>4, <1>5, ReturnKeeps

LEMMA ListenKeeps ==
    ASSUME SieveInv, NEW p \in Callers, NEW s \in Announced, Listen(p, s),
           done[p] \subseteq Before(s), stage[p] # "idle", UNCHANGED <<push, filters, heard>>
    PROVE  SieveInv'
<1>1. SieveTyped /\ SieveTypeOK /\ CallInv(p)
  BY DEF SieveInv, SieveTyped
<1>2. /\ stage' \in [Callers -> Stages] /\ written' \in [Callers -> BOOLEAN]
      /\ link' \in [Callers -> {"none", "open", "closed"}] /\ inbound' \in [Callers -> Seq(Line)]
      /\ request' \in [Callers -> Announced \cup Commands \cup {"none"}]
  BY <1>1 DEF SieveTypeOK, Listen, Stages
<1>3. SieveTyped'
  BY <1>1, <1>2 DEF SieveTypeOK, SieveTyped, Listen, filters
<1>4. /\ stage'[p] = s /\ link'[p] = "open" /\ inbound'[p] = <<>> /\ request'[p] = s
      /\ written'[p] = TRUE /\ done'[p] = done[p] /\ push'[p] = push[p]
      /\ returned'[p] = returned[p] /\ heard'[p] = heard[p]
      /\ s \in {"greeting", "capabilities"}
  BY <1>1 DEF SieveTypeOK, Listen, filters, Announced
<1>5. Stream(p)'
  <2>1. \A i \in 1..Len(<<>>) : FALSE
    OBVIOUS
  <2> QED BY <1>4, <2>1 DEF Stream, WellFormed, Speaking
<1>6. Progress(p)'
  BY <1>1, <1>4 DEF Progress, CallInv
<1>7. Reported(p)'
  BY <1>1, <1>4 DEF Reported, CallInv
<1>8. ASSUME NEW q \in Callers, q # p PROVE Same(q)
  BY <1>1, <1>8 DEF SieveTypeOK, Listen, Same, filters
<1> QED BY <1>3, <1>5, <1>6, <1>7, <1>8, StepOfClient DEF CallInv

LEMMA ConnectKeeps == ASSUME SieveInv, NEW p \in Callers, Connect(p) PROVE SieveInv'
<1>1. stage[p] = "connect" /\ UNCHANGED <<push, filters, heard>> /\ Progress(p)
  BY DEF Connect, SieveInv, CallInv
<1>2. CASE Listen(p, "greeting")
  <2>1. done[p] \subseteq Before("greeting")
    BY <1>1 DEF Progress, Before, Reading, Announced, Commands
  <2> QED BY <1>1, <1>2, <2>1, ListenKeeps DEF Announced
<1>3. CASE Return(p, "transport")
  BY <1>1, <1>3, FailureKeeps DEF Effect
<1> QED BY <1>2, <1>3 DEF Connect

LEMMA HandshakeKeeps == ASSUME SieveInv, NEW p \in Callers, Handshake(p) PROVE SieveInv'
<1>1. stage[p] = "handshake" /\ UNCHANGED <<push, filters, heard>> /\ Progress(p)
  BY DEF Handshake, SieveInv, CallInv
<1>2. CASE Listen(p, "capabilities")
  <2>1. done[p] \subseteq Before("capabilities")
    BY <1>1 DEF Progress, Before, Reading, Announced, Commands
  <2> QED BY <1>1, <1>2, <2>1, ListenKeeps DEF Announced
<1>3. CASE Return(p, "transport")
  BY <1>1, <1>3, FailureKeeps DEF Effect
<1> QED BY <1>2, <1>3 DEF Handshake

\* While the connection is up nothing is in the stream that no command is
\* out for.
LEMMA NothingUnasked ==
    ASSUME NEW p \in Callers, inbound[p] \in Seq(Line), Stream(p), ~written[p], link[p] = "open"
    PROVE  inbound[p] = <<>>
<1>1. SUFFICES ASSUME inbound[p] # <<>> PROVE FALSE
  OBVIOUS
<1>2. 1 \in 1..Len(inbound[p])
  BY <1>1, EmptySeq
<1>3. LineFits(p, inbound[p][1]) /\ inbound[p][1].re # "literal"
  BY <1>1, <1>2 DEF Stream, WellFormed
<1> QED BY <1>3 DEF LineFits, Literal, LineOf

LEMMA WriteKeeps == ASSUME SieveInv, NEW p \in Callers, Write(p) PROVE SieveInv'
<1>1. /\ SieveTyped /\ SieveTypeOK /\ CallInv(p) /\ inbound[p] \in Seq(Line)
      /\ stage[p] \in Commands /\ ~written[p] /\ UNCHANGED <<push, filters, heard>>
  BY DEF Write, SieveInv, SieveTyped, SieveTypeOK
<1>2. CASE link[p] = "closed" /\ Return(p, "transport")
  BY <1>1, <1>2, FailureKeeps DEF Effect, Commands
<1>3. ASSUME /\ written' = [written EXCEPT ![p] = TRUE]
             /\ request' = IF link[p] = "open" THEN [request EXCEPT ![p] = stage[p]] ELSE request
             /\ UNCHANGED <<stage, link, inbound, returned>>
      PROVE  SieveInv'
  <2>1. written'[p] = TRUE /\ written' \in [Callers -> BOOLEAN]
    BY <1>1, <1>3 DEF SieveTypeOK
  <2>2. request' \in [Callers -> Announced \cup Commands \cup {"none"}]
    BY <1>1, <1>3 DEF SieveTypeOK
  <2>3. SieveTyped'
    BY <1>1, <1>3, <2>1, <2>2 DEF SieveTypeOK, SieveTyped, filters
  <2>4. request[p] = "none"
    BY <1>1 DEF CallInv, Stream
  <2>5. link[p] = "open" => request'[p] = stage[p] /\ inbound[p] = <<>>
    BY <1>1, <1>3, NothingUnasked DEF SieveTypeOK, CallInv
  <2>6. link[p] # "open" => request'[p] = "none"
    BY <1>3, <2>4
  <2>7. ASSUME NEW line, LineFits(p, line) PROVE LineFits(p, line)'
    BY <1>1, <1>3, <2>1, <2>7 DEF LineFits, filters
  <2>8. Stream(p)'
    <3>1. \A i \in 1..Len(inbound[p]) : LineFits(p, inbound[p][i])'
      BY <1>1, <1>3, <2>7 DEF CallInv, Stream
    <3>2. stage[p] \notin {"idle", "connect"} /\ stage[p] \in Speaking
      BY <1>1 DEF Commands, Speaking
    <3> QED BY <1>1, <1>3, <2>1, <2>5, <2>6, <3>1, <3>2 DEF CallInv, Stream
  <2>9. Progress(p)'
    <3>1. done'[p] = done[p] /\ stage'[p] = stage[p] /\ push'[p] = push[p] /\ ~Reading(p)
      BY <1>1, <1>3 DEF filters, Reading
    <3> QED BY <1>1, <3>1 DEF CallInv, Progress
  <2>10. Reported(p)'
    BY <1>1, <1>3 DEF CallInv, Reported, filters
  <2>11. ASSUME NEW q \in Callers, q # p PROVE Same(q)
    BY <1>1, <1>3, <2>11 DEF SieveTypeOK, Same, filters
  <2> QED BY <1>1, <2>3, <2>8, <2>9, <2>10, <2>11, StepOfClient DEF CallInv
<1> QED BY <1>2, <1>3 DEF Write

\* What is left of the stream once something of it was read.
LEMMA RestKeeps ==
    ASSUME SieveInv, NEW p \in Callers, Reading(p), inbound[p] # <<>>,
           NEW rest \in Seq(Line), WellFormed(rest),
           \A i \in 1..Len(rest) : \E j \in 1..Len(inbound[p]) : rest[i] = inbound[p][j],
           inbound' = [inbound EXCEPT ![p] = rest],
           UNCHANGED <<stage, written, link, request, returned, push, filters, heard>>
    PROVE  SieveInv'
<1>1. SieveTyped /\ SieveTypeOK /\ CallInv(p)
  BY DEF SieveInv, SieveTyped
<1>2. inbound' \in [Callers -> Seq(Line)] /\ inbound'[p] = rest
  BY <1>1 DEF SieveTypeOK
<1>3. SieveTyped'
  BY <1>1, <1>2 DEF SieveTypeOK, SieveTyped, filters
<1>4. ASSUME NEW line, LineFits(p, line) PROVE LineFits(p, line)'
  BY <1>4 DEF LineFits, filters
<1>5. \A i \in 1..Len(rest) : LineFits(p, rest[i])'
  BY <1>1, <1>4 DEF CallInv, Stream
<1>6. request[p] = "none" /\ stage[p] \notin {"idle", "connect"}
  BY <1>1 DEF CallInv, Stream
<1>7. Stream(p)'
  BY <1>2, <1>5, <1>6 DEF Stream
<1>8. Progress(p)'
  BY <1>1 DEF CallInv, Progress, Reading, filters
<1>9. Reported(p)'
  BY <1>1 DEF CallInv, Reported, filters
<1>10. ASSUME NEW q \in Callers, q # p PROVE Same(q)
  BY <1>1, <1>10 DEF SieveTypeOK, Same, filters
<1> QED BY <1>3, <1>7, <1>8, <1>9, <1>10, StepOfClient DEF CallInv

LEMMA SkipCapabilityKeeps ==
    ASSUME SieveInv, NEW p \in Callers, SkipCapability(p)
    PROVE  SieveInv'
<1>1. /\ inbound[p] \in Seq(Line) /\ WellFormed(inbound[p])
      /\ Reading(p) /\ inbound[p] # <<>> /\ ~inbound[p][1].marker
  BY DEF SkipCapability, SieveInv, SieveTyped, SieveTypeOK, CallInv, Stream
<1>2. /\ Tail(inbound[p]) \in Seq(Line) /\ WellFormed(Tail(inbound[p]))
      /\ \A i \in 1..Len(Tail(inbound[p])) :
            \E j \in 1..Len(inbound[p]) : Tail(inbound[p])[i] = inbound[p][j]
  BY <1>1, TailWellFormed
<1>3. PICK rest : rest = Tail(inbound[p])
  OBVIOUS
<1> QED BY <1>1, <1>2, <1>3, RestKeeps DEF SkipCapability

LEMMA DrainLiteralKeeps ==
    ASSUME SieveInv, NEW p \in Callers, DrainLiteral(p)
    PROVE  SieveInv'
<1>1. /\ inbound[p] \in Seq(Line) /\ WellFormed(inbound[p])
      /\ Reading(p) /\ inbound[p] # <<>> /\ inbound[p][1].marker
      /\ UNCHANGED <<push, filters, heard>>
  BY DEF DrainLiteral, SieveInv, SieveTyped, SieveTypeOK, CallInv, Stream
<1>2. CASE Return(p, "transport")
  BY <1>1, <1>2, FailureKeeps DEF Effect, Reading, Announced, Commands
<1>3. CASE /\ Len(inbound[p]) > 1
           /\ inbound' = [inbound EXCEPT ![p] = Tail(Tail(@))]
           /\ UNCHANGED <<stage, written, link, request, returned>>
  <2>1. PICK rest : rest = Tail(Tail(inbound[p]))
    OBVIOUS
  <2>2. /\ rest \in Seq(Line) /\ WellFormed(rest)
        /\ \A i \in 1..Len(rest) : \E j \in 1..Len(inbound[p]) : rest[i] = inbound[p][j]
    BY <1>1, <1>3, <2>1, DrainWellFormed
  <2> QED BY <1>1, <1>3, <2>1, <2>2, RestKeeps
<1> QED BY <1>2, <1>3 DEF DrainLiteral

LEMMA ReachEndKeeps == ASSUME SieveInv, NEW p \in Callers, ReachEnd(p) PROVE SieveInv'
BY FailureKeeps DEF ReachEnd, Effect, Reading, Announced, Commands

\* What read_response returned in a step.
HeardNow(p, word) ==
    [at |-> stage[p], re |-> inbound[p][1].re, word |-> word]

\* The terminator that is read is the server's answer to this very stage, or
\* its goodbye.
LEMMA HearIsAnswer ==
    ASSUME SieveInv, NEW p \in Callers, NEW word \in {"OK", "NO", "BYE"}, Hear(p, word)
    PROVE  /\ heard' \in [Callers -> Heard] /\ heard'[p] = HeardNow(p, word)
           /\ \A q \in Callers : q # p => heard'[q] = heard[q]
           /\ stage[p] \in Speaking /\ written[p] /\ request[p] = "none"
           /\ \/ inbound[p][1].re = stage[p]
              \/ word = "BYE" /\ inbound[p][1].re = "nothing"
           /\ word = "OK" => stage[p] \in done[p]
           /\ word = "NO" => stage[p] \notin done[p]
<1>1. /\ SieveTyped /\ SieveTypeOK /\ CallInv(p) /\ inbound[p] \in Seq(Line)
      /\ stage[p] \in Speaking /\ written[p] /\ inbound[p] # <<>> /\ ~inbound[p][1].marker
      /\ inbound[p][1].word = word
  BY DEF Hear, Reading, Speaking, SieveInv, SieveTyped, SieveTypeOK
<1>2. 1 \in 1..Len(inbound[p])
  BY <1>1, EmptySeq
<1>3. inbound[p][1] \in Line /\ LineFits(p, inbound[p][1]) /\ inbound[p][1].re # "literal"
  BY <1>1, <1>2 DEF CallInv, Stream, WellFormed
<1>4. \/ /\ inbound[p][1].re = stage[p]
         /\ word = "OK" => stage[p] \in done[p]
         /\ word = "NO" => stage[p] \notin done[p]
      \/ word = "BYE" /\ inbound[p][1].re = "nothing"
  BY <1>1, <1>3 DEF LineFits, Literal, LineOf
<1>5. stage[p] \in Stages /\ HeardNow(p, word) \in Heard
  BY <1>1, <1>3 DEF SieveTypeOK, HeardNow, Heard, Line
<1>6. heard' = [heard EXCEPT ![p] = HeardNow(p, word)]
  BY DEF Hear, HeardNow
<1>7. /\ heard' \in [Callers -> Heard] /\ heard'[p] = HeardNow(p, word)
      /\ \A q \in Callers : q # p => heard'[q] = heard[q]
  BY <1>1, <1>5, <1>6 DEF SieveTyped
<1>8. request[p] = "none"
  BY <1>1 DEF CallInv, Stream
<1> QED BY <1>1, <1>4, <1>7, <1>8

LEMMA ProceedKeeps ==
    ASSUME SieveInv, NEW p \in Callers, Hear(p, "OK"), stage[p] # "setactive", Proceed(p)
    PROVE  SieveInv'
<1>1. /\ SieveTyped /\ SieveTypeOK /\ CallInv(p) /\ inbound[p] \in Seq(Line)
      /\ inbound[p] # <<>> /\ ~inbound[p][1].marker /\ inbound[p][1].word = "OK"
      /\ UNCHANGED <<push, filters>> /\ UNCHANGED <<link, request, returned>>
  BY DEF Hear, Proceed, SieveInv, SieveTyped, SieveTypeOK
<1>2. /\ heard' \in [Callers -> Heard] /\ heard'[p] = HeardNow(p, "OK")
      /\ \A q \in Callers : q # p => heard'[q] = heard[q]
      /\ stage[p] \in Speaking /\ written[p] /\ request[p] = "none"
      /\ inbound[p][1].re = stage[p] /\ stage[p] \in done[p]
  BY HearIsAnswer
<1>3. PICK s : s = stage[p]
  OBVIOUS
<1>4. s \in {"greeting", "starttls", "capabilities", "authenticate", "putscript"}
  BY <1>2, <1>3 DEF Speaking, Announced, Commands
<1>5. /\ After(s) \in {"starttls", "handshake", "authenticate", "putscript", "setactive"}
      /\ Before(s) \cup {s} = Before(After(s))
      /\ After(s) = "putscript" => s = "authenticate"
      /\ After(s) = "setactive" => s = "putscript"
  BY <1>4 DEF After, Before
<1>6. /\ stage'[p] = After(s) /\ written'[p] = FALSE /\ inbound'[p] = Tail(inbound[p])
      /\ done'[p] = done[p] /\ push'[p] = push[p] /\ returned'[p] = returned[p]
      /\ link'[p] = link[p] /\ request'[p] = "none"
  BY <1>1, <1>2, <1>3 DEF Proceed, SieveTypeOK, filters
<1>7. PICK rest : rest = Tail(inbound[p])
  OBVIOUS
<1>8. /\ rest \in Seq(Line) /\ WellFormed(rest)
      /\ \A i \in 1..Len(rest) : \E j \in 1..Len(inbound[p]) : rest[i] = inbound[p][j]
      /\ rest = <<>> \/ rest[1].re = "nothing"
  BY <1>1, <1>7, TailWellFormed DEF CallInv, Stream
<1>9. SieveTyped'
  <2>1. stage' \in [Callers -> Stages]
    BY <1>1, <1>3, <1>5 DEF SieveTypeOK, Proceed, Stages, Commands
  <2>2. written' \in [Callers -> BOOLEAN] /\ inbound' \in [Callers -> Seq(Line)]
    BY <1>1, <1>7, <1>8 DEF SieveTypeOK, Proceed
  <2> QED BY <1>1, <1>2, <2>1, <2>2 DEF SieveTypeOK, SieveTyped, filters
<1>10. \A i \in 1..Len(rest) : rest[i] = Goodbye /\ link[p] = "closed"
  <2>1. TAKE i \in 1..Len(rest)
  <2>2. rest # <<>> /\ Len(rest) \in Nat
    BY <1>8, EmptySeq
  <2>3. i = 1
    <3>1. SUFFICES ASSUME i # 1 PROVE FALSE
      OBVIOUS
    <3>2. 1 \in 1..Len(rest) /\ 1 + 1 \in 1..Len(rest)
      BY <2>2, <3>1
    <3>3. MayFollow(rest[1], rest[1 + 1])
      BY <1>8, <3>2 DEF WellFormed
    <3> QED BY <1>8, <2>2, <3>3 DEF MayFollow
  <2>4. PICK j \in 1..Len(inbound[p]) : rest[i] = inbound[p][j]
    BY <1>8
  <2>5. LineFits(p, rest[i]) /\ rest[i].re = "nothing"
    BY <1>1, <1>8, <2>2, <2>3, <2>4 DEF CallInv, Stream
  <2> QED BY <2>5 DEF LineFits, Goodbye, Literal, LineOf, Speaking, Announced, Commands
<1>11. Stream(p)'
  <2>1. \A i \in 1..Len(rest) : LineFits(p, rest[i])'
    BY <1>6, <1>10 DEF LineFits, Goodbye
  <2>2. stage'[p] \notin {"idle", "connect"}
    BY <1>5, <1>6
  <2> QED BY <1>6, <1>7, <1>8, <2>1, <2>2 DEF Stream
<1>12. Progress(p)'
  <2>1. /\ done[p] \subseteq Before(s) \cup {s} /\ push[p] \in Push
        /\ s = "putscript" => "authenticate" \in done[p]
    BY <1>1, <1>3, <1>4 DEF CallInv, Progress
  <2>2. done'[p] \subseteq Before(After(s))
    BY <1>5, <1>6, <2>1
  <2> QED BY <1>2, <1>3, <1>5, <1>6, <2>1, <2>2 DEF Progress
<1>13. Reported(p)'
  <2>1. returned'[p] = "none"
    BY <1>1, <1>3, <1>4, <1>6 DEF CallInv, Reported
  <2>2. /\ heard'[p].word = "OK" /\ heard'[p].re = heard'[p].at
    BY <1>2 DEF HeardNow
  <2> QED BY <2>1, <2>2 DEF Reported
<1>14. ASSUME NEW q \in Callers, q # p PROVE Same(q)
  BY <1>1, <1>2, <1>14 DEF SieveTypeOK, Proceed, Same, filters
<1> QED BY <1>1, <1>9, <1>11, <1>12, <1>13, <1>14, StepOfClient DEF CallInv

LEMMA HearOkKeeps == ASSUME SieveInv, NEW p \in Callers, HearOk(p) PROVE SieveInv'
<1>1. Hear(p, "OK") /\ UNCHANGED <<push, filters>>
  BY DEF HearOk, Hear
<1>2. CASE stage[p] # "setactive"
  BY <1>1, <1>2, ProceedKeeps DEF HearOk
<1>3. CASE stage[p] = "setactive"
  <2>1. Return(p, "ok")
    BY <1>3 DEF HearOk
  <2>2. /\ SieveTypeOK /\ CallInv(p)
    BY DEF SieveInv, SieveTyped
  <2>3. /\ heard' \in [Callers -> Heard] /\ heard'[p] = HeardNow(p, "OK")
        /\ \A q \in Callers : q # p => heard'[q] = heard[q]
        /\ inbound[p][1].re = stage[p] /\ stage[p] \in done[p]
    BY <1>1, HearIsAnswer
  <2>4. stage'[p] = "idle" /\ returned'[p] = "ok" /\ done'[p] = done[p]
    BY <1>1, <2>1, <2>2 DEF SieveTypeOK, Return, filters
  <2>5. {"authenticate", "putscript", "setactive"} \subseteq done[p]
    BY <1>3, <2>2, <2>3 DEF CallInv, Progress
  <2>6. heard'[p].word = "OK" /\ heard'[p].re = heard'[p].at
    BY <2>3 DEF HeardNow
  <2>7. Reported(p)'
    BY <2>4, <2>5, <2>6 DEF Reported
  <2> QED BY <1>1, <2>1, <2>3, <2>7, ReturnKeeps DEF Results, Effect
<1> QED BY <1>2, <1>3

\* The call ends with an error that the server gave.
LEMMA RefusalKeeps ==
    ASSUME SieveInv, NEW p \in Callers, NEW word \in {"NO", "BYE"}, Hear(p, word),
           NEW result \in {"auth", "protocol", "transport"}, Return(p, result)
    PROVE  SieveInv'
<1>1. SieveTypeOK /\ CallInv(p) /\ UNCHANGED <<push, filters>>
  BY DEF SieveInv, SieveTyped, Hear
<1>2. /\ heard' \in [Callers -> Heard] /\ heard'[p] = HeardNow(p, word)
      /\ \A q \in Callers : q # p => heard'[q] = heard[q]
      /\ stage[p] \in Speaking
      /\ inbound[p][1].re = stage[p] \/ (word = "BYE" /\ inbound[p][1].re = "nothing")
      /\ word = "NO" => stage[p] \notin done[p]
  BY HearIsAnswer
<1>3. stage'[p] = "idle" /\ returned'[p] = result /\ done'[p] = done[p]
  BY <1>1 DEF SieveTypeOK, Return, filters
<1>4. stage[p] \notin done[p] => "setactive" \notin done[p]
  BY <1>1, <1>2 DEF CallInv, Progress, Before, Speaking, Announced, Commands
<1>5. /\ heard'[p].word = word /\ heard'[p].at = stage[p]
      /\ heard'[p].re = stage[p] \/ (word = "BYE" /\ heard'[p].re = "nothing")
  BY <1>2 DEF HeardNow
<1>6. Reported(p)'
  BY <1>2, <1>3, <1>4, <1>5 DEF Reported
<1> QED BY <1>1, <1>2, <1>6, ReturnKeeps DEF Results, Effect

LEMMA HearNoKeeps == ASSUME SieveInv, NEW p \in Callers, HearNo(p) PROVE SieveInv'
BY RefusalKeeps DEF HearNo

LEMMA HearByeKeeps == ASSUME SieveInv, NEW p \in Callers, HearBye(p) PROVE SieveInv'
BY RefusalKeeps DEF HearBye

LEMMA PutActiveScriptKeeps ==
    ASSUME SieveInv, NEW p \in Callers, PutActiveScript(p)
    PROVE  SieveInv'
BY ConnectKeeps, HandshakeKeeps, WriteKeeps, DrainLiteralKeeps, SkipCapabilityKeeps,
   ReachEndKeeps, HearOkKeeps, HearNoKeeps, HearByeKeeps DEF PutActiveScript

--------------------------------------------------------------------------------
(* The steps of the server and of other clients. *)

LEMMA AnswerKeeps ==
    ASSUME SieveInv, NEW p \in Callers, NEW word \in {"OK", "NO", "BYE"}, Answer(p, word)
    PROVE  SieveInv'
<1>1. /\ SieveTyped /\ SieveTypeOK /\ CallInv(p)
      /\ request[p] # "none" /\ link[p] = "open"
      /\ UNCHANGED <<stage, written, push, returned, heard>>
  BY DEF Answer, SieveInv, SieveTyped
<1>2. PICK s : s = stage[p]
  OBVIOUS
<1>3. /\ s \in Announced \cup Commands /\ written[p] /\ request[p] = s /\ inbound[p] = <<>>
      /\ done[p] \subseteq Before(s) /\ s \notin Before(s) /\ push[p] \in Push
      /\ s \notin {"idle", "connect"}
  BY <1>1, <1>2 DEF CallInv, Stream, Progress, Before, Speaking, Announced, Commands
<1>4. /\ word = "OK" => Obey(p, s)
      /\ word # "OK" => UNCHANGED filters
  BY <1>3 DEF Answer
<1>5. Effect(p)
  BY <1>1, <1>3, <1>4 DEF Effect
<1>6. /\ FiltersTyped'
      /\ \A q \in Callers : q # p => done'[q] = done[q]
      /\ \A q \in Callers : Undisturbed(q)'
  BY <1>1, <1>5, EffectKeeps
<1>7. /\ word = "OK" => done'[p] = done[p] \cup {s}
      /\ word # "OK" => done'[p] = done[p]
  BY <1>1, <1>4 DEF Obey, filters, SieveTypeOK
<1>8. PICK before \in Capabilities(s), end \in Terminators(word, s) :
         inbound' = [inbound EXCEPT ![p] = @ \o before \o end]
  BY <1>3 DEF Answer
<1>9. PICK rest : rest = <<>> \o before \o end
  OBVIOUS
<1>10. Answers(rest, s, word)
  BY <1>3, <1>9, AnswerWellFormed
<1>11. inbound' = [inbound EXCEPT ![p] = rest]
  BY <1>3, <1>8, <1>9
<1>12. request' = [request EXCEPT ![p] = "none"]
  BY DEF Answer
<1>13. link' = IF word = "BYE" THEN [link EXCEPT ![p] = "closed"] ELSE link
  BY DEF Answer
<1>14. SieveTyped'
  <2>1. inbound' \in [Callers -> Seq(Line)]
    BY <1>1, <1>10, <1>11 DEF SieveTypeOK, Answers
  <2>2. /\ request' \in [Callers -> Announced \cup Commands \cup {"none"}]
        /\ link' \in [Callers -> {"none", "open", "closed"}]
    BY <1>1, <1>12, <1>13 DEF SieveTypeOK
  <2> QED BY <1>1, <1>6, <2>1, <2>2 DEF SieveTypeOK, SieveTyped, FiltersTyped
<1>15. /\ stage'[p] = s /\ written'[p] /\ inbound'[p] = rest /\ request'[p] = "none"
       /\ push'[p] = push[p] /\ returned'[p] = returned[p] /\ heard'[p] = heard[p]
  BY <1>1, <1>2, <1>3, <1>11, <1>12 DEF SieveTypeOK
<1>16. Stream(p)'
  <2>1. ASSUME NEW i \in 1..Len(rest) PROVE LineFits(p, rest[i])'
    <3>1. CASE rest[i] = Literal
      BY <3>1 DEF LineFits, Literal, LineOf
    <3>2. CASE rest[i].re = s /\ rest[i].word \in {"capability", word}
      <4>1. /\ rest[i].word = "OK" => s \in done'[p]
            /\ rest[i].word = "NO" => s \notin done'[p]
        BY <1>3, <1>7, <3>2
      <4> QED BY <1>3, <1>15, <3>2, <4>1 DEF LineFits, Speaking
    <3> QED BY <1>10, <3>1, <3>2 DEF Answers
  <2> QED BY <1>3, <1>10, <1>15, <2>1 DEF Stream, Answers
<1>17. Progress(p)'
  <2>1. Reading(p)'
    BY <1>3, <1>15 DEF Reading
  <2>2. done'[p] \subseteq Before(s) \cup {s} /\ done[p] \subseteq done'[p]
    BY <1>3, <1>7
  <2> QED BY <1>1, <1>2, <1>3, <1>15, <2>1, <2>2 DEF CallInv, Progress
<1>18. Reported(p)'
  BY <1>1, <1>2, <1>3, <1>15 DEF CallInv, Reported
<1>19. ASSUME NEW q \in Callers, q # p PROVE Same(q)
  BY <1>1, <1>6, <1>11, <1>12, <1>13, <1>19 DEF SieveTypeOK, Same
<1> QED BY <1>6, <1>14, <1>16, <1>17, <1>18, <1>19, StepOfOne DEF CallInv

\* The server says goodbye, or the connection breaks: what the client has
\* not read is the old stream, or the start of it, the last line perhaps
\* torn, or all and a goodbye.
LEMMA ClosingKeeps ==
    ASSUME SieveInv, NEW p \in Callers, link[p] = "open",
           link' = [link EXCEPT ![p] = "closed"], Effect(p),
           NEW rest \in Seq(Line), WellFormed(rest),
           \A i \in 1..Len(rest) :
              \/ rest[i] = Goodbye
              \/ \E j \in 1..Len(inbound[p]) :
                    rest[i] = inbound[p][j] \/ rest[i] \in Torn(inbound[p][j]),
           request[p] # "none" => rest = <<>>,
           inbound' = [inbound EXCEPT ![p] = rest],
           request' = [request EXCEPT ![p] = "none"],
           UNCHANGED <<stage, written, push, returned, heard>>
    PROVE  SieveInv'
<1>1. SieveTyped /\ SieveTypeOK /\ CallInv(p)
  BY DEF SieveInv, SieveTyped
<1>2. /\ FiltersTyped'
      /\ \A q \in Callers : q # p => done'[q] = done[q]
      /\ done'[p] = done[p] \/ (request[p] # "none" /\ done'[p] = done[p] \cup {request[p]})
      /\ \A q \in Callers : Undisturbed(q)'
  BY EffectKeeps
<1>3. SieveTyped'
  <2>1. /\ inbound' \in [Callers -> Seq(Line)]
        /\ request' \in [Callers -> Announced \cup Commands \cup {"none"}]
        /\ link' \in [Callers -> {"none", "open", "closed"}]
    BY <1>1 DEF SieveTypeOK
  <2> QED BY <1>1, <1>2, <2>1 DEF SieveTypeOK, SieveTyped, FiltersTyped
<1>4. /\ inbound'[p] = rest /\ request'[p] = "none" /\ link'[p] = "closed"
      /\ stage'[p] = stage[p] /\ written'[p] = written[p] /\ push'[p] = push[p]
      /\ returned'[p] = returned[p] /\ heard'[p] = heard[p]
  BY <1>1 DEF SieveTypeOK
<1>5. stage[p] \notin {"idle", "connect"}
  BY <1>1 DEF CallInv, Stream
<1>6. Stream(p)'
  <2>1. ASSUME NEW i \in 1..Len(rest) PROVE LineFits(p, rest[i])'
    <3>1. done'[p] = done[p]
      <4>1. SUFFICES ASSUME request[p] # "none" PROVE FALSE
        BY <1>2
      <4>2. rest = <<>>
        BY <4>1
      <4> QED BY <4>2
    <3>2. CASE rest[i] = Goodbye
      BY <1>4, <3>2 DEF LineFits, Goodbye
    <3>3. CASE \E j \in 1..Len(inbound[p]) : rest[i] = inbound[p][j]
      <4>1. LineFits(p, rest[i])
        BY <1>1, <3>3 DEF CallInv, Stream
      <4> QED BY <1>4, <3>1, <4>1 DEF LineFits
    <3>4. CASE \E j \in 1..Len(inbound[p]) : rest[i] \in Torn(inbound[p][j])
      <4>1. PICK j \in 1..Len(inbound[p]) : rest[i] \in Torn(inbound[p][j])
        BY <3>4
      <4>2. inbound[p][j] \in Line /\ LineFits(p, inbound[p][j])
        BY <1>1 DEF SieveTypeOK, CallInv, Stream
      <4>3. /\ rest[i].re = inbound[p][j].re /\ inbound[p][j].re # "literal"
            /\ rest[i].word \in {inbound[p][j].word, "capability"}
        BY <4>1, <4>2, TornLine
      <4>4. inbound[p][j] # Literal
        BY <4>3 DEF Literal, LineOf
      <4> QED BY <1>4, <3>1, <4>2, <4>3, <4>4 DEF LineFits
    <3> QED BY <3>2, <3>3, <3>4
  <2> QED BY <1>4, <1>5, <2>1 DEF Stream
<1>7. Progress(p)'
  <2>1. Reading(p)' = Reading(p)
    BY <1>4 DEF Reading
  <2>2. CASE request[p] = "none"
    BY <1>1, <1>2, <1>4, <2>1, <2>2 DEF CallInv, Progress
  <2>3. CASE request[p] # "none"
    <3>1. request[p] = stage[p] /\ Reading(p)
      BY <1>1, <2>3 DEF CallInv, Stream, Speaking, Reading
    <3>2. done'[p] \subseteq Before(stage[p]) \cup {stage[p]} /\ done[p] \subseteq done'[p]
      BY <1>1, <1>2, <1>5, <2>3, <3>1 DEF CallInv, Progress
    <3> QED BY <1>1, <1>4, <2>1, <3>1, <3>2 DEF CallInv, Progress
  <2> QED BY <2>2, <2>3
<1>8. Reported(p)'
  BY <1>1, <1>4, <1>5 DEF CallInv, Reported
<1>9. ASSUME NEW q \in Callers, q # p PROVE Same(q)
  BY <1>1, <1>2, <1>9 DEF SieveTypeOK, Same
<1> QED BY <1>2, <1>3, <1>6, <1>7, <1>8, <1>9, StepOfOne DEF CallInv

LEMMA GoIdleKeeps == ASSUME SieveInv, NEW p \in Callers, GoIdle(p) PROVE SieveInv'
<1>1. /\ SieveTypeOK /\ Stream(p) /\ inbound[p] \in Seq(Line)
      /\ request[p] = "none" /\ link[p] = "open"
  BY DEF GoIdle, SieveInv, SieveTyped, SieveTypeOK, CallInv
<1>2. \A i \in 1..Len(inbound[p]) : inbound[p][i].re # "nothing"
  BY <1>1 DEF Stream, LineFits, Literal, LineOf, Speaking, Announced, Commands
<1>3. PICK rest : rest = Append(inbound[p], Goodbye)
  OBVIOUS
<1>4. /\ rest \in Seq(Line) /\ WellFormed(rest)
      /\ \A i \in 1..Len(rest) :
            rest[i] = Goodbye \/ \E j \in 1..Len(inbound[p]) : rest[i] = inbound[p][j]
  BY <1>1, <1>2, <1>3, GoodbyeWellFormed DEF Stream
<1>5. /\ inbound' = [inbound EXCEPT ![p] = rest] /\ link' = [link EXCEPT ![p] = "closed"]
      /\ UNCHANGED <<stage, written, push, returned, heard>> /\ Effect(p) /\ request' = request
  BY <1>3 DEF GoIdle, Goodbye, Effect
<1>6. request' = [request EXCEPT ![p] = "none"]
  BY <1>1, <1>5 DEF SieveTypeOK
<1> QED BY <1>1, <1>4, <1>5, <1>6, ClosingKeeps

LEMMA BreakKeeps == ASSUME SieveInv, NEW p \in Callers, Break(p) PROVE SieveInv'
<1>1. Stream(p) /\ inbound[p] \in Seq(Line)
  BY DEF SieveInv, SieveTyped, SieveTypeOK, CallInv
<1>2. PICK n \in 0..Len(inbound[p]) : \E rest \in CutAt(inbound[p], n) :
          inbound' = [inbound EXCEPT ![p] = rest]
  BY DEF Break
<1>3. PICK rest \in CutAt(inbound[p], n) : inbound' = [inbound EXCEPT ![p] = rest]
  BY <1>2
<1>4. /\ rest \in Seq(Line) /\ WellFormed(rest)
      /\ \A i \in 1..Len(rest) : \E j \in 1..Len(inbound[p]) :
            rest[i] = inbound[p][j] \/ rest[i] \in Torn(inbound[p][j])
  <2>1. CASE rest = SubSeq(inbound[p], 1, n)
    BY <1>1, <2>1, PrefixWellFormed DEF Stream
  <2>2. CASE rest # SubSeq(inbound[p], 1, n)
    <3>1. n # 0 /\ \E l \in Torn(inbound[p][n]) : rest = Append(SubSeq(inbound[p], 1, n - 1), l)
      BY <1>3, <2>2 DEF CutAt
    <3>2. n \in 1..Len(inbound[p])
      BY <1>1, <3>1
    <3> QED BY <1>1, <3>1, <3>2, TornWellFormed DEF Stream
  <2> QED BY <2>1, <2>2
<1>5. request[p] # "none" => rest = <<>>
  <2>1. SUFFICES ASSUME request[p] # "none" PROVE rest = <<>>
    OBVIOUS
  <2>2. inbound[p] = <<>>
    BY <1>1, <2>1 DEF Stream
  <2>3. n = 0
    BY <2>2
  <2>4. rest = SubSeq(inbound[p], 1, n)
    BY <1>3, <2>3 DEF CutAt
  <2> QED BY <2>2, <2>3, <2>4
<1> QED BY <1>3, <1>4, <1>5, ClosingKeeps DEF Break, Effect

LEMMA SieveServerKeeps ==
    ASSUME SieveInv, NEW p \in Callers, SieveServer(p)
    PROVE  SieveInv'
BY AnswerKeeps, GoIdleKeeps, BreakKeeps DEF SieveServer

LEMMA ChangeFiltersKeeps ==
    ASSUME SieveInv, NEW name \in ScriptNames, NEW script \in Scripts \cup {NoScript},
           ChangeFilters(name, script)
    PROVE  SieveInv'
<1>1. SieveTyped /\ SieveTypeOK
  BY DEF SieveInv, SieveTyped
<1>2. /\ scripts' \in [ScriptNames -> Scripts \cup {NoScript}]
      /\ active' \in ScriptNames \cup {NoName} /\ quiet' \in [Callers -> BOOLEAN]
  BY <1>1 DEF ChangeFilters, SieveTypeOK
<1>3. SieveTyped'
  BY <1>1, <1>2 DEF ChangeFilters, SieveTypeOK, SieveTyped, connection
<1>4. ASSUME NEW q \in Callers PROVE CallInv(q)' /\ Undisturbed(q)'
  <2>1. Same(q) /\ quiet'[q] = FALSE
    BY DEF ChangeFilters, Same, connection
  <2>2. CallInv(q)'
    BY <2>1, SameKeeps DEF SieveInv
  <2> QED BY <2>1, <2>2 DEF Undisturbed
<1> QED BY <1>3, <1>4 DEF SieveInv

--------------------------------------------------------------------------------
(* What the program around a call does. *)

\* A call begins, or a process that has called nothing.
LEMMA FreshKeeps ==
    ASSUME SieveInv, NEW p \in Callers, stage[p] = "idle",
           NEW at \in {"idle", "connect"}, stage' = [stage EXCEPT ![p] = at],
           NEW what \in Push \cup {NoPush}, push' = [push EXCEPT ![p] = what],
           at = "connect" => what \in Push,
           returned' = [returned EXCEPT ![p] = "none"],
           done' = [done EXCEPT ![p] = {}],
           heard' = [heard EXCEPT ![p] = NothingHeard],
           quiet' = [quiet EXCEPT ![p] = TRUE],
           UNCHANGED <<written, link, inbound, request, scripts, active>>
    PROVE  SieveInv'
<1>1. SieveTyped /\ SieveTypeOK /\ CallInv(p)
  BY DEF SieveInv, SieveTyped
<1>2. SieveTyped'
  <2>1. stage' \in [Callers -> Stages] /\ returned' \in [Callers -> Results]
    BY <1>1 DEF SieveTypeOK, Stages, Results
  <2>2. push' \in [Callers -> Push \cup {NoPush}]
    BY <1>1 DEF SieveTypeOK
  <2>3. done' \in [Callers -> SUBSET (Announced \cup Commands)] /\ quiet' \in [Callers -> BOOLEAN]
    BY <1>1 DEF SieveTypeOK
  <2>4. NothingHeard \in Heard
    BY DEF NothingHeard, Heard, Stages
  <2>5. heard' \in [Callers -> Heard]
    BY <1>1, <2>4 DEF SieveTyped
  <2> QED BY <1>1, <2>1, <2>2, <2>3, <2>5 DEF SieveTypeOK, SieveTyped
<1>3. /\ stage'[p] = at /\ push'[p] = what /\ returned'[p] = "none" /\ done'[p] = {}
      /\ heard'[p] = NothingHeard
      /\ link'[p] = "none" /\ inbound'[p] = <<>> /\ request'[p] = "none"
  BY <1>1 DEF SieveTypeOK, SieveTyped, CallInv, Stream
<1>4. Stream(p)'
  <2>1. \A i \in 1..Len(<<>>) : FALSE
    OBVIOUS
  <2> QED BY <1>3, <2>1 DEF Stream, WellFormed
<1>5. Progress(p)'
  BY <1>3 DEF Progress, Before
<1>6. Reported(p)'
  BY <1>3 DEF Reported, NothingHeard
<1>7. ASSUME NEW q \in Callers, q # p PROVE Same(q) /\ quiet'[q] = quiet[q]
  BY <1>1, <1>7 DEF SieveTypeOK, SieveTyped, Same
<1>8. ASSUME NEW q \in Callers PROVE Undisturbed(q)'
  <2>1. CASE q = p
    BY <1>3, <2>1 DEF Undisturbed
  <2>2. CASE q # p
    BY <1>7, <2>2, FiltersKept DEF SieveInv, Same
  <2> QED BY <2>1, <2>2
<1> QED BY <1>2, <1>4, <1>5, <1>6, <1>7, <1>8, StepOfOne DEF CallInv

LEMMA CallKeeps ==
    ASSUME SieveInv, NEW p \in Callers, NEW name \in ScriptNames, NEW script \in Scripts,
           Call(p, name, script)
    PROVE  SieveInv'
<1>1. [name |-> name, script |-> script] \in Push
  BY DEF Push
<1> QED BY <1>1, FreshKeeps DEF Call

LEMMA ForgetCallKeeps ==
    ASSUME SieveInv, NEW p \in Callers, stage[p] = "idle", ForgetCall(p)
    PROVE  SieveInv'
<1>1. stage' = [stage EXCEPT ![p] = "idle"]
  BY DEF SieveInv, SieveTyped, SieveTypeOK, ForgetCall
<1> QED BY <1>1, FreshKeeps DEF ForgetCall

LEMMA AbandonPushKeeps ==
    ASSUME SieveInv, NEW p \in Callers, stage[p] # "idle", AbandonPush(p)
    PROVE  SieveInv'
BY FailureKeeps DEF AbandonPush, Effect

LEMMA SieveUnchanged == ASSUME SieveInv, UNCHANGED sieve_vars PROVE SieveInv'
<1>1. UNCHANGED <<stage, written, link, inbound, request, returned, push, scripts, active,
                  done, quiet, heard>>
  BY DEF sieve_vars, connection, filters
<1>2. SieveTyped'
  BY <1>1 DEF SieveInv, SieveTyped, SieveTypeOK
<1>3. ASSUME NEW q \in Callers PROVE CallInv(q)' /\ Undisturbed(q)'
  <2>1. Same(q)
    BY <1>1 DEF Same
  <2> QED BY <1>1, <2>1, SameKeeps, FiltersKept DEF SieveInv
<1> QED BY <1>2, <1>3 DEF SieveInv

LEMMA SieveStarts == ASSUME SieveInit PROVE SieveInv
<1>1. NoPush \in Push \cup {NoPush} /\ NothingHeard \in Heard
  BY DEF NothingHeard, Heard, Stages
<1>2. SieveTyped
  BY <1>1 DEF SieveInit, SieveTyped, SieveTypeOK, Stages, Results
<1>3. ASSUME NEW q \in Callers PROVE CallInv(q) /\ Undisturbed(q)
  <2>1. /\ stage[q] = "idle" /\ link[q] = "none" /\ inbound[q] = <<>> /\ request[q] = "none"
        /\ returned[q] = "none" /\ done[q] = {} /\ heard[q] = NothingHeard
    BY DEF SieveInit
  <2>2. \A i \in 1..Len(<<>>) : FALSE
    OBVIOUS
  <2>3. Stream(q)
    BY <2>1, <2>2 DEF Stream, WellFormed
  <2> QED BY <2>1, <2>3 DEF CallInv, Progress, Reported, NothingHeard, Undisturbed
<1> QED BY <1>2, <1>3 DEF SieveInv

\* A step of a call, or of the server in it, is a step of that call only.
LEMMA OneCallOnly ==
    ASSUME SieveInv, NEW p \in Callers, PutActiveScript(p) \/ SieveServer(p)
    PROVE  /\ stage[p] # "idle"
           /\ \A q \in Callers : q # p => stage'[q] = stage[q] /\ done'[q] = done[q]
<1>1. SieveTypeOK /\ Stream(p)
  BY DEF SieveInv, SieveTyped, CallInv
<1>2. CASE PutActiveScript(p)
  <2>1. stage[p] # "idle"
    BY <1>2 DEF PutActiveScript, Connect, Handshake, Write, DrainLiteral, SkipCapability,
                ReachEnd, HearOk, HearNo, HearBye, Hear, Reading, Announced, Commands
  <2>2. UNCHANGED done
    BY <1>2 DEF PutActiveScript, Connect, Handshake, Write, DrainLiteral, SkipCapability,
                ReachEnd, HearOk, HearNo, HearBye, Hear, filters
  <2>3. stage' = stage \/ \E s : stage' = [stage EXCEPT ![p] = s]
    BY <1>2 DEF PutActiveScript, Connect, Handshake, Write, DrainLiteral, SkipCapability,
                ReachEnd, HearOk, HearNo, HearBye, Return, Listen, Proceed
  <2> QED BY <1>1, <2>1, <2>2, <2>3 DEF SieveTypeOK
<1>3. CASE SieveServer(p)
  <2>1. link[p] = "open" /\ UNCHANGED stage
    BY <1>3 DEF SieveServer, Answer, GoIdle, Break
  <2>2. Effect(p) /\ UNCHANGED push
    BY <1>3 DEF SieveServer, Answer, GoIdle, Break, Effect
  <2>3. \A q \in Callers : q # p => done'[q] = done[q]
    BY <2>2, EffectKeeps
  <2> QED BY <1>1, <2>1, <2>3 DEF Stream
<1> QED BY <1>2, <1>3

--------------------------------------------------------------------------------
(* What follows. *)

\* The client and the server stay in step.
LEMMA SieveInStep == ASSUME SieveInv PROVE InStep
BY DEF SieveInv, CallInv, Reported, InStep

\* What put_active_script returns is what became of the filters.
LEMMA SievePushIsHonest == ASSUME SieveInv PROVE PushIsHonest
<1>1. ASSUME NEW p \in Callers, returned[p] = "ok" /\ quiet[p]
      PROVE  active = push[p].name /\ scripts[active] = push[p].script
  <2>1. "putscript" \in done[p] /\ "setactive" \in done[p]
    BY <1>1 DEF SieveInv, CallInv, Reported
  <2> QED BY <1>1, <2>1 DEF SieveInv, Undisturbed
<1> QED BY <1>1 DEF SieveInv, CallInv, Reported, PushIsHonest

================================================================================
