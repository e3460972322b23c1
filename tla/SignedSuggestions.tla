--------------------------- MODULE SignedSuggestions ---------------------------
(***************************************************************************)
(* The value an install submits to the ledger: a rule, the hash of its     *)
(* canonical encoding, a day, and an Ed25519 signature over the three      *)
(* (thundercrab-suggestions/src/ledger.rs).  There is no state here: the   *)
(* install and the ledger share these operators.                           *)
(*                                                                         *)
(* The canonical encoding is injective and blake3 is taken to be so; the   *)
(* pair is the constant Hash.  A signature is represented by what it       *)
(* covers: the key that made it and the body that was signed.              *)
(***************************************************************************)
EXTENDS Integers

CONSTANTS
    Rules,      \* whole CrabRules (id, matcher, action, score, origin)
    Patterns,   \* pattern hashes
    Keys,       \* 32-byte public keys as they appear on the wire
    Points,     \* the keys that decode to a point of the curve
    Days,       \* day indices
    Hash        \* blake3 of the canonical encoding of a rule

\* Canonical JSON bodies and hashes are compared as byte strings, so both
\* are represented by their rank in that order.
ASSUME RankAssumption == Rules \subseteq Nat /\ Patterns \subseteq Nat

ASSUME KeyAssumption == Points \subseteq Keys

ASSUME DayAssumption == Days \subseteq Int

ASSUME HashAssumption ==
    /\ Hash \in [Rules -> Patterns]
    /\ \A r, s \in Rules : Hash[r] = Hash[s] => r = s

Suggestion == [rule : Rules, pattern_hash : Patterns, submitted_at_day : Days]

Signature == [key : Keys, body : Suggestion]

SignedSuggestion ==
    [suggestion : Suggestion, public_key : Keys, signature : Signature]

NewSuggestion(rule, today) ==
    [rule |-> rule, pattern_hash |-> Hash[rule], submitted_at_day |-> today]

Sign(key, suggestion) ==
    [suggestion |-> suggestion,
     public_key |-> key,
     signature  |-> [key |-> key, body |-> suggestion]]

\* Wrong variant (mutation runs): the hash is believed.
VerifySignatureOnly(signed) ==
    /\ signed.public_key \in Points
    /\ signed.signature = [key |-> signed.public_key, body |-> signed.suggestion]

\* The three checks: a valid key (else BadKey), a signature by it over this
\* very body (else BadSignature), and a hash that is the rule's (else
\* HashMismatch).  The one caller gives the same answer to all three errors.
Verify(signed) ==
    /\ signed.public_key \in Points
    /\ signed.signature = [key |-> signed.public_key, body |-> signed.suggestion]
    /\ Hash[signed.suggestion.rule] = signed.suggestion.pattern_hash

================================================================================
