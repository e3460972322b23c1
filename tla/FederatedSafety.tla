---------------------------- MODULE FederatedSafety ----------------------------
(***************************************************************************)
(* Sorting rules (thundercrab-core/src/crab_rule.rs) and the checks a rule *)
(* from the ledger passes before it enters the local store                 *)
(* (thundercrab-suggestions/src/safety.rs).                                *)
(*                                                                         *)
(* An action is the sequence of the simple actions it performs, in order:  *)
(* how Sequences nest decides only the wording of an error.  A matcher     *)
(* names one sender domain or is some other expression, and is_safe_match  *)
(* accepts every matcher there is.  display_name and stop_on_match are     *)
(* carried along by the code and left out here.                            *)
(***************************************************************************)
EXTENDS Integers, Sequences

CONSTANTS
    Ids,                \* rule ids, by their rank in byte order
    Domains,            \* sender domains with their @, and NoDomain
    Names,              \* names of folders and of flags: strings alike
    LowerCase,          \* the ASCII lower case of each name
    ProtectedFolders,
    ProtectedFlags

ASSUME NamesAssumption ==
    /\ Ids \subseteq Int
    /\ LowerCase \in [Names -> Names]
    /\ ProtectedFolders \subseteq Names /\ ProtectedFlags \subseteq Names

RuleOrigin == {"user", "platform", "federated"}

MatchExpr ==
    [kind : {"from_domain_in"}, domain : Domains] \cup [kind : {"other"}]

SimpleAction ==
    [kind : {"file_into"}, folder : Names] \cup [kind : {"set_flag"}, flag : Names]

CrabRule ==
    [id : Ids, when : MatchExpr, action : Seq(SimpleAction), score : Int,
     origin : RuleOrigin]

IsProtectedFolder(folder) ==
    \E p \in ProtectedFolders : LowerCase[p] = LowerCase[folder]

\* Wrong variant (mutation runs): only the first action of a sequence.
CheckFirstAction(action) ==
    action # <<>> =>
        /\ action[1].kind = "file_into" => ~IsProtectedFolder(action[1].folder)
        /\ action[1].kind = "set_flag" => action[1].flag \notin ProtectedFlags

\* check_action returns Ok.
CheckAction(action) ==
    \A i \in 1..Len(action) :
        /\ action[i].kind = "file_into" => ~IsProtectedFolder(action[i].folder)
        /\ action[i].kind = "set_flag" => action[i].flag \notin ProtectedFlags

\* Wrong variant (mutation runs): a floor and no ceiling.
ClampBelow(score) == IF score < 1 THEN 1 ELSE score

Clamp(score) == IF score < 1 THEN 1 ELSE IF score > 49 THEN 49 ELSE score

\* What apply_suggestion returns for a rule that passes CheckAction.
Applied(rule) == [rule EXCEPT !.origin = "federated", !.score = Clamp(rule.score)]

================================================================================
