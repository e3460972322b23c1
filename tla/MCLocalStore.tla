------------------------------ MODULE MCLocalStore ------------------------------
(* An install whose user files the mail of one domain mostly into one        *)
(* folder.  Rule 1 is the id that two different domains derive for that      *)
(* folder, and the id of the rule another install derived from its own mail. *)
EXTENDS LocalStore

MCIds == 1..3
MCDomains == {"", "@a.com", "@a-com"}
MCNames == {"Promotions", "Social", "INBOX", "inbox", "$Important", "$Label2"}
MCLowerCase == [n \in MCNames |-> IF n = "INBOX" THEN "inbox" ELSE n]
MCProtectedFolders == {"INBOX"}
MCProtectedFlags == {"$Important"}
MCMessages == 1..7

MCDerivedId == [g \in MCDomains \X MCNames |-> IF g[2] = "Promotions" THEN 1 ELSE 2]

Saw(message, source, destination, domain) ==
    [message_hash |-> message, source |-> source, destination |-> destination,
     from_domain_with_at |-> domain]

\* Two messages to one folder, a third and one of the first to another, the
\* first also by its category button; two of the other domain of rule 1; and
\* mail without a sender.
MCObservations ==
    {Saw(1, "manual_move", "Promotions", "@a.com"),
     Saw(2, "manual_move", "Promotions", "@a.com"),
     Saw(1, "explicit_category", "Promotions", "@a.com"),
     Saw(1, "manual_move", "Social", "@a.com"),
     Saw(3, "manual_move", "Social", "@a.com"),
     Saw(4, "manual_move", "Promotions", "@a-com"),
     Saw(5, "manual_move", "Promotions", "@a-com"),
     Saw(6, "manual_move", "Promotions", ""),
     Saw(7, "manual_move", "Promotions", "")}

\* Two messages moved, and a flag put on them.
MCToggles ==
    {Saw(4, "manual_move", "Promotions", "@a-com"),
     Saw(5, "manual_move", "Promotions", "@a-com"),
     Saw(4, "toggle_flag", "$Important", "@a-com"),
     Saw(5, "toggle_flag", "$Important", "@a-com")}

File(folder) == [kind |-> "file_into", folder |-> folder]
Flag(flag) == [kind |-> "set_flag", flag |-> flag]

MCRule(id, action, score, origin) ==
    [id |-> id, when |-> [kind |-> "other"], action |-> action, score |-> score,
     origin |-> origin]

\* The user raises the derived rule, writes one of their own; the platform
\* has one under the same id.
MCOwnRules ==
    {MCRule(1, <<File("Promotions")>>, 100, "user"),
     MCRule(3, <<Flag("$Important")>>, 100, "user"),
     MCRule(3, <<File("Social")>>, 50, "platform")}

\* What another install derived; a rule for INBOX in disguise, hidden behind
\* a harmless action; and one that claims to be the user's, with scores
\* outside the range on both sides.
MCWireRules ==
    {MCRule(1, <<File("Promotions")>>, 30, "user"),
     MCRule(3, <<File("Social"), File("inbox")>>, 10, "platform"),
     MCRule(3, <<Flag("$Label2"), File("Social")>>, 1000, "user"),
     MCRule(2, <<Flag("$Important")>>, 0, "federated"),
     MCRule(2, <<>>, 0, "federated")}

================================================================================
