----------------------------- MODULE MCMailClients -----------------------------
(* One program at a time, two accounts, two folders that others delete and   *)
(* make again, two scripts under one name.                                   *)
EXTENDS MailClients

Order(command, flaws) == [command |-> command, flaws |-> flaws]

PushOrder(name, script, flaws) ==
    [command |-> "push", flaws |-> flaws, name |-> name, script |-> script]

MCInvocations ==
    {Order("list", {}), Order("fetch", {}), Order("list", {"environment"}),
     Order("send", {}), Order("send", {"no_recipient"}), Order("send", {"mailbox"}),
     PushOrder("thundercrab", "s1", {}), PushOrder("thundercrab", "s2", {}),
     PushOrder("thundercrab", "s1", {"file"})}

\* Only the filters: two pushes of different scripts.
MCPushes == {PushOrder("thundercrab", "s1", {}), PushOrder("thundercrab", "s2", {})}

================================================================================
