-------------------------------- MODULE MCDbOpen --------------------------------
(* Two processes of one release and one of the next.                          *)
EXTENDS DbOpen, TLC

CONSTANTS p1, p2, p3

MCTables == <<"schema_version", "rules", "flag_events">>
MCSchemaVersion == p1 :> 1 @@ p2 :> 1 @@ p3 :> 2

================================================================================
