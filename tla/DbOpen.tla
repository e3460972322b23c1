-------------------------------- MODULE DbOpen --------------------------------
(***************************************************************************)
(* Opening the local store (Db::open and Db::init of                       *)
(* thundercrab-core/src/db.rs): several processes, perhaps of different    *)
(* releases, open one file, create what is missing and record the version  *)
(* of the schema.                                                          *)
(*                                                                         *)
(* There is no transaction around it.  Every statement of the batch, the   *)
(* query for the version and the INSERT are each atomic and durable; each  *)
(* may fail, and the process may stop between any two.                     *)
(*                                                                         *)
(* SCHEMA_VERSION is a constant of the binary.  A later release is this    *)
(* code with a larger one: its migrations are not written yet.             *)
(***************************************************************************)
EXTENDS Naturals, Sequences, FiniteSets, Functions

CONSTANTS
    Processes,
    SCHEMA_VERSION,     \* of the binary each process runs
    Tables,             \* in the order of the batch
    MaxFaults           \* bound: statements that fail, processes that stop

ASSUME OpenAssumption ==
    /\ SCHEMA_VERSION \in [Processes -> Nat \ {0}]
    /\ Tables \in Seq(STRING)
    /\ MaxFaults \in Nat

VARIABLES
    tables,     \* file: the tables there are
    versions,   \* file: the rows of schema_version
    at,         \* where each process is in open
    created,    \* statements of the batch behind it
    faults,
    floor       \* history: the version in the file when the open began

db_vars == <<tables, versions, at, created, faults, floor>>

Init ==
    /\ tables = {}
    /\ versions = {}
    /\ at = [p \in Processes |-> "closed"]
    /\ created = [p \in Processes |-> 0]
    /\ faults = 0
    /\ floor = [p \in Processes |-> 0]

\* Wrong variant (mutation runs): SELECT version .. LIMIT 1
FirstRecorded ==
    IF versions = {} THEN 0 ELSE CHOOSE v \in versions : \A w \in versions : v <= w

Recorded == IF versions = {} THEN 0 ELSE CHOOSE v \in versions : \A w \in versions : w <= v

\* SELECT MAX(version), and 0 for no rows
FoundVersion == Recorded

Moves(p, from, to) ==
    /\ at[p] = from
    /\ at' = [at EXCEPT ![p] = to]

Open(p) ==
    /\ Moves(p, "closed", "batch")
    /\ created' = [created EXCEPT ![p] = 0]
    /\ floor' = [floor EXCEPT ![p] = Recorded]
    /\ UNCHANGED <<tables, versions, faults>>

\* Wrong variant (mutation runs): CREATE TABLE, which fails if there is one.
CreateTableAnew(p) ==
    /\ at[p] = "batch" /\ created[p] < Len(Tables)
    /\ LET table == Tables[created[p] + 1]
       IN  IF table \in tables
           THEN /\ at' = [at EXCEPT ![p] = "closed"]
                /\ UNCHANGED <<tables, created>>
           ELSE /\ tables' = tables \cup {table}
                /\ created' = [created EXCEPT ![p] = @ + 1]
                /\ UNCHANGED at
    /\ UNCHANGED <<versions, faults, floor>>

\* CREATE TABLE IF NOT EXISTS (the last with its indexes)
CreateTable(p) ==
    /\ at[p] = "batch" /\ created[p] < Len(Tables)
    /\ tables' = tables \cup {Tables[created[p] + 1]}
    /\ created' = [created EXCEPT ![p] = @ + 1]
    /\ UNCHANGED <<versions, at, faults, floor>>

\* Wrong variant (mutation runs): the version goes in with its table.
CheckVersionEarly(p) ==
    /\ created[p] > 0
    /\ Moves(p, "batch", IF FoundVersion > SCHEMA_VERSION[p] THEN "closed"
                         ELSE IF FoundVersion < SCHEMA_VERSION[p] THEN "insert"
                         ELSE "open")
    /\ UNCHANGED <<tables, versions, created, faults, floor>>

\* SchemaTooNew, or the version is recorded, or has to be.
CheckVersion(p) ==
    /\ created[p] = Len(Tables)
    /\ Moves(p, "batch", IF FoundVersion > SCHEMA_VERSION[p] THEN "closed"
                         ELSE IF FoundVersion < SCHEMA_VERSION[p] THEN "insert"
                         ELSE "open")
    /\ UNCHANGED <<tables, versions, created, faults, floor>>

\* Wrong variant (mutation runs): the conflict is taken for success, and the
\* insert that another release needs is lost.
InsertIfEmpty(p) ==
    /\ Moves(p, "insert", "open")
    /\ versions' = IF versions = {} THEN {SCHEMA_VERSION[p]} ELSE versions
    /\ UNCHANGED <<tables, created, faults, floor>>

\* Wrong variant (mutation runs): the version found is recorded again.
InsertFound(p) ==
    /\ Moves(p, "insert", "open")
    /\ versions' = versions \cup {FoundVersion}
    /\ UNCHANGED <<tables, created, faults, floor>>

\* INSERT: a second row of the version breaks the primary key, and open fails.
InsertVersion(p) ==
    /\ \/ /\ SCHEMA_VERSION[p] \notin versions
          /\ Moves(p, "insert", "open")
          /\ versions' = versions \cup {SCHEMA_VERSION[p]}
       \/ /\ SCHEMA_VERSION[p] \in versions
          /\ Moves(p, "insert", "closed")
          /\ UNCHANGED versions
    /\ UNCHANGED <<tables, created, faults, floor>>

\* A statement fails (the file is locked too long, the disk is full), the
\* process stops, or it drops the handle.
Stop(p) ==
    /\ faults < MaxFaults
    /\ at[p] # "closed"
    /\ at' = [at EXCEPT ![p] = "closed"]
    /\ faults' = faults + 1
    /\ UNCHANGED <<tables, versions, created, floor>>

Step(p) == Open(p) \/ CreateTable(p) \/ CheckVersion(p) \/ InsertVersion(p)

Next == \E p \in Processes : Step(p) \/ Stop(p)

\* A process that is not open tries, and tries again.
Fairness == \A p \in Processes : WF_db_vars(Step(p))

Spec == Init /\ [][Next]_db_vars /\ Fairness

--------------------------------------------------------------------------------

TypeOK ==
    /\ tables \subseteq Range(Tables)
    /\ versions \subseteq Range(SCHEMA_VERSION)
    /\ at \in [Processes -> {"closed", "batch", "insert", "open"}]
    /\ created \in [Processes -> 0..Len(Tables)]
    /\ faults \in 0..MaxFaults
    /\ floor \in [Processes -> Nat]

\* A file that records a version has the whole schema, wherever the processes
\* that made it stopped: the version is the last thing written.
VersionComesLast == versions # {} => tables = Range(Tables)

\* A handle is only ever given out on a file with every table, and with the
\* version of the release that holds it on record, whichever of the racing
\* openers put it there.
HandleIsSound ==
    \A p \in Processes :
        at[p] = "open" => tables = Range(Tables) /\ SCHEMA_VERSION[p] \in versions

\* A release does not open a file that a later one had upgraded before the
\* open began (db.rs:45, SchemaTooNew).  It may open one that is upgraded
\* between its query and its INSERT, and keep one that is upgraded later.
NoNewerFile == \A p \in Processes : at[p] = "open" => floor[p] <= SCHEMA_VERSION[p]

\* No failure and no race leaves a file that cannot be opened: who tries
\* again gets a handle, unless a later release was there.
OpensInTheEnd ==
    \A p \in Processes :
        at[p] # "open" ~> at[p] = "open" \/ Recorded > SCHEMA_VERSION[p]

================================================================================
