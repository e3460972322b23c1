----------------------------- MODULE DbOpenProofs -----------------------------
(***************************************************************************)
(* Opening the store is safe for any processes and releases, any list of   *)
(* tables and any number of faults: what is written is only ever added to, *)
(* so what a process has seen stays true while it goes on.                 *)
(***************************************************************************)
EXTENDS DbOpen, TLAPS

\* The statements of the batch behind a process had their effect.
CreatedInv == \A p \in Processes : \A i \in 1..created[p] : Tables[i] \in tables

\* A process past the batch works on a whole schema.
WholeInv == \A p \in Processes : at[p] \in {"insert", "open"} => tables = Range(Tables)

\* There is a largest version, so that SELECT MAX finds it.
LargestInv == versions = {} \/ \E v \in versions : \A w \in versions : w <= v

\* What an open found is still on record.
FloorInv ==
    \A p \in Processes :
        /\ floor[p] = 0 \/ floor[p] \in versions
        /\ at[p] \in {"insert", "open"} => floor[p] <= SCHEMA_VERSION[p]

IInv ==
    /\ TypeOK
    /\ CreatedInv
    /\ WholeInv
    /\ LargestInv
    /\ FloorInv
    /\ VersionComesLast
    /\ HandleIsSound

--------------------------------------------------------------------------------
(* Lemmas about the operators. *)

\* Recorded is a row, and none is larger.
LEMMA RecordedIsLargest ==
    ASSUME LargestInv, versions # {}
    PROVE  Recorded \in versions /\ \A w \in versions : w <= Recorded
<1>1. PICK v \in versions : \A w \in versions : w <= v
  BY DEF LargestInv
<1> QED BY <1>1 DEF Recorded

\* Versions on record are positive numbers.
LEMMA VersionsAreNumbers ==
    ASSUME TypeOK
    PROVE  versions \subseteq Nat \ {0}
<1>1. \A p \in DOMAIN SCHEMA_VERSION : SCHEMA_VERSION[p] \in Nat \ {0}
  BY OpenAssumption
<1> QED BY <1>1 DEF TypeOK, Range

LEMMA RecordedType ==
    ASSUME TypeOK, LargestInv
    PROVE  Recorded \in Nat /\ (Recorded = 0 \/ Recorded \in versions)
<1>1. CASE versions = {}
  BY <1>1 DEF Recorded
<1>2. CASE versions # {}
  BY <1>2, RecordedIsLargest, VersionsAreNumbers
<1> QED BY <1>1, <1>2

\* With every statement done the schema is whole.
LEMMA BatchDone ==
    ASSUME TypeOK, CreatedInv, NEW p \in Processes, created[p] = Len(Tables)
    PROVE  tables = Range(Tables)
<1>1. DOMAIN Tables = 1..Len(Tables)
  BY OpenAssumption
<1>2. \A i \in DOMAIN Tables : Tables[i] \in tables
  BY <1>1 DEF CreatedInv
<1>3. Range(Tables) \subseteq tables
  BY <1>2 DEF Range
<1> QED BY <1>3 DEF TypeOK

--------------------------------------------------------------------------------
(* The inductive invariant. *)

LEMMA InitIInv == Init => IInv
<1> SUFFICES ASSUME Init PROVE IInv
  OBVIOUS
<1>1. Len(Tables) \in Nat
  BY OpenAssumption
<1>2. TypeOK
  BY <1>1, OpenAssumption DEF Init, TypeOK
<1> QED
  BY <1>2, OpenAssumption DEF Init, IInv, CreatedInv, WholeInv, LargestInv,
     FloorInv, VersionComesLast, HandleIsSound

LEMMA OpenStep ==
    ASSUME IInv, NEW p \in Processes, Open(p)
    PROVE  IInv'
<1> USE DEF IInv, Open, Moves
<1>1. Len(Tables) \in Nat
  BY OpenAssumption
<1>2. Recorded \in Nat /\ (Recorded = 0 \/ Recorded \in versions)
  BY RecordedType
<1>3. TypeOK'
  BY <1>1, <1>2 DEF TypeOK
<1>4. CreatedInv'
  BY DEF CreatedInv, TypeOK
<1>5. WholeInv'
  BY DEF WholeInv, TypeOK
<1>6. FloorInv'
  BY <1>2 DEF FloorInv, TypeOK
<1>7. LargestInv' /\ VersionComesLast' /\ HandleIsSound'
  BY DEF LargestInv, VersionComesLast, HandleIsSound, TypeOK
<1> QED BY <1>3, <1>4, <1>5, <1>6, <1>7

LEMMA CreateTableStep ==
    ASSUME IInv, NEW p \in Processes, CreateTable(p)
    PROVE  IInv'
<1> USE DEF IInv, CreateTable
<1>1. Len(Tables) \in Nat /\ DOMAIN Tables = 1..Len(Tables)
  BY OpenAssumption
<1>2. created[p] + 1 \in 1..Len(Tables)
  BY <1>1 DEF TypeOK
<1>3. Tables[created[p] + 1] \in Range(Tables)
  BY <1>1, <1>2 DEF Range
<1>4. TypeOK'
  BY <1>1, <1>2, <1>3 DEF TypeOK
<1>5. CreatedInv'
  BY <1>1 DEF CreatedInv, TypeOK
<1>6. WholeInv' /\ VersionComesLast' /\ HandleIsSound'
  BY <1>3 DEF WholeInv, VersionComesLast, HandleIsSound
<1>7. LargestInv' /\ FloorInv'
  BY DEF LargestInv, FloorInv
<1> QED BY <1>4, <1>5, <1>6, <1>7

LEMMA CheckVersionStep ==
    ASSUME IInv, NEW p \in Processes, CheckVersion(p)
    PROVE  IInv'
<1> USE DEF IInv, CheckVersion, Moves
<1>1. tables = Range(Tables)
  BY BatchDone
<1>2. Recorded \in Nat /\ (Recorded = 0 \/ Recorded \in versions)
  BY RecordedType
<1>3. SCHEMA_VERSION[p] \in Nat \ {0}
  BY OpenAssumption
<1>4. FoundVersion = Recorded
  BY DEF FoundVersion
<1>5. TypeOK'
  BY DEF TypeOK
<1>6. CreatedInv' /\ LargestInv' /\ VersionComesLast'
  BY DEF CreatedInv, LargestInv, VersionComesLast
<1>7. WholeInv'
  BY <1>1 DEF WholeInv, TypeOK
<1>8. floor[p] <= Recorded
  <2>1. CASE versions = {}
    BY <2>1, <1>2 DEF FloorInv
  <2>2. CASE versions # {}
    BY <2>2, <1>2, RecordedIsLargest DEF FloorInv
  <2> QED BY <2>1, <2>2
<1>9. FloorInv'
  BY <1>2, <1>3, <1>4, <1>8 DEF FloorInv, TypeOK
<1>10. HandleIsSound'
  BY <1>1, <1>2, <1>3, <1>4 DEF HandleIsSound, TypeOK
<1> QED BY <1>5, <1>6, <1>7, <1>9, <1>10

LEMMA InsertVersionStep ==
    ASSUME IInv, NEW p \in Processes, InsertVersion(p)
    PROVE  IInv'
<1> USE DEF IInv, Moves
<1>1. SCHEMA_VERSION[p] \in Nat \ {0} /\ SCHEMA_VERSION[p] \in Range(SCHEMA_VERSION)
  BY OpenAssumption DEF Range
<1>2. at[p] = "insert" /\ UNCHANGED <<tables, created, faults, floor>>
  BY DEF InsertVersion
<1>3. tables = Range(Tables)
  BY <1>2 DEF WholeInv
<1>4. versions' = versions \cup {SCHEMA_VERSION[p]}
  BY DEF InsertVersion
<1>5. /\ at' \in [Processes -> {"closed", "batch", "insert", "open"}]
      /\ \A q \in Processes : q # p => at'[q] = at[q]
      /\ at'[p] \in {"open", "closed"}
  BY DEF InsertVersion, TypeOK
<1>6. TypeOK'
  BY <1>1, <1>2, <1>4, <1>5 DEF TypeOK
<1>7. CreatedInv' /\ VersionComesLast'
  BY <1>2, <1>3 DEF CreatedInv, VersionComesLast
<1>8. WholeInv'
  BY <1>2, <1>3, <1>5 DEF WholeInv
<1>9. FloorInv'
  BY <1>2, <1>4, <1>5 DEF FloorInv
<1>10. HandleIsSound'
  BY <1>2, <1>3, <1>4, <1>5 DEF HandleIsSound
<1>11. LargestInv'
  <2>1. CASE versions = {}
    BY <2>1, <1>1, <1>4 DEF LargestInv
  <2>2. CASE versions # {}
    <3>1. PICK v \in versions : \A w \in versions : w <= v
      BY <2>2 DEF LargestInv
    <3>2. versions \subseteq Nat \ {0}
      BY VersionsAreNumbers
    <3>3. CASE v <= SCHEMA_VERSION[p]
      BY <3>1, <3>2, <3>3, <1>1, <1>4 DEF LargestInv
    <3>4. CASE SCHEMA_VERSION[p] <= v
      BY <3>1, <3>2, <3>4, <1>1, <1>4 DEF LargestInv
    <3> QED BY <3>2, <3>3, <3>4, <1>1
  <2> QED BY <2>1, <2>2
<1> QED BY <1>6, <1>7, <1>8, <1>9, <1>10, <1>11

LEMMA StopStep ==
    ASSUME IInv, NEW p \in Processes, Stop(p)
    PROVE  IInv'
<1> USE DEF IInv, Stop
<1>1. TypeOK'
  BY OpenAssumption DEF TypeOK
<1>2. CreatedInv' /\ LargestInv' /\ VersionComesLast'
  BY DEF CreatedInv, LargestInv, VersionComesLast
<1>3. WholeInv' /\ FloorInv' /\ HandleIsSound'
  BY DEF WholeInv, FloorInv, HandleIsSound, TypeOK
<1> QED BY <1>1, <1>2, <1>3

LEMMA NextIInv == IInv /\ [Next]_db_vars => IInv'
<1> SUFFICES ASSUME IInv, [Next]_db_vars PROVE IInv'
  OBVIOUS
<1>1. CASE UNCHANGED db_vars
  BY <1>1 DEF db_vars, IInv, TypeOK, CreatedInv, WholeInv, LargestInv, FloorInv,
     VersionComesLast, HandleIsSound
<1>2. ASSUME NEW p \in Processes, Open(p) PROVE IInv'
  BY <1>2, OpenStep
<1>3. ASSUME NEW p \in Processes, CreateTable(p) PROVE IInv'
  BY <1>3, CreateTableStep
<1>4. ASSUME NEW p \in Processes, CheckVersion(p) PROVE IInv'
  BY <1>4, CheckVersionStep
<1>5. ASSUME NEW p \in Processes, InsertVersion(p) PROVE IInv'
  BY <1>5, InsertVersionStep
<1>6. ASSUME NEW p \in Processes, Stop(p) PROVE IInv'
  BY <1>6, StopStep
<1> QED BY <1>1, <1>2, <1>3, <1>4, <1>5, <1>6 DEF Next, Step

LEMMA IInvHolds == Spec => []IInv
BY InitIInv, NextIInv, PTL DEF Spec

--------------------------------------------------------------------------------
(* The theorems. *)

\* The file and the processes keep their types (db.rs, Db::init).
THEOREM TypeCorrect == Spec => []TypeOK
<1>1. IInv => TypeOK
  BY DEF IInv
<1> QED BY <1>1, IInvHolds, PTL

\* A version is recorded only in a file with the whole schema, wherever the
\* processes that make it stop.
THEOREM VersionIsLast == Spec => []VersionComesLast
<1>1. IInv => VersionComesLast
  BY DEF IInv
<1> QED BY <1>1, IInvHolds, PTL

\* Db::open gives out no handle on a file that lacks a table or the version
\* of the release.
THEOREM HandlesAreSound == Spec => []HandleIsSound
<1>1. IInv => HandleIsSound
  BY DEF IInv
<1> QED BY <1>1, IInvHolds, PTL

\* A release does not open a file a later one had upgraded before.
THEOREM NewerFilesAreRefused == Spec => []NoNewerFile
<1>1. IInv => NoNewerFile
  BY DEF IInv, FloorInv, NoNewerFile
<1> QED BY <1>1, IInvHolds, PTL

================================================================================
