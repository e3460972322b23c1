CONSTANTS
    p1 = p1
    p2 = p2
    p3 = p3
    Processes = {p1, p2, p3}
    SCHEMA_VERSION <- MCSchemaVersion
    Tables <- MCTables
    MaxFaults = 2
SPECIFICATION Spec
INVARIANTS
    TypeOK
    VersionComesLast
    HandleIsSound
    NoNewerFile
PROPERTY
    OpensInTheEnd
CHECK_DEADLOCK FALSE
