CONSTANTS
    Programs = {p1}
    Callers = {p1}
    Slots = {1, 2}
    Accounts = {blank, a1, a2}
    Blank = blank
    Account = a1
    Folders = {inbox, work}
    ScriptNames = {"thundercrab"}
    Scripts = {"s1", "s2"}
    NoName = NoName
    NoScript = NoScript
    Invocations <- MCInvocations
    MaxEvents = 3
SPECIFICATION Spec
INVARIANTS
    TypeOK
    InStep
    PushIsHonest
    ExitIsHonest
    AnsweredListIsWhole
    OneAttempt
    ShownIsCurrent
PROPERTIES
    CrabExits
    AttemptsEnd
CHECK_DEADLOCK FALSE
