SPECIFICATION Spec
CONSTANTS
    Ids <- MCIds
    Domains <- MCDomains
    Names <- MCNames
    LowerCase <- MCLowerCase
    ProtectedFolders <- MCProtectedFolders
    ProtectedFlags <- MCProtectedFlags
    Messages <- MCMessages
    NoDomain = ""
    DerivedId <- MCDerivedId
    MinObservations = 2
    DominanceNum = 2
    DominanceDen = 3
    NoRule = NoRule
    Observations <- MCObservations
    OwnRules <- MCOwnRules
    WireRules <- MCWireRules
INVARIANTS UserRulesStand
