SPECIFICATION Spec
CONSTANTS
    Rules <- MCRules
    Patterns <- MCPatterns
    Hash <- MCHash
    Keys <- MCKeys
    Points <- MCPoints
    Days <- MCDays
    I64Min <- MCI64Min
    Nonces <- MCNonces
    PowBits <- MCPowBits
    Submissions <- MCSubmissions
    Queries <- MCQueries
    NoRow = NoRow
    NoHandler = NoHandler
    k1 = k1
    k2 = k2
    k3 = k3
    h1 = h1
    h2 = h2
    Handlers = {h1, h2}
    POW_DIFFICULTY_BITS = 1
    DefaultLimit = 2
    GlobalBurst = 2
    KeyBurst = 2
    GlobalRefill = 1
    MaxTicks = 0
    MaxCrashes = 1
SYMMETRY HandlerSymmetry
INVARIANTS TypeOK StoreMatchesClaims AckedIsDurable AnnouncedOncePerRow RowsAreGenuine
PROPERTY RefinesCorroboration
