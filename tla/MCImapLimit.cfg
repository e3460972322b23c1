SPECIFICATION Spec
CONSTANTS
    Tasks = {t1, t2}
    NoTask = NoTask
    Folders = {inbox, work}
    Inbox = inbox
    NoFolder = NoFolder
    Messages = {m1, m2, m3}
    Limits <- MCLimits
    NoLimit = NoLimit
    MaxCalls = 2
    MaxMarks = 1
SYMMETRY Interchangeable
INVARIANTS FetchKeepsLimit
