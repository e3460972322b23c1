SPECIFICATION Spec
CONSTANTS
    Tasks = {t1, t2}
    NoTask = NoTask
    Folders = {inbox, work}
    Inbox = inbox
    NoFolder = NoFolder
    Messages = {m1, m2}
    Limits <- LastOne
    NoLimit = NoLimit
    MaxCalls = 3
    MaxMarks = 1
SYMMETRY Interchangeable
INVARIANTS TypeOK NeverLost OthersStayPut FetchIsRecent
