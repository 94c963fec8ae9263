\* Any caller of ModelStore, in any order, and hands in its file.  A store that
\* refuses its own file really stops: no call is a step until a hand mends it.
SPECIFICATION StoredSpec
CONSTANTS
    Users = {alice, blank}
    NoUser = NoUser
    Names <- MCNames
    Copy <- MCCopy
    Inputs = {x, floatYears}
    MaxBirths = 3
    MaxVersions = 2
    MaxClock = 1
    Absent = Absent
    Junk = Junk
    NoFile = NoFile
    NoBackup = NoBackup
    Unchecked = {floatYears}
    Blanks = {blank}
INVARIANTS
    StoreTypeOK
    HistoryWellFormed
    IdAlwaysFree
    WrittenIsRead
    FileHasModels
PROPERTIES
    NothingOverwritten
    ImplementsStore

CHECK_DEADLOCK FALSE
