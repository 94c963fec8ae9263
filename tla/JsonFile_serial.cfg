\* One call at a time, crashes and failed writes anywhere.
SPECIFICATION FileSpec
CONSTANTS
    Threads = {t1, t2}
    Readers = {r1}
    Inodes = {i1, i2, i3, i4}
    NoFile = NoFile
    Serial = TRUE
    MaxCalls = 4
    MaxCrashes = 2
INVARIANTS
    FileTypeOK
    NeverTorn
    ReportedIsStored
    AnswersAreWhole
PROPERTY FileImplementsDocument
CHECK_DEADLOCK FALSE
