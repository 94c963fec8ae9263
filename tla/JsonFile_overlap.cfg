\* The calls of two threads overlap.
SPECIFICATION LiveFileSpec
CONSTANTS
    Threads = {t1, t2}
    Readers = {r1}
    Inodes = {i1, i2, i3, i4}
    NoFile = NoFile
    Serial = FALSE
    MaxCalls = 3
    MaxCrashes = 1
PROPERTY CallsEnd
CHECK_DEADLOCK FALSE
