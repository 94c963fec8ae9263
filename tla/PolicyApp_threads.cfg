\* The threads of the sessions interleave.
SPECIFICATION LiveAppSpec
CONSTANTS
    Users = {alice}
    NoUser = NoUser
    Names <- MCNames
    Copy <- MCCopy
    Inputs = {x}
    Sessions = {s1, s2}
    NoChoice = NoChoice
    SerialCallbacks = FALSE
    FastReruns = FALSE
    Hands = TRUE
    MaxBirths = 2
    MaxVersions = 2
    MaxClock = 0
PROPERTIES
    OwnerReplacedOrUnseen
    EveryClickSettles
