\* A click on the old page before the redraw.
SPECIFICATION AppSpec
CONSTANTS
    Users = {alice, bob}
    NoUser = NoUser
    Names <- MCNames
    Copy <- MCCopy
    Inputs = {x}
    Sessions = {s1, s2}
    NoChoice = NoChoice
    SerialCallbacks = TRUE
    FastReruns = TRUE
    Hands = TRUE
    MaxBirths = 2
    MaxVersions = 2
    MaxClock = 0
PROPERTY GuestCloneUnowned
