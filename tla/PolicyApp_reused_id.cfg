\* The selected id taken again by another user.
SPECIFICATION AppSpec
CONSTANTS
    Users = {alice, bob}
    NoUser = NoUser
    Names <- MCNames
    Copy <- MCCopy
    Inputs = {x}
    Sessions = {s1, s2}
    NoChoice = NoChoice
    SerialCallbacks = TRUE
    FastReruns = FALSE
    Hands = TRUE
    MaxBirths = 2
    MaxVersions = 2
    MaxClock = 0
INVARIANT NeverSelectsAnothers
