\* Callbacks of different sessions do not overlap.
SPECIFICATION AppSpec
CONSTANTS
    Users = {alice, bob}
    NoUser = NoUser
    Names <- MCNames
    Copy <- MCCopy
    Inputs = {x}
    Sessions = {s1, s2}
    NoChoice = NoChoice
    SerialCallbacks = TRUE
    FastReruns = TRUE
    Hands = FALSE
    MaxBirths = 2
    MaxVersions = 2
    MaxClock = 1
INVARIANTS
    AppTypeOK
    GuestChoiceUnowned
PROPERTIES
    OwnerOnlyMutation
    NewModelsStamped
    StoreSpec
SYMMETRY MCSymmetry
