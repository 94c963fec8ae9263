\* One provider call at a time, failures anywhere.
SPECIFICATION AuthSpec
CONSTANTS
    Browsers = {b1, b2}
    Emails = {e1, e2}
    Passwords = {p1, p2}
    Stranger = Stranger
    Guest = Guest
    NoCopy = NoCopy
    Serial = TRUE
    Ttl = 1
    MaxUsers = 2
    MaxLinks = 2
    MaxNow = 0
    MaxFaults = 1
INVARIANTS
    AuthTypeOK
    LatestLinkOnly
    NoStrangersToken
    UsedOnceUnlessFaulty
    FormIsSignedInUsers
PROPERTIES
    PasswordChangedByOwner
    EmailChangedByOwner
    ImplementsProvider
SYMMETRY MCSymmetry
CHECK_DEADLOCK FALSE
