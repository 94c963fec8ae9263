\* The provider calls of two browsers overlap.
SPECIFICATION AuthSpec
CONSTANTS
    Browsers = {b1, b2}
    Emails = {e1}
    Passwords = {p1}
    Stranger = Stranger
    Guest = Guest
    NoCopy = NoCopy
    Serial = FALSE
    Ttl = 1
    MaxUsers = 2
    MaxLinks = 2
    MaxNow = 2
    MaxFaults = 0
INVARIANT EmailsUnique
PROPERTY AcceptedInTime
SYMMETRY MCSymmetry
CHECK_DEADLOCK FALSE
