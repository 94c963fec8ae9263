\* A reset fails between the new password and its token.
SPECIFICATION AuthSpec
CONSTANTS
    Browsers = {b1, b2}
    Emails = {e1, e2}
    Passwords = {p1, p2}
    Stranger = Stranger
    Guest = Guest
    NoCopy = NoCopy
    Serial = TRUE
    Ttl = 1
    MaxUsers = 1
    MaxLinks = 2
    MaxNow = 2
    MaxFaults = 1
INVARIANT LinkUsedOnce
SYMMETRY MCSymmetry
CHECK_DEADLOCK FALSE
