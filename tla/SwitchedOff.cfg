SPECIFICATION HSpec
CONSTANTS
    ann = ann
    r1 = r1
    r2 = r2
    User = {ann}
    Request = {r1}
    Password = {"first", "second"}
    FirstPassword = "first"
    NoPassword = "none"
    Operation <- Anyone
    MaxLinks = 2
    MaxTokens = 1
INVARIANTS
    SuspendedStaysOff
CHECK_DEADLOCK FALSE
