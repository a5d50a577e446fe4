SPECIFICATION Spec
CONSTANTS
    ann = ann
    r1 = r1
    r2 = r2
    User = {ann}
    Request = {r1, r2}
    Password = {"first", "second"}
    FirstPassword = "first"
    NoPassword = "none"
    Operation <- Anyone
    MaxLinks = 2
    MaxTokens = 3
SYMMETRY Interchangeable
INVARIANTS
    TypeOK
    OneSuccessor
    SessionsAreEarned
PROPERTIES
    LinkPaysForChange
    QuietSignOutIsTotal
    DevicesEndForGood
CHECK_DEADLOCK FALSE
