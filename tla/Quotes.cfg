SPECIFICATION Spec
CONSTANTS
    c1 = c1
    c2 = c2
    c3 = c3
    r1 = r1
    r2 = r2
    Court = {c1, c2, c3}
    Request = {r1, r2}
    Baskets <- Picks
    FirstRules <- Tariffs
    RuleChoices <- Changes
    Defaults = {1, 4}
    Percents = {6250, 10001}
    PerCent = 100
    FirstParameters <- AtFirst
    TTL = 2
    MaxTime = 2
    MaxVersions = 2
    MaxRuleChanges = 1
INVARIANTS
    TypeOK
    BehindOnlyByOvertaking
    MostSpecificWins
    PreviewIsCharged
    FeeShared
PROPERTIES
    NeverOlderThanTTL
SYMMETRY Interchangeable
CHECK_DEADLOCK FALSE
