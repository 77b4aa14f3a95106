SPECIFICATION Spec
CONSTANTS
    p1 = p1
    p2 = p2
    s1 = s1
    s2 = s2
    r1 = r1
    a = a
    b = b
    good = good
    other = other
    bad = bad
    NoPort = NoPort
    Down = Down
    NoRules = NoRules
    Ports <- TwoPorts
    Settings <- TwoSettings
    RuleSets <- OneRuleSet
    Uids <- TwoUids
    Accounts <- BothAccounts
    Malformed <- NoneBad
    Faults <- FetchFaults
    MaxEdits = 2
PROPERTIES
    NotModifiedMeansCurrent
