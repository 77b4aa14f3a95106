SPECIFICATION Spec
CONSTANTS
    Gens <- TwoGens
    Jobs <- AllJobs
    KeyIds <- KeyIds3
    CertIds <- CertIds5
    None = None
    Torn = Torn
    MaxEdits = 1
    MaxEnds = 1
    MaxBusy = 2
INVARIANTS
    TypeOK
    PairMatches
    AccountMatches
    StaleOnlyIfDiscarded
PROPERTIES
    ClosedStaysClosed
