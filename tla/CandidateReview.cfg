\* Two sessions contending for one candidate and two claims, with fairness.
SPECIFICATION FairSpec
CONSTANTS
    s1 = s1
    s2 = s2
    c1 = c1
    k1 = k1
    k2 = k2
    Sessions <- MCSessions
    Candidates <- OneCandidate
    Claims <- MCClaims
    NoSession = NoSession
    NoCandidate = NoCandidate
    NoClaim = NoClaim
INVARIANTS
    TypeOK
    OneClaimPerCandidate
    RiskWasAccepted
PROPERTIES
    TurnedDownStaysDown
    ImplementsGate
    CallsReturn
