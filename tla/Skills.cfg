\* One command at a time with two skills, and two sessions together with one.
SPECIFICATION MCSpec
CONSTANTS
    s1 = s1
    s2 = s2
    one = one
    other = other
    first = first
    NoBody = NoBody
    Sessions <- TwoSessions
    Skills <- TwoSkills
    Bodies <- OneBody
    MaxClaim = 1
    MaxFacts = 2
    MaxVersions = 2
SYMMETRY Symmetry
INVARIANTS
    TypeOK
    DraftsStayOffDisk
    DriftIsReported
PROPERTIES
    RevertsAreTrue
    OnlyTruthIsApproved
