\* Two sessions, two artifacts that may share a name, two buckets.
SPECIFICATION Spec
CONSTANTS
    s1 = s1
    s2 = s2
    c1 = c1
    c2 = c2
    note = note
    sessions = sessions
    web = web
    NoFile = NoFile
    NoSession = NoSession
    Sessions <- TwoSessions
    Contents <- TwoContents
    Names <- OneName
    Buckets <- TwoBuckets
    MaxFiles = 2
    MaxDrops = 1
SYMMETRY Symmetry
INVARIANTS
    TypeOK
    NothingLost
PROPERTIES
    FiledIsVerified
