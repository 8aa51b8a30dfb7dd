\* One session: a page that is added a second time before it is filed.
SPECIFICATION Spec
CONSTANTS
    s1 = s1
    s2 = s2
    c1 = c1
    c2 = c2
    note = note
    sessions = sessions
    web = web
    NoFile = NoFile
    NoSession = NoSession
    Sessions <- OneSession
    Contents <- TwoContents
    Names <- OneName
    Buckets <- TwoBuckets
    MaxFiles = 2
    MaxDrops = 0
PROPERTIES
    RefusedAddKeepsEvidence
