\* A human rejects a claim the gate has already read.
SPECIFICATION MCSpec
CONSTANTS
    s1 = s1
    s2 = s2
    clip = clip
    web = web
    asserts = asserts
    denies = denies
    p1 = p1
    k1 = k1
    e1 = e1
    NoSession = NoSession
    Sessions <- TwoSessions
    Sources <- ClipAndWeb
    Clips <- OnlyClip
    Texts <- Polarities
    Similar <- AllPairs
    Opposed <- OppositePairs
    MaxClaim = 2
    MaxFilings = 3
    PageClaims <- ClipAndCandidate
    Entities <- OneEntity
    About <- AboutIt
    From <- FromWeb
    Contrary <- OnePair
    MaxTurns = 5
PROPERTIES
    GateRespectsRejection
