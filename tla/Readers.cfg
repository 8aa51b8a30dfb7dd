\* Bundles: two sessions, two claims, the first with any of ten texts; 37 foreign bundles;
\* frontmatter with every string of up to three characters.  Recall: two claims, three foreign
\* items, packs of one and two.  Scans: every surface, nine configurations, texts that fit the
\* window or not.
SPECIFICATION MCSpec
CONSTANTS
    s1 = s1
    s2 = s2
    x1 = x1
    x2 = x2
    c1 = c1
    c2 = c2
    d1 = d1
    d2 = d2
    d3 = d3
    Sessions <- TwoSessions
    Ids <- TwoIds
    Texts <- SomeTexts
    Foreign <- SomeForeign
    Requests <- SomeExports
    MaxTurns = 4
    MaxCandidates = 2
    Claims <- TwoClaims
    Columns <- RepoAndGlobal
    Content <- Mixed
    Items <- SomeItems
    Recalls <- SomeRecalls
    Scans <- SomeScans
    Values <- SomeValues
    Nesting <- SomeNesting
    Fronts <- SomeFronts
    MaxDepth = 64
SYMMETRY Symmetry
INVARIANTS
    ABundleSurvives
    ProposedOnce
    ReportIsHonest
    RawIsQuarantined
    ReadsBackWhatItWrote
    PackIsVetted
    NothingUnsafeIsHandedOver
    OmissionsAreAnnounced
    UnscannedIsNotClean
    MaskIsExact
