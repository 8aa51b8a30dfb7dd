\* Gathering: two sessions, three pages, two questions.  Librarian: two sources, one pair.
\* Orchestration: two processes, one model, two facts of telemetry.
\* Storage: an old database, one administrator, one user.
SPECIFICATION MCSpec
CONSTANTS
    w1 = w1
    w2 = w2
    u1 = u1
    u2 = u2
    u3 = u3
    k1 = k1
    k2 = k2
    k3 = k3
    q1 = q1
    q2 = q2
    cron = cron
    hand = hand
    pair = pair
    NoSession = NoSession
    boot = boot
    agent = agent
    m1 = m1
    o1 = o1
    o2 = o2
    NoModel = NoModel
    admin = admin
    other = other
    NoProc = NoProc
    Workers <- TwoWorkers
    NoWorker = NoWorker
    Questions = {q1}
    LintQuestions = {q2}
    Urls = {u1, u2, u3}
    Bookmarks = {u1}
    Page <- Pages
    Backend = "jina"
    Engine = "ddg"
    QueriesPerQuestion = 1
    FetchesPerQuestion = 1
    FetchesPerNight = 1
    MaxEntries = 2
    MaxAttempts = 3
    MaxEvents = 1
    Nights = 2
    Sources = {1, 2}
    Poison = {}
    Grade <- Grades
    Cases = {pair}
    Kind <- Contradiction
    Of <- OfTheSecond
    Librarians = {cron, hand}
    LibrarianRuns <- CronAndHand
    Retries = 1
    Accepts = {"plain"}
    MaxClaims = 2
    MaxTexts = 2
    MaxCrashes = 0
    Processes = {boot, agent}
    Runs <- Engines
    Models = {m1}
    Declared <- OneTier
    Telemetry <- TwoFacts
    Workloads <- SomeWork
    MaxRows = 3
    MaxSwaps = 1
    Procs = {admin, other}
    Commands <- Administration
    Latest = 3
    Old = 1
    MaxWrites = 1
    MaxEnds = 1
SYMMETRY Symmetry
INVARIANTS
    BudgetsHold
    ChargesMatchSources
    ParkedAtTheLimit
    ReportedIsStored
    FiledOncePerRacer
    DelegatesWithinItsRights
    NoHalfMigration
    RestoreDestroysNothing
PROPERTIES
    BackupIsCommitted
CHECK_DEADLOCK FALSE
