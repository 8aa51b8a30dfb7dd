\* One process seeds, another delegates, somebody swaps the preferred model.
SPECIFICATION Spec
CONSTANTS
    boot = boot
    agent = agent
    m1 = m1
    m2 = m2
    NoModel = NoModel
    Sessions = {boot, agent}
    Runs <- SeedAndDelegate
    Models = {m1, m2}
    Declared <- OneTier
    Telemetry <- Nothing
    Workloads <- Pinning
    MaxRows = 2
    MaxSwaps = 1
INVARIANTS
    PinnedWasPromoted
CHECK_DEADLOCK FALSE
