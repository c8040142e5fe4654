\* One chip, two combinations, an old ledger of another environment.
SPECIFICATION FairFarmSpec
CONSTANTS
    Chip = {"c1"}
    Version = {"v1"}
    Toolchain = {"t1"}
    Software = {"s1", "s2"}
    MainSoftware = {}
    Hash <- MCHash
    MaxHash = 2
    VersionOf <- OneVersionOf
    ToolchainOf <- OneToolchainOf
    DefaultVersion = "v1"
    File = {f1, f2}
    Inputs <- ExceptInfra
    LegacyMatrices <- OldMatrix
    LegacyStates <- NoLegacy
    Follows <- Arrival
    Counted <- Failures
    MaxResults = 1
    MaxFaults = 0
    MaxClock = 1
    Offered = {"s1", "s2"}
    BelowMinimum = {}
    Rank <- MCRank
    Cap = 1
    Batch = 2
    InfraWindow = 1
    ParkWindow = 1
    NoHash = NoHash
    NoVersion = NoVersion
    NoRow = NoRow
    NoFile = NoFile
    Torn = Torn
INVARIANTS
    FarmTypeOK
PROPERTIES
    QueuesOnlyWhatIsOpen
    NothingForgotten
    EveryTargetIsTested
    FarmSettles
