\* A failure, clear_unverified, and the next call of the generator.
SPECIFICATION FarmSpec
CONSTANTS
    Chip = {"c1"}
    Version = {"v1"}
    Toolchain = {"t1"}
    Software = {"s1", "s2"}
    MainSoftware = {}
    Hash <- OneHash
    MaxHash = 2
    VersionOf <- OneVersionOf
    ToolchainOf <- OneToolchainOf
    DefaultVersion = "v1"
    File = {f1}
    Inputs <- Everything
    LegacyMatrices <- NoLegacy
    LegacyStates <- NoLegacy
    Follows <- NoChange
    Counted <- Failures
    MaxResults = 1
    MaxFaults = 0
    MaxClock = 0
    Offered = {"s1", "s2"}
    BelowMinimum = {}
    Rank <- MCRank
    Cap = 1
    Batch = 2
    InfraWindow = 1
    ParkWindow = 1
    NoHash = NoHash
    NoVersion = NoVersion
    NoRow = NoRow
    NoFile = NoFile
    Torn = Torn
PROPERTY
    SoftRetriggerRetests
