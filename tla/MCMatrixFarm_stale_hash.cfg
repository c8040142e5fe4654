\* The environment changes to one whose hash sorts lower.
SPECIFICATION FarmSpec
CONSTANTS
    Chip = {"c1"}
    Version = {"v1"}
    Toolchain = {"t1"}
    Software = {"s1", "s2"}
    MainSoftware = {}
    Hash <- MCHash
    MaxHash = 2
    VersionOf <- OneVersionOf
    ToolchainOf <- OneToolchainOf
    DefaultVersion = "v1"
    File = {f1}
    Inputs <- Everything
    LegacyMatrices <- NoLegacy
    LegacyStates <- NoLegacy
    Follows <- Inversion
    Counted <- AllOutcomes
    MaxResults = 3
    MaxFaults = 0
    MaxClock = 0
    Offered = {"s1", "s2"}
    BelowMinimum = {}
    Rank <- MCRank
    Cap = 1
    Batch = 2
    InfraWindow = 1
    ParkWindow = 1
    NoHash = NoHash
    NoVersion = NoVersion
    NoRow = NoRow
    NoFile = NoFile
    Torn = Torn
INVARIANT
    NewestHashIsPublished
