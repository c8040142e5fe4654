\* Migration of the legacy files, legacy results, the "main" purge; two
\* versions with two toolchains.
SPECIFICATION Spec
CONSTANTS
    Chip = {"c1"}
    Version = {"v1", "v2"}
    Toolchain = {"t1", "t2"}
    Software = {s1, main}
    MainSoftware = {main}
    Hash <- MCHash
    MaxHash = 2
    VersionOf <- TwoVersionOf
    ToolchainOf <- TwoToolchainOf
    DefaultVersion = "v1"
    File = {f1}
    Inputs <- LegacyInputs
    LegacyMatrices <- MainMatrices
    LegacyStates <- ParkedStates
    Follows <- AnyChange
    Counted <- AllOutcomes
    MaxResults = 2
    MaxFaults = 1
    MaxClock = 1
    NoHash = NoHash
    NoVersion = NoVersion
    NoRow = NoRow
    NoFile = NoFile
    Torn = Torn
INVARIANTS
    MatrixInSync
    StateInSync
    PublishedWasProven
    ParkedExcludesVerified
