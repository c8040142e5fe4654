\* A crash between the commit and the export.
SPECIFICATION Spec
CONSTANTS
    Chip = {"c1"}
    Version = {"v1"}
    Toolchain = {"t1"}
    Software = {s1}
    MainSoftware = {}
    Hash <- MCHash
    MaxHash = 2
    VersionOf <- OneVersionOf
    ToolchainOf <- OneToolchainOf
    DefaultVersion = "v1"
    File = {f1, f2}
    Inputs <- ValidInputs
    LegacyMatrices <- NoLegacy
    LegacyStates <- NoLegacy
    Follows <- NoChange
    Counted <- AllOutcomes
    MaxResults = 3
    MaxFaults = 1
    MaxClock = 0
    NoHash = NoHash
    NoVersion = NoVersion
    NoRow = NoRow
    NoFile = NoFile
    Torn = Torn
INVARIANT
    FailureIsNotPublic
