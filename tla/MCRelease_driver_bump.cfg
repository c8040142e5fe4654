\* A major bump of a driver does not reach its chip.
SPECIFICATION Spec
CONSTANTS
    Suffix = {"", "date"}
    NoSuffix = ""
    Absent = Absent
    Base = {"arch", "toolchain"}
    Driver = {"driver"}
    Soc = {"soc"}
    Integration = {"integration"}
    Chip = {"chip1", "chip2", "new"}
    Inherits <- MCInherits
    Uses <- MCUses
    Pushes <- DriverPushes
    FirstTree <- MCFirstTree
    NewVersion <- MCNewVersion
    Source = {"cli"}
    Outages = {{}}
    MaxPushes = 1
    MaxCommits = 0
    MaxFaults = 0
    NoRun = NoRun
    Done = Done
    Failed = Failed
    Never = Never
CHECK_DEADLOCK FALSE
INVARIANT
    DriversAreInherited
