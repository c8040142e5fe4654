\* Two pushes whose runs and index jobs overlap in every way, one fault.
SPECIFICATION IndexSpec
CONSTANTS
    Suffix = {"", "date"}
    NoSuffix = ""
    Absent = Absent
    Base = {"arch", "toolchain"}
    Driver = {"driver"}
    Soc = {"soc"}
    Integration = {"integration"}
    Chip = {"chip1", "chip2", "new"}
    Inherits <- MCInherits
    Uses <- MCUses
    Pushes <- MCPushes
    FirstTree <- MCFirstTree
    NewVersion <- MCNewVersion
    Source = {"cli"}
    Outages = {{}, {"cli"}}
    MaxPushes = 2
    MaxCommits = 6
    MaxFaults = 1
    NoRun = NoRun
    Done = Done
    Failed = Failed
    Never = Never
    Dispatched = {}
    Silences <- MCSilences
    NoJob = NoJob
    NoCopy = NoCopy
CHECK_DEADLOCK FALSE
INVARIANTS
    TypeOK
    QuietMainIsReleased
    HighestBumpWins
    QuietIndexIsCurrent
PROPERTIES
    NothingRegresses
    IndexOnlyGrows
