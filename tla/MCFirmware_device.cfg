\* Start-up, watchdog, flash and confirm drivers with resets at any moment.
SPECIFICATION FairSpec
CONSTANTS
    Dogs = {"TIMG0", "SWD"}
    TimeoutMs = 1
    RegisterMax = 8
    Normal = 2
    Long = 3
    Junk <- MCJunk
    Unread = Unread
    Wrap = 8
    TotalSize = 2
    SectorSize = 2
    ChunkSize = 1
    A = A
    Data = {A}
    Writes <- MCWrites
    Blank = Blank
    Unknown = Unknown
    Nothing = Nothing
    a = a
    b = b
    Nonce <- MCNonce
    Zero = Zero
    Lost = Lost
    MaxOwed = 1
    NoCheck = NoCheck
INVARIANTS
    TypeOK
    GuardedByItsOwnDog
    ReasonIsCurrent
    StoredStays
    NoReplay
PROPERTIES
    KeepsTheRules
    HangEndsInReset
