-------------------------------- MODULE Flash --------------------------------
(***************************************************************************)
(* drivers/flash/esp_rom_spi/flash.c: writes in chunks after a blank check,*)
(* and erases by sector, through functions of the boot ROM.                *)
(*                                                                         *)
(* A cell is a word of four bytes: the unit of the blank check and of the  *)
(* alignment.  Addresses and lengths are counted in words, and wrap at     *)
(* Wrap as uint32_t and size_t do on this core; the driver refuses what is *)
(* not aligned.  The ROM and the flash chip are external: a ROM call may   *)
(* fail half-way, and a reset may cut it short.                            *)
(***************************************************************************)
EXTENDS Integers, FiniteSets

CONSTANTS
    Wrap,        \* 2^32 bytes, in words
    TotalSize,   \* CHIP_FLASH_TOTAL_SIZE, in words
    SectorSize,  \* CHIP_FLASH_MAX_SECTOR_SIZE, in words
    ChunkSize,   \* 256 bytes, in words: the most one ROM call writes
    Data,        \* what a write may put into a cell
    Writes       \* bound: the writes considered

CONSTANTS Blank, Unknown, Nothing

Cell     == 0 .. TotalSize - 1
SectorOf == [c \in Cell |-> c \div SectorSize]
Sector   == {SectorOf[c] : c \in Cell}
Content  == Data \cup {Blank, Unknown}

Request == [addr : 0 .. Wrap - 1, len : 0 .. Wrap - 1, data : Data]

\* What the bounds check takes for granted.
NoRequestWraps == \A r \in Writes : r.addr + r.len < Wrap

ASSUME FlashAssumption ==
    /\ Wrap \in Nat /\ TotalSize \in 1 .. Wrap - 1
    /\ SectorSize \in Nat \ {0} /\ ChunkSize \in Nat \ {0}
    /\ Writes \subseteq Request
    /\ Blank \notin Data /\ Unknown \notin Data /\ Blank # Unknown
    /\ Nothing \notin Content \cup Sector \cup [request : Request, done : Nat]

VARIABLES
    cells,       \* the flash, word by word
    writing,     \* the write under way, and how many words of it are done
    erasing,     \* the sector being erased
    vendorError, \* is s_last_vendor_error set
    stored       \* history: what successful writes have put where

flashVars == <<cells, writing, erasing, vendorError, stored>>

FlashIdle == writing = Nothing /\ erasing = Nothing

FlashInit ==
    /\ cells \in [Cell -> Content]
    /\ writing = Nothing
    /\ erasing = Nothing
    /\ vendorError = FALSE
    /\ stored = [c \in Cell |-> Nothing]

-----------------------------------------------------------------------------
(***************************************************************************)
(* The ROM and the chip.                                                   *)
(***************************************************************************)

\* Programming can only clear bits: over other contents it leaves neither.
Programmed(full, torn, d) ==
    [c \in Cell |-> CASE c \in torn -> Unknown
                      [] c \in full \ torn ->
                            IF cells[c] \in {Blank, d} THEN d ELSE Unknown
                      [] OTHER -> cells[c]]

CellsOf(s) == {c \in Cell : SectorOf[c] = s}

Erased(blank, torn) ==
    [c \in Cell |-> CASE c \in torn -> Unknown
                      [] c \in blank \ torn -> Blank
                      [] OTHER -> cells[c]]

\* The words of the next chunk; the offset wraps.
ChunkStart == (writing.request.addr + writing.done) % Wrap
ChunkLength ==
    LET remaining == writing.request.len - writing.done
    IN  IF remaining > ChunkSize THEN ChunkSize ELSE remaining

\* What a ROM write that stops half-way may leave: some of the words, in
\* order, and a word that is neither blank nor programmed.
CutChunk ==
    \E end \in ChunkStart .. ChunkStart + ChunkLength - 1 :
       \E torn \in {{}, {end}} :
          cells' = Programmed(ChunkStart .. end - 1, torn, writing.request.data)

\* An erase that stops half-way may leave any word of the sector as it was,
\* blank, or neither.
CutErase ==
    \E blank, torn \in SUBSET CellsOf(erasing) : cells' = Erased(blank, torn)

-----------------------------------------------------------------------------
(***************************************************************************)
(* The driver.                                                             *)
(***************************************************************************)

\* The words of a request that are in the flash; its addresses wrap.
RequestedWords(r) ==
    {c \in Cell : \/ r.addr <= c /\ c < r.addr + r.len
                  \/ c < r.addr + r.len - Wrap}

\* The guards of esp_flash_write: an empty request, the bounds check, whose
\* addition wraps, and the blank check, word by word, which this chip's build
\* compiles in (TOOB_FLASH_DISABLE_BLANK_CHECK is not defined).  What it reads
\* outside the flash may look blank, too.
\* Mutant: the blank check is compiled out.
PassesChecks_NoBlankCheck(r) ==
    /\ r.len # 0
    /\ (r.addr + r.len) % Wrap <= TotalSize

PassesChecks(r) ==
    /\ r.len # 0
    /\ (r.addr + r.len) % Wrap <= TotalSize
    /\ \A c \in RequestedWords(r) : cells[c] = Blank

BeginWrite(r) ==
    /\ FlashIdle
    /\ PassesChecks(r)
    /\ writing' = [request |-> r, done |-> 0]
    /\ UNCHANGED <<cells, erasing, vendorError, stored>>

\* One turn of the loop.  After the last the caller is told BOOT_OK.  Words
\* outside the flash are left out: what the ROM makes of them is unknown.
WriteChunk ==
    /\ writing # Nothing
    /\ LET r == writing.request
       IN  /\ cells' = Programmed(ChunkStart .. ChunkStart + ChunkLength - 1, {}, r.data)
           /\ IF writing.done + ChunkLength = r.len
              THEN /\ writing' = Nothing
                   /\ stored' = [c \in Cell |-> IF c \in RequestedWords(r)
                                                THEN r.data ELSE stored[c]]
              ELSE /\ writing' = [writing EXCEPT !.done = @ + ChunkLength]
                   /\ UNCHANGED stored
    /\ UNCHANGED <<erasing, vendorError>>

\* The caller is told BOOT_ERR_FLASH, and what was written stays.
WriteFails ==
    /\ writing # Nothing
    /\ vendorError' = TRUE
    /\ CutChunk
    /\ writing' = Nothing
    /\ UNCHANGED <<erasing, stored>>

\* Any address but that of a sector's first word is refused.  The contents
\* are given up as soon as the erase begins.
BeginErase(s) ==
    /\ FlashIdle
    /\ erasing' = s
    /\ stored' = [c \in Cell |-> IF c \in CellsOf(s) THEN Nothing ELSE stored[c]]
    /\ UNCHANGED <<cells, writing, vendorError>>

EndErase ==
    /\ erasing # Nothing
    /\ cells' = Erased(CellsOf(erasing), {})
    /\ erasing' = Nothing
    /\ UNCHANGED <<writing, vendorError, stored>>

EraseFails ==
    /\ erasing # Nothing
    /\ vendorError' = TRUE
    /\ CutErase
    /\ erasing' = Nothing
    /\ UNCHANGED <<writing, stored>>

\* esp_flash_init, and the clearing of BSS before it.
ForgetVendorError ==
    /\ vendorError' = FALSE
    /\ UNCHANGED <<cells, writing, erasing, stored>>

\* The ROM refuses to unlock the flash.
FlashStaysLocked ==
    /\ vendorError' = TRUE
    /\ UNCHANGED <<cells, writing, erasing, stored>>

\* esp_flash_get_vendor_error: clear on read.
GetVendorError ==
    /\ vendorError
    /\ vendorError' = FALSE
    /\ UNCHANGED <<cells, writing, erasing, stored>>

\* A reset: the driver is gone, in whatever it was doing.
FlashCut ==
    /\ CASE writing # Nothing -> CutChunk
         [] erasing # Nothing -> CutErase
         [] OTHER -> UNCHANGED cells
    /\ writing' = Nothing
    /\ erasing' = Nothing
    /\ UNCHANGED <<vendorError, stored>>

FlashCall ==
    \/ \E r \in Writes : BeginWrite(r)
    \/ \E s \in Sector : BeginErase(s)
    \/ GetVendorError

FlashStep == WriteChunk \/ WriteFails \/ EndErase \/ EraseFails

FlashNext ==
    FlashCall \/ FlashStep \/ ForgetVendorError \/ FlashStaysLocked \/ FlashCut

FlashSpec == FlashInit /\ [][FlashNext]_flashVars

-----------------------------------------------------------------------------
(***************************************************************************)
(* Properties.                                                             *)
(***************************************************************************)

FlashTypeOK ==
    /\ cells \in [Cell -> Content]
    /\ writing \in [request : Writes, done : Nat] \cup {Nothing}
    /\ erasing \in Sector \cup {Nothing}
    /\ vendorError \in BOOLEAN
    /\ stored \in [Cell -> Data \cup {Nothing}]

\* What a write that returned BOOT_OK has put into the flash stays there
\* until its sector is erased: through later writes to it or beside it,
\* through ROM calls that fail half-way, and through resets.
StoredStays == \A c \in Cell : stored[c] # Nothing => cells[c] = stored[c]

\* The driver keeps the rules of its medium: see NorFlash.  This is so as long
\* as no address of a request wraps (see TargetIsErased).
Medium == INSTANCE NorFlash WITH medium <- cells

KeepsTheRules == Medium!Spec
=============================================================================
