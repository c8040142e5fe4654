-------------------------------- MODULE Boot --------------------------------
(***************************************************************************)
(* Start-up of an ESP32-C6 and its watchdogs: chips/esp32c6/startup.c and  *)
(* chip_platform.c, drivers/wdt/esp_rwdt_with_swd/wdt.c,                   *)
(* drivers/clock/esp_systimer/reset_reason.c, arch/riscv32/arch_trap.c.    *)
(*                                                                         *)
(* The watchdogs are hardware: an armed one counts on whatever the core    *)
(* does, and resets it.  After a reset the boot ROM may have left any of   *)
(* them armed.  The bootloader's core (boot_main, boot_panic,              *)
(* toob_ecc_trap) and the operating system are external.                   *)
(***************************************************************************)
EXTENDS Integers, FiniteSets

CONSTANTS
    Dogs,        \* the watchdogs: TIMG0, TIMG1, the RTC and the super watchdog
    TimeoutMs,   \* BOOT_WDT_TIMEOUT_MS
    RegisterMax, \* 2^32, where a register wraps
    Normal, Long, \* prescalers: 40000, and 0xFFFF while suspended
    Junk         \* bound: what memory may hold when the power comes up

CONSTANTS Unread

\* What start-up does next, in this order; the core: boot_main or boot_panic;
\* and how it ends.
StartUp == {"sterilize", "bss", "flash", "wdt", "crypto"}
Place   == StartUp \cup {"core", "spin", "os"}

\* Three of the classes of causes that the driver tells apart, one code for
\* each; it treats brownouts and unknown codes in the same way.
Cause  == {"POWERON", "TG0WDT", "SW_SYS"}
Reason == {"POWER_ON", "WATCHDOG", "SOFTWARE"}

ReasonOf == [c \in Cause |-> CASE c = "POWERON" -> "POWER_ON"
                               [] c = "SW_SYS"  -> "SOFTWARE"
                               [] OTHER         -> "WATCHDOG"]

ASSUME BootAssumption ==
    /\ "TIMG0" \in Dogs
    /\ RegisterMax \in Nat /\ TimeoutMs \in Nat \ {0}
    /\ 2 * TimeoutMs < RegisterMax
    /\ Normal \in Nat \ {0} /\ Long \in Nat \ {0}
    /\ Unread \notin Reason
    /\ Junk # {}
    /\ Junk \subseteq [saved : {0, Normal}, reason : Reason \cup {Unread}]

VARIABLES
    place,     \* where the program is
    armed,     \* the watchdogs that are enabled
    prescaler, \* TIMG0: CONFIG1,
    limit,     \* CONFIG2,
    count,     \* and its ticks since it was fed, 0 while it is off
    saved,     \* s_saved_prescaler, in BSS
    cause,     \* the register that holds the cause of the last reset
    reason     \* s_cached and s_reason, in BSS

dog      == <<armed, prescaler, limit, count>>
bootVars == <<place, dog, saved, cause, reason>>

BootInit ==
    /\ place = "sterilize"
    /\ armed \in SUBSET Dogs
    /\ prescaler = 0 /\ limit = 0 /\ count = 0
    /\ cause = "POWERON"
    /\ \E j \in Junk : saved = j.saved /\ reason = j.reason

-----------------------------------------------------------------------------
(***************************************************************************)
(* _start and boot_platform_init.                                          *)
(***************************************************************************)

Goes(from, to) == place = from /\ place' = to

\* Mutant: the super watchdog is forgotten.
Sterilize_NotSwd ==
    /\ Goes("sterilize", "bss")
    /\ armed' = armed \cap {"SWD"}
    /\ UNCHANGED <<prescaler, limit, count, saved, cause, reason>>

\* The first steps of _start, to the one that installs the trap handler.
Sterilize ==
    /\ Goes("sterilize", "bss")
    /\ armed' = {}
    /\ UNCHANGED <<prescaler, limit, count, saved, cause, reason>>

\* Mutant: the cached reason survives.
ClearBss_KeepsReason ==
    /\ Goes("bss", "flash")
    /\ saved' = 0
    /\ UNCHANGED <<dog, cause, reason>>

ClearBss ==
    /\ Goes("bss", "flash")
    /\ saved' = 0
    /\ reason' = Unread
    /\ UNCHANGED <<dog, cause>>

\* The inits of the clock before this one, and of the confirm and console
\* drivers after the last one, change nothing of this state.
InitFlash == Goes("flash", "wdt") /\ UNCHANGED <<dog, saved, cause, reason>>

\* esp_rwdt_init: all dogs off, then TIMG0 with twice the timeout.
\* Mutant: the prescaler is not saved.
InitWdt_Unsaved ==
    /\ Goes("wdt", "crypto")
    /\ armed' = {"TIMG0"}
    /\ prescaler' = Normal
    /\ limit' = (TimeoutMs * 2) % RegisterMax
    /\ count' = 0
    /\ UNCHANGED <<saved, cause, reason>>

InitWdt ==
    /\ Goes("wdt", "crypto")
    /\ armed' = {"TIMG0"}
    /\ prescaler' = Normal
    /\ limit' = (TimeoutMs * 2) % RegisterMax
    /\ count' = 0
    /\ saved' = Normal
    /\ UNCHANGED <<cause, reason>>

InitCrypto == Goes("crypto", "core") /\ UNCHANGED <<dog, saved, cause, reason>>

\* A mandatory part fails: boot_panic, which does not return.  That it may
\* here, as boot_main does, only adds behaviours.
InitFails(part) ==
    /\ part \in {"flash", "crypto"}
    /\ Goes(part, "core")
    /\ UNCHANGED <<dog, saved, cause, reason>>

\* boot_main returns; the rest of _start.
CoreReturns ==
    /\ Goes("core", "os") \/ Goes("core", "spin")
    /\ UNCHANGED <<dog, saved, cause, reason>>

\* An exception that is no access fault, once the handler is installed.
TrapsAreInstalled == place \in Place \ {"sterilize", "spin", "os"}

Trap ==
    /\ TrapsAreInstalled
    /\ place' = "spin"
    /\ UNCHANGED <<dog, saved, cause, reason>>

-----------------------------------------------------------------------------
(***************************************************************************)
(* The watchdog driver and the reset reason, called by the core.           *)
(***************************************************************************)

Kick ==
    /\ count' = 0
    /\ UNCHANGED <<place, armed, prescaler, limit, saved, cause, reason>>

\* Mutant: it saves the prescaler it finds, also on a second suspend.
Suspend_SavesAgain ==
    /\ saved' = prescaler
    /\ prescaler' = Long
    /\ count' = 0
    /\ UNCHANGED <<place, armed, limit, cause, reason>>

Suspend ==
    /\ prescaler' = Long
    /\ count' = 0
    /\ UNCHANGED <<place, armed, limit, saved, cause, reason>>

Resume ==
    /\ prescaler' = saved
    /\ count' = 0
    /\ UNCHANGED <<place, armed, limit, saved, cause, reason>>

Deinit ==
    /\ armed' = armed \ {"TIMG0"}
    /\ count' = 0
    /\ UNCHANGED <<place, prescaler, limit, saved, cause, reason>>

GetResetReason ==
    /\ reason = Unread
    /\ reason' = ReasonOf[cause]
    /\ UNCHANGED <<place, dog, saved, cause>>

BootCall == Kick \/ Suspend \/ Resume \/ Deinit \/ GetResetReason

-----------------------------------------------------------------------------
(***************************************************************************)
(* The hardware.                                                           *)
(***************************************************************************)

\* A prescaler of zero is outside what the hardware defines: the worst it
\* can do is to stop the count.
Tick ==
    /\ "TIMG0" \in armed /\ place # "sterilize"
    /\ prescaler # 0
    /\ count < limit
    /\ count' = count + 1
    /\ UNCHANGED <<place, armed, prescaler, limit, saved, cause, reason>>

\* A reset.  Memory survives it, unless it comes with the power; the boot ROM
\* runs, and may arm watchdogs as it likes.
Restart(c) ==
    /\ place' = "sterilize"
    /\ armed' \in SUBSET Dogs
    /\ prescaler' = 0 /\ limit' = 0 /\ count' = 0
    /\ cause' = c
    /\ IF c = "POWERON"
       THEN \E j \in Junk : saved' = j.saved /\ reason' = j.reason
       ELSE UNCHANGED <<saved, reason>>

\* TIMG0 as this bootloader configured it, and what the boot ROM left armed.
DogBites ==
    /\ "TIMG0" \in armed /\ place # "sterilize"
    /\ prescaler # 0
    /\ count >= limit
    /\ Restart("TG0WDT")

OldDogBites(d) ==
    /\ d \in armed
    /\ place = "sterilize" \/ d # "TIMG0"
    /\ Restart("TG0WDT")

-----------------------------------------------------------------------------
(***************************************************************************)
(* Properties.                                                             *)
(***************************************************************************)

BootTypeOK ==
    /\ place \in Place
    /\ armed \subseteq Dogs
    /\ prescaler \in Nat /\ limit \in Nat /\ count \in Nat
    /\ saved \in {0, Normal}
    /\ cause \in Cause
    /\ reason \in Reason \cup {Unread}

\* From the init of the watchdog on, start-up runs under TIMG0 and no other
\* watchdog; and TIMG0, once armed, is a working one whatever suspends and
\* resumes come in any order: it runs at a rate the driver chose, and its
\* limit is the timeout with the margin, not a wrapped one.
GuardedByItsOwnDog ==
    /\ place = "crypto" => armed = {"TIMG0"}
    /\ place # "sterilize" =>
          /\ armed \subseteq {"TIMG0"}
          /\ "TIMG0" \in armed =>
                prescaler \in {Normal, Long} /\ limit >= TimeoutMs

\* The reset reason a boot reports is that of the reset it came from, not the
\* cached one of an earlier boot.
ReasonIsCurrent ==
    place \in {"core", "os"} /\ reason # Unread
        => reason = ReasonOf[cause]
=============================================================================
