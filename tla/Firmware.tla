------------------------------ MODULE Firmware ------------------------------
(***************************************************************************)
(* The firmware of an ESP32-C6 in one piece: start-up and watchdogs        *)
(* (Boot), the flash driver (Flash) and the confirm driver (Confirm), as   *)
(* the bootloader's core uses them through the tables of chip_platform.c.  *)
(*                                                                         *)
(* There is one thread: a driver's call ends before the core makes the     *)
(* next one.  Traps, watchdogs and power come in at any moment, and a      *)
(* reset takes all drivers with it.                                        *)
(***************************************************************************)
EXTENDS Boot, Flash, Confirm

vars == <<bootVars, flashVars, confirmVars>>

Init == BootInit /\ FlashInit /\ ConfirmInit

\* The core runs, and no driver does.
CoreFree == place = "core" /\ FlashIdle /\ checking = NoCheck

StartUpStep ==
    \/ /\ Sterilize \/ InitWdt \/ InitCrypto \/ InitFails("crypto")
       /\ UNCHANGED <<flashVars, confirmVars>>
    \/ (ClearBss \/ InitFlash) /\ ForgetVendorError /\ UNCHANGED confirmVars
    \/ InitFails("flash") /\ FlashStaysLocked /\ UNCHANGED confirmVars

CoreStep ==
    /\ CoreFree
    /\ \/ (BootCall \/ CoreReturns) /\ UNCHANGED <<flashVars, confirmVars>>
       \/ FlashCall /\ UNCHANGED <<bootVars, confirmVars>>
       \/ ConfirmCall /\ UNCHANGED <<bootVars, flashVars>>

DriverStep ==
    /\ place = "core"
    /\ \/ FlashStep /\ UNCHANGED <<bootVars, confirmVars>>
       \/ ConfirmStep /\ UNCHANGED <<bootVars, flashVars>>

\* The operating system feeds the watchdog it was handed, or turns it off.
OsStep ==
    /\ place = "os"
    /\ \/ (Kick \/ Deinit) /\ UNCHANGED <<flashVars, confirmVars>>
       \/ \E n \in Nonce : OsConfirms(n) /\ UNCHANGED <<bootVars, flashVars>>

\* A watchdog; the core or the operating system asks for a reset; a load or
\* store faults, as that of a blank check outside the flash may, and
\* toob_ecc_trap resets; the power comes back.
Resets(c) == Restart(c) /\ FlashCut /\ ConfirmCut(c = "POWERON")

Reset ==
    \/ (DogBites \/ \E d \in Dogs : OldDogBites(d)) /\ FlashCut /\ ConfirmCut(FALSE)
    \/ place \in {"core", "os"} /\ Resets("SW_SYS")
    \/ TrapsAreInstalled /\ Resets("TG0WDT")
    \/ Resets("POWERON")

\* The handler never goes back to what the exception interrupted.
Hardware ==
    \/ Trap /\ FlashCut /\ ConfirmCut(FALSE)
    \/ Tick /\ UNCHANGED <<flashVars, confirmVars>>

Next == StartUpStep \/ CoreStep \/ DriverStep \/ OsStep \/ Hardware \/ Reset

Spec == Init /\ [][Next]_vars

\* The clock of the watchdog does not stop, and it bites when its time has
\* come; nothing is assumed of the core, the system or the power.
FairSpec ==
    /\ Spec
    /\ WF_vars(Tick /\ UNCHANGED <<flashVars, confirmVars>>)
    /\ WF_vars(DogBites /\ FlashCut /\ ConfirmCut(FALSE))

-----------------------------------------------------------------------------
(***************************************************************************)
(* Properties.                                                             *)
(***************************************************************************)

TypeOK == BootTypeOK /\ FlashTypeOK /\ ConfirmTypeOK

\* A trap, or a boot_main that returns, is followed by a reset if the
\* watchdog is armed, suspended or not.  Between the first step of start-up
\* and the init of the watchdog, and after the core has turned it off, there
\* is nothing to rely on: the handler then waits for ever.
HangEndsInReset == (place = "spin" /\ "TIMG0" \in armed) ~> place = "sterilize"
=============================================================================
