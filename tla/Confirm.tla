------------------------------- MODULE Confirm -------------------------------
(***************************************************************************)
(* drivers/rtc/esp_rtc_mem/confirm.c: the operating system confirms a boot *)
(* by leaving a 64-bit nonce in memory that survives a reset; the          *)
(* bootloader checks it against the nonce it expects and zeroes it.        *)
(*                                                                         *)
(* The core has 32-bit registers: a 64-bit store is two stores, in the     *)
(* order the compiler chose, and a reset may come between them.  The       *)
(* operating system and the bootloader's core are external: the first      *)
(* writes nonces, the second says which one it expects.                    *)
(***************************************************************************)
EXTENDS Integers, FiniteSets

CONSTANTS
    Nonce,     \* the nonces of the instance: pairs of halves
    Zero,      \* a half that is zero
    Lost,      \* what is left of a half without power
    MaxOwed    \* bound: how many confirmations of a nonce may be pending

CONSTANT NoCheck

Position == 1 .. 2
Half     == {n[i] : n \in Nonce, i \in Position} \cup {Zero, Lost}
Cleared  == [i \in Position |-> Zero]

\* Nonces without a zero half, and unlike what lost power leaves behind.
Proper == {n \in Nonce : \A i \in Position : n[i] \notin {Zero, Lost}}

ASSUME ConfirmAssumption ==
    /\ Nonce \subseteq [Position -> Half]
    /\ MaxOwed \in Nat
    /\ Zero # Lost
    \* the core expects no nonce of zero: it would confirm cleared memory
    /\ Cleared \notin Nonce
    /\ NoCheck \notin Nonce \cup {Cleared}

VARIABLES
    nonce,     \* the 64-bit word at the start of LP_RAM
    checking,  \* the nonce being confirmed, Cleared for a plain clear
    toClear,   \* the halves still to be zeroed
    owed       \* history: how often each nonce was written, less how often
               \* check_ok answered true to it

confirmVars == <<nonce, checking, toClear, owed>>

ConfirmInit ==
    /\ nonce = [i \in Position |-> Lost]
    /\ checking = NoCheck
    /\ toClear = {}
    /\ owed = [n \in Nonce |-> 0]

\* The operating system confirms.
OsConfirms(n) ==
    /\ checking = NoCheck
    /\ owed[n] < MaxOwed
    /\ nonce' = n
    /\ owed' = [owed EXCEPT ![n] = @ + 1]
    /\ UNCHANGED <<checking, toClear>>

\* esp_confirm_check_ok on a match; on any other nonce it changes nothing.
\* Mutant: half of the nonce is enough.
CheckMatches_Half(n) ==
    /\ checking = NoCheck
    /\ nonce[1] = n[1]
    /\ checking' = n
    /\ toClear' = Position
    /\ UNCHANGED <<nonce, owed>>

CheckMatches(n) ==
    /\ checking = NoCheck
    /\ nonce = n
    /\ checking' = n
    /\ toClear' = Position
    /\ UNCHANGED <<nonce, owed>>

\* esp_confirm_clear
BeginClear ==
    /\ checking = NoCheck
    /\ checking' = Cleared
    /\ toClear' = Position
    /\ UNCHANGED <<nonce, owed>>

ClearHalf(i) ==
    /\ i \in toClear
    /\ nonce' = [nonce EXCEPT ![i] = Zero]
    /\ toClear' = toClear \ {i}
    /\ UNCHANGED <<checking, owed>>

\* The store does not take effect; the read-back is there for that.
ClearIsStuck(i) ==
    /\ i \in toClear
    /\ toClear' = toClear \ {i}
    /\ UNCHANGED <<nonce, checking, owed>>

\* Read back and answer.
Answer ==
    /\ checking # NoCheck
    /\ toClear = {}
    /\ owed' = IF checking \in Nonce /\ nonce = Cleared
               THEN [owed EXCEPT ![checking] = @ - 1] ELSE owed
    /\ checking' = NoCheck
    /\ UNCHANGED <<nonce, toClear>>

\* A reset: memory stays, unless power was lost.
ConfirmCut(powerLost) ==
    /\ nonce' = IF powerLost THEN [i \in Position |-> Lost] ELSE nonce
    /\ checking' = NoCheck
    /\ toClear' = {}
    /\ UNCHANGED owed

ConfirmCall == BeginClear \/ \E n \in Nonce : CheckMatches(n)

ConfirmStep == Answer \/ \E i \in Position : ClearHalf(i) \/ ClearIsStuck(i)

ConfirmNext ==
    \/ ConfirmCall \/ ConfirmStep
    \/ \E n \in Nonce : OsConfirms(n)
    \/ \E powerLost \in BOOLEAN : ConfirmCut(powerLost)

ConfirmSpec == ConfirmInit /\ [][ConfirmNext]_confirmVars

-----------------------------------------------------------------------------
(***************************************************************************)
(* Properties.                                                             *)
(***************************************************************************)

ConfirmTypeOK ==
    /\ nonce \in [Position -> Half]
    /\ checking \in Nonce \cup {Cleared, NoCheck}
    /\ toClear \subseteq Position
    /\ owed \in [Nonce -> Int]

\* A nonce confirms at most as many boots as the operating system confirmed
\* with it, whatever resets, torn stores and stores without effect come in
\* between, and whichever nonces are checked against it.  Only a nonce with a
\* zero half may be taken for another one that was half cleared.
NoReplay == \A n \in Proper : owed[n] >= 0
=============================================================================
