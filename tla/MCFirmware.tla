----------------------------- MODULE MCFirmware -----------------------------
(***************************************************************************)
(* An instance of Firmware for TLC: a flash of a few words, addresses that *)
(* wrap soon after its end, and nonces that share halves.                  *)
(***************************************************************************)
EXTENDS Firmware, FirmwareClaims

CONSTANTS a, b, A

\* Writes of one chunk and of several, overlapping each other; past the end;
\* of nothing.  And one whose addresses wrap.
Write(addr, len, data) == [addr |-> addr, len |-> len, data |-> data]

MCWrites == {Write(0, 2, A), Write(1, 1, A), Write(1, 6, A), Write(0, 0, A)}
WrappingWrites == {Write(7, 2, A)}

\* Cleared memory, and memory like that of an earlier boot.
MCJunk == {[saved |-> 0, reason |-> Unread], [saved |-> Normal, reason |-> "WATCHDOG"]}

\* Two nonces that share a half.
MCNonce == {<<a, b>>, <<a, a>>}
=============================================================================
