---------------------------- MODULE FirmwareClaims ----------------------------
(***************************************************************************)
(* What the comments say of the drivers and the code does not do.          *)
(***************************************************************************)
EXTENDS Firmware

\* flash.c:11, "Write: MUST check alignment, MUST blank-check before write",
\* and :98, "Verify target region is erased (all bytes == 0xFF)": when the
\* first chunk of a write is due, every word of its target is a word of the
\* flash, and blank.  The bounds check adds in 32 bits: a request whose end
\* wraps passes it, and words outside the flash are read in its place.
TargetIsErased ==
    writing # Nothing /\ writing.done = 0 =>
        \A k \in 0 .. writing.request.len - 1 :
            LET c == writing.request.addr + k
            IN  c \in Cell /\ cells[c] = Blank
=============================================================================
