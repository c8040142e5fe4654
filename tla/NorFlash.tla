------------------------------ MODULE NorFlash ------------------------------
(***************************************************************************)
(* What callers of the flash driver may rely on, whatever it does inside   *)
(* and whenever it is cut short: a cell that holds something is changed by *)
(* nothing but an erase of its sector.  Programming finds cells blank and  *)
(* leaves each of them blank, programmed, or half-programmed.              *)
(***************************************************************************)
CONSTANTS Cell, Sector, SectorOf, Data, Blank, Unknown, Nothing

VARIABLES
    medium,   \* the contents of the cells
    erasing   \* the sector whose erase was asked for, or Nothing

rules == <<medium, erasing>>

Contents == [Cell -> Data \cup {Blank, Unknown}]

Init == medium \in Contents /\ erasing = Nothing

Program(full, torn, d) ==
    /\ erasing = Nothing
    /\ \A c \in full \cup torn : medium[c] = Blank
    /\ medium' = [c \in Cell |-> IF c \in full THEN d
                                 ELSE IF c \in torn THEN Unknown
                                 ELSE medium[c]]
    /\ UNCHANGED erasing

AskErase(s) ==
    /\ erasing = Nothing
    /\ erasing' = s
    /\ UNCHANGED medium

\* An erase that fails or is interrupted may leave any cell of its sector
\* as it was, blank, or neither; no cell elsewhere changes.
Erase ==
    /\ erasing # Nothing
    /\ medium' \in Contents
    /\ \A c \in Cell : IF SectorOf[c] = erasing
                       THEN medium'[c] \in {medium[c], Blank, Unknown}
                       ELSE medium'[c] = medium[c]
    /\ erasing' = Nothing

Next ==
    \/ \E full, torn \in SUBSET Cell, d \in Data : Program(full, torn, d)
    \/ \E s \in Sector : AskErase(s)
    \/ Erase

Spec == Init /\ [][Next]_rules
=============================================================================
