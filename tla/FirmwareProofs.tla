--------------------------- MODULE FirmwareProofs ---------------------------
(***************************************************************************)
(* Proofs about the firmware: first the flash driver and the confirm       *)
(* driver, each by itself, for every size of flash, sector and chunk,      *)
(* every set of writes and every set of nonces; then the firmware, whose   *)
(* steps are steps of each driver, so that the drivers' theorems hold of   *)
(* it, and what remains, start-up and the watchdogs.                       *)
(*                                                                         *)
(* What the driver does to the flash is proved for requests whose end does *)
(* not wrap (NoRequestWraps): the others pass the bounds check, too, and   *)
(* of them it does not hold (see TargetIsErased).                          *)
(***************************************************************************)
EXTENDS Firmware, TLAPS


(***************************************************************************)
(* The flash driver.                                                       *)
(***************************************************************************)

\* What a write under way has done, and still has to do.
Ahead(w)  == {c \in RequestedWords(w.request) : c >= w.request.addr + w.done}
Behind(w) == {c \in RequestedWords(w.request) : c < w.request.addr + w.done}

WriteInv ==
    writing # Nothing =>
       /\ erasing = Nothing
       /\ writing.done < writing.request.len
       /\ \A c \in Ahead(writing) : cells[c] = Blank
       /\ \A c \in Behind(writing) : cells[c] = writing.request.data

EraseInv ==
    erasing # Nothing => \A c \in Cell : SectorOf[c] = erasing => stored[c] = Nothing

\* What the bounds check achieves when it does not wrap.
InsideInv ==
    writing # Nothing => writing.request.addr + writing.request.len <= TotalSize

FlashInv == FlashTypeOK /\ WriteInv /\ EraseInv /\ StoredStays /\ InsideInv

LEMMA WritingIsARequest ==
    ASSUME FlashTypeOK, writing # Nothing
    PROVE  /\ writing.request \in Writes
           /\ writing.request.addr \in Nat
           /\ writing.request.len \in Nat
           /\ writing.request.data \in Data
           /\ writing.done \in Nat
           /\ writing = [request |-> writing.request, done |-> writing.done]
BY FlashAssumption DEF FlashTypeOK, Request

LEMMA SizesAreNumbers ==
    /\ Wrap \in Nat /\ TotalSize \in Nat /\ ChunkSize \in Nat
    /\ TotalSize > 0 /\ ChunkSize > 0
BY FlashAssumption

LEMMA ContentsAreDistinct ==
    /\ Data \subseteq Content /\ Blank \in Content /\ Unknown \in Content
    /\ Nothing \notin Content /\ Nothing \notin Data /\ Blank \notin Data
    /\ \A s \in Sector : s # Nothing
    /\ \A w \in [request : Writes, done : Nat] : w # Nothing
BY FlashAssumption DEF Content

LEMMA ProgrammedIsContent ==
    ASSUME NEW full, NEW torn, NEW d \in Data, cells \in [Cell -> Content]
    PROVE  Programmed(full, torn, d) \in [Cell -> Content]
BY ContentsAreDistinct DEF Programmed

LEMMA ErasedIsContent ==
    ASSUME NEW blank, NEW torn, cells \in [Cell -> Content]
    PROVE  Erased(blank, torn) \in [Cell -> Content]
BY ContentsAreDistinct DEF Erased

\* The next chunk is not empty and does not reach past the request.
LEMMA ChunkIsSome ==
    ASSUME FlashTypeOK, writing # Nothing, writing.done < writing.request.len
    PROVE  /\ ChunkLength \in Nat /\ ChunkLength > 0
           /\ writing.done + ChunkLength <= writing.request.len
BY WritingIsARequest, SizesAreNumbers DEF ChunkLength

LEMMA ChunkFits ==
    ASSUME FlashInv, writing # Nothing
    PROVE  /\ ChunkLength \in Nat /\ ChunkLength > 0
           /\ writing.done + ChunkLength <= writing.request.len
           /\ ChunkStart \in Nat
           /\ ChunkStart .. ChunkStart + ChunkLength - 1 \subseteq Ahead(writing)
           /\ \A c \in Cell : c \in ChunkStart .. ChunkStart + ChunkLength - 1
                 <=> /\ c >= writing.request.addr + writing.done
                     /\ c < writing.request.addr + writing.done + ChunkLength
<1>2. writing.request.addr + writing.request.len <= TotalSize
  BY DEF FlashInv, InsideInv
<1>1. /\ ChunkLength \in Nat /\ ChunkLength > 0
      /\ writing.done + ChunkLength <= writing.request.len
      /\ ChunkStart = writing.request.addr + writing.done
      /\ ChunkStart \in Nat
  <2>1. /\ writing.request.addr + writing.done \in Nat
        /\ writing.request.addr + writing.done < Wrap
    BY <1>2, WritingIsARequest, FlashAssumption DEF FlashInv, WriteInv
  <2>2. ChunkStart = writing.request.addr + writing.done
    BY <2>1, SizesAreNumbers DEF ChunkStart
  <2> QED
    BY <2>1, <2>2, ChunkIsSome DEF FlashInv, WriteInv
<1>. DEFINE addr == writing.request.addr
            len == writing.request.len
            done == writing.done
            n == ChunkLength
<1>3. addr \in Nat /\ len \in Nat /\ done \in Nat
  BY WritingIsARequest DEF FlashInv
<1>4. ASSUME NEW c \in ChunkStart .. ChunkStart + ChunkLength - 1
      PROVE  c \in Ahead(writing)
  <2>1. c \in Int /\ c >= addr + done /\ c < addr + done + n
    BY <1>1, <1>3
  <2>2. c \in Cell /\ addr <= c /\ c < addr + len
    <3>. HIDE DEF n, addr, len, done
    <3>1. n \in Nat /\ done + n <= len /\ addr + len <= TotalSize
      BY <1>1, <1>2 DEF n, addr, len, done
    <3>. QED BY <2>1, <1>3, <3>1, SizesAreNumbers DEF Cell
  <2>. QED BY <2>1, <2>2 DEF Ahead, RequestedWords
<1>5. ASSUME NEW c \in Cell
      PROVE  c \in ChunkStart .. ChunkStart + ChunkLength - 1
                 <=> /\ c >= writing.request.addr + writing.done
                     /\ c < writing.request.addr + writing.done + ChunkLength
  BY <1>1, <1>3, SizesAreNumbers DEF Cell
<1>. QED BY <1>1, <1>4, <1>5

\* Programming words that the write still has to do changes nothing stored.
LEMMA ProgrammingAheadKeepsStored ==
    ASSUME FlashInv, writing # Nothing,
           NEW full \in SUBSET Ahead(writing), NEW torn \in SUBSET Ahead(writing),
           NEW d, NEW c \in Cell, stored[c] # Nothing
    PROVE  Programmed(full, torn, d)[c] = stored[c]
<1>1. cells[c] = stored[c] /\ cells[c] \in Data
  BY DEF FlashInv, FlashTypeOK, StoredStays
<1>2. c \notin Ahead(writing)
  BY <1>1, ContentsAreDistinct DEF FlashInv, WriteInv
<1>. QED BY <1>1, <1>2 DEF Programmed

\* Whatever a ROM write leaves that stops half-way, it leaves in words that
\* were still to be done.
LEMMA CutChunkStaysAhead ==
    ASSUME FlashInv, writing # Nothing,
           NEW end \in ChunkStart .. ChunkStart + ChunkLength - 1,
           NEW torn \in {{}, {end}}
    PROVE  /\ ChunkStart .. end - 1 \in SUBSET Ahead(writing)
           /\ torn \in SUBSET Ahead(writing)
<1>1. /\ ChunkLength \in Nat /\ ChunkStart \in Nat
      /\ ChunkStart .. ChunkStart + ChunkLength - 1 \subseteq Ahead(writing)
  BY ChunkFits
<1>2. ChunkStart .. end - 1 \subseteq ChunkStart .. ChunkStart + ChunkLength - 1
  BY <1>1
<1>. QED BY <1>1, <1>2

LEMMA CutChunkKeeps ==
    ASSUME FlashInv, writing # Nothing, CutChunk, stored' = stored
    PROVE  cells' \in [Cell -> Content] /\ StoredStays'
<1>0. PICK end \in ChunkStart .. ChunkStart + ChunkLength - 1 :
         \E torn \in {{}, {end}} :
            cells' = Programmed(ChunkStart .. end - 1, torn, writing.request.data)
  BY DEF CutChunk
<1>1. PICK torn \in {{}, {end}} :
         cells' = Programmed(ChunkStart .. end - 1, torn, writing.request.data)
  BY <1>0
<1>2. /\ ChunkStart .. end - 1 \in SUBSET Ahead(writing)
      /\ torn \in SUBSET Ahead(writing)
  BY CutChunkStaysAhead
<1>3. writing.request.data \in Data /\ cells \in [Cell -> Content]
  BY WritingIsARequest DEF FlashInv, FlashTypeOK
<1>4. cells' \in [Cell -> Content]
  BY <1>1, <1>3, ProgrammedIsContent
<1>5. ASSUME NEW c \in Cell, stored[c] # Nothing
      PROVE  cells'[c] = stored[c]
  <2> DEFINE full == ChunkStart .. end - 1
  <2>1. full \in SUBSET Ahead(writing) /\ cells' = Programmed(full, torn, writing.request.data)
    BY <1>1, <1>2
  <2> HIDE DEF full
  <2>2. Programmed(full, torn, writing.request.data)[c] = stored[c]
    BY <1>2, <1>5, <2>1, ProgrammingAheadKeepsStored
  <2> QED
    BY <2>1, <2>2
<1>. QED BY <1>4, <1>5 DEF StoredStays

LEMMA CutEraseKeeps ==
    ASSUME FlashInv, erasing # Nothing, CutErase, stored' = stored
    PROVE  cells' \in [Cell -> Content] /\ StoredStays'
<1>1. cells \in [Cell -> Content]
  BY DEF FlashInv, FlashTypeOK
<1>2. PICK blank \in SUBSET CellsOf(erasing), torn \in SUBSET CellsOf(erasing) :
         cells' = Erased(blank, torn)
  BY DEF CutErase
<1>3. cells' \in [Cell -> Content]
  BY <1>1, <1>2, ErasedIsContent
<1>4. ASSUME NEW c \in Cell, stored[c] # Nothing
      PROVE  cells'[c] = stored[c]
  BY <1>2, <1>4 DEF CellsOf, Erased, FlashInv, EraseInv, StoredStays
<1>. QED BY <1>3, <1>4 DEF StoredStays

LEMMA FlashInvInit ==
    ASSUME FlashInit PROVE FlashInv
BY ContentsAreDistinct, FlashAssumption
   DEF FlashInit, FlashInv, FlashTypeOK, WriteInv, EraseInv, StoredStays, InsideInv

LEMMA BeginWriteKeepsInv ==
    ASSUME NoRequestWraps, FlashInv, NEW r \in Writes, BeginWrite(r)
    PROVE  FlashInv'
<1>1. /\ r.addr \in Nat /\ r.len \in Nat /\ r.len # 0 /\ r.data \in Data
  BY FlashAssumption DEF BeginWrite, PassesChecks, Request
<1>2. /\ writing' = [request |-> r, done |-> 0]
      /\ UNCHANGED <<cells, erasing, vendorError, stored>>
      /\ writing = Nothing /\ erasing = Nothing
  BY DEF BeginWrite, FlashIdle
<1>3. FlashTypeOK'
  BY <1>2 DEF FlashInv, FlashTypeOK
<1>4. writing'.request = r /\ writing'.done = 0
  BY <1>2
<1>5. r.addr + r.len <= TotalSize
  <2>1. r.addr + r.len < Wrap /\ r.addr + r.len \in Nat
    BY <1>1 DEF NoRequestWraps
  <2>2. (r.addr + r.len) % Wrap = r.addr + r.len
    BY <2>1, SizesAreNumbers
  <2> QED
    BY <2>2 DEF BeginWrite, PassesChecks
<1>6. \A c \in RequestedWords(r) : cells[c] = Blank
  BY DEF BeginWrite, PassesChecks
<1>7. \A c \in RequestedWords(r) : ~(c < r.addr)
  BY <1>1, <1>5, FlashAssumption DEF RequestedWords, Cell
<1>8. WriteInv'
  BY <1>1, <1>2, <1>4, <1>6, <1>7 DEF WriteInv, Ahead, Behind
<1>9. EraseInv' /\ StoredStays' /\ InsideInv'
  BY <1>2, <1>4, <1>5 DEF FlashInv, EraseInv, StoredStays, InsideInv
<1>. QED BY <1>3, <1>8, <1>9 DEF FlashInv

LEMMA WriteChunkKeepsInv ==
    ASSUME FlashInv, WriteChunk PROVE FlashInv'
<1>. DEFINE r == writing.request
            full == ChunkStart .. ChunkStart + ChunkLength - 1
            done == writing.done
            n == ChunkLength
<1>1. writing # Nothing /\ cells' = Programmed(full, {}, r.data)
      /\ erasing' = erasing /\ vendorError' = vendorError
  BY DEF WriteChunk
<1>2. /\ r \in Writes /\ r.addr \in Nat /\ r.len \in Nat /\ r.data \in Data
      /\ done \in Nat
  BY <1>1, WritingIsARequest DEF FlashInv
<1>3. /\ n \in Nat /\ n > 0 /\ done + n <= r.len
      /\ full \subseteq Ahead(writing)
      /\ \A c \in Cell : c \in full <=> c >= r.addr + done /\ c < r.addr + done + n
  BY <1>1, ChunkFits
<1>4. erasing = Nothing /\ done < r.len
      /\ (\A c \in Ahead(writing) : cells[c] = Blank)
      /\ (\A c \in Behind(writing) : cells[c] = r.data)
  BY <1>1 DEF FlashInv, WriteInv
<1>5. cells \in [Cell -> Content] /\ cells' \in [Cell -> Content]
  BY <1>1, <1>2, ProgrammedIsContent DEF FlashInv, FlashTypeOK
<1>6. \A c \in Cell : cells'[c] = IF c \in full THEN r.data ELSE cells[c]
  BY <1>1, <1>3, <1>4 DEF Programmed
<1>7. ASSUME NEW c \in Cell, stored[c] # Nothing
      PROVE  cells'[c] = stored[c]
  <2>. HIDE DEF full
  <2>1. full \in SUBSET Ahead(writing) /\ {} \in SUBSET Ahead(writing)
    BY <1>3
  <2>2. Programmed(full, {}, r.data)[c] = stored[c]
    BY <1>1, <1>7, <2>1, ProgrammingAheadKeepsStored
  <2>. QED BY <1>1, <2>2
<1>. HIDE DEF full, n
<1>8. CASE done + n = r.len
  <2>1. /\ writing' = Nothing
        /\ stored' = [c \in Cell |-> IF c \in RequestedWords(r) THEN r.data ELSE stored[c]]
    BY <1>8 DEF WriteChunk, n
  <2>2. ASSUME NEW c \in RequestedWords(r) PROVE cells'[c] = r.data
    <3>0. r.addr + r.len <= TotalSize
      BY <1>1 DEF FlashInv, InsideInv
    <3>1. c \in Cell /\ c \in Int /\ r.addr <= c /\ c < r.addr + r.len
      BY <1>2, <3>0, FlashAssumption DEF RequestedWords, Cell
    <3>2. CASE c < r.addr + done
      BY <3>1, <3>2, <1>3, <1>4, <1>6 DEF Behind
    <3>3. CASE c >= r.addr + done
      BY <3>1, <3>3, <1>2, <1>3, <1>6, <1>8
    <3>. QED BY <3>1, <3>2, <3>3, <1>2
  <2>3. FlashTypeOK'
    BY <1>1, <1>2, <1>5, <2>1 DEF FlashInv, FlashTypeOK
  <2>4. StoredStays'
    BY <1>7, <2>1, <2>2 DEF StoredStays
  <2>5. WriteInv' /\ EraseInv' /\ InsideInv'
    BY <1>1, <1>4, <2>1 DEF WriteInv, EraseInv, InsideInv
  <2>. QED BY <2>3, <2>4, <2>5 DEF FlashInv
<1>9. CASE done + n # r.len
  <2>1. writing' = [writing EXCEPT !.done = @ + n] /\ stored' = stored
    BY <1>9 DEF WriteChunk, n
  <2>2. writing' = [request |-> r, done |-> done + n]
    BY <1>1, <2>1, WritingIsARequest DEF FlashInv
  <2>3. FlashTypeOK'
    <3>1. writing' \in [request : Writes, done : Nat]
      BY <1>2, <1>3, <2>2
    <3>. QED BY <1>1, <1>5, <2>1, <3>1 DEF FlashInv, FlashTypeOK
  <2>4. StoredStays'
    BY <1>7, <2>1 DEF StoredStays
  <2>5. done + n < r.len
    BY <1>2, <1>3, <1>9
  <2>6. ASSUME NEW c \in RequestedWords(r), c >= r.addr + (done + n)
        PROVE  cells'[c] = Blank
    <3>1. c \in Cell /\ c \in Int
      BY SizesAreNumbers DEF RequestedWords, Cell
    <3>2. c \in Ahead(writing) /\ c \notin full
      BY <1>2, <1>3, <2>6, <3>1 DEF Ahead
    <3>. QED BY <1>4, <1>6, <3>1, <3>2
  <2>7. ASSUME NEW c \in RequestedWords(r), c < r.addr + (done + n)
        PROVE  cells'[c] = r.data
    <3>1. c \in Cell /\ c \in Int
      BY SizesAreNumbers DEF RequestedWords, Cell
    <3>2. CASE c < r.addr + done
      BY <1>3, <1>4, <1>6, <3>1, <3>2 DEF Behind
    <3>3. CASE c >= r.addr + done
      BY <1>2, <1>3, <1>6, <2>7, <3>1, <3>3
    <3>. QED BY <1>2, <3>1, <3>2, <3>3
  <2>8. WriteInv'
    BY <1>1, <1>4, <2>2, <2>5, <2>6, <2>7 DEF WriteInv, Ahead, Behind
  <2>9. EraseInv' /\ InsideInv'
    BY <1>1, <1>4, <2>2 DEF EraseInv, InsideInv, FlashInv
  <2>. QED BY <2>3, <2>4, <2>8, <2>9 DEF FlashInv
<1>. QED BY <1>8, <1>9

LEMMA WriteFailsKeepsInv ==
    ASSUME FlashInv, WriteFails PROVE FlashInv'
<1>1. /\ writing # Nothing /\ CutChunk /\ writing' = Nothing /\ vendorError' = TRUE
      /\ erasing' = erasing /\ stored' = stored
  BY DEF WriteFails
<1>2. cells' \in [Cell -> Content] /\ StoredStays'
  BY <1>1, CutChunkKeeps
<1>3. erasing = Nothing
  BY <1>1 DEF FlashInv, WriteInv
<1>. QED BY <1>1, <1>2, <1>3
         DEF FlashInv, FlashTypeOK, WriteInv, EraseInv, InsideInv

LEMMA BeginEraseKeepsInv ==
    ASSUME FlashInv, NEW s \in Sector, BeginErase(s) PROVE FlashInv'
BY DEF BeginErase, FlashIdle, FlashInv, FlashTypeOK, WriteInv, EraseInv, StoredStays,
       InsideInv, CellsOf

LEMMA EndEraseKeepsInv ==
    ASSUME FlashInv, EndErase PROVE FlashInv'
<1>1. /\ erasing # Nothing /\ erasing' = Nothing /\ cells' = Erased(CellsOf(erasing), {})
      /\ UNCHANGED <<writing, vendorError, stored>>
  BY DEF EndErase
<1>2. writing = Nothing
  BY <1>1 DEF FlashInv, WriteInv
<1>3. cells' \in [Cell -> Content]
  BY <1>1, ErasedIsContent DEF FlashInv, FlashTypeOK
<1>4. StoredStays'
  BY <1>1 DEF FlashInv, EraseInv, StoredStays, Erased, CellsOf
<1>. QED BY <1>1, <1>2, <1>3, <1>4
         DEF FlashInv, FlashTypeOK, WriteInv, EraseInv, InsideInv

LEMMA EraseFailsKeepsInv ==
    ASSUME FlashInv, EraseFails PROVE FlashInv'
<1>1. /\ erasing # Nothing /\ erasing' = Nothing /\ CutErase
      /\ vendorError' = TRUE /\ UNCHANGED <<writing, stored>>
  BY DEF EraseFails
<1>2. writing = Nothing
  BY <1>1 DEF FlashInv, WriteInv
<1>3. cells' \in [Cell -> Content] /\ StoredStays'
  BY <1>1, CutEraseKeeps
<1>. QED BY <1>1, <1>2, <1>3
         DEF FlashInv, FlashTypeOK, WriteInv, EraseInv, InsideInv

LEMMA FlashCutKeepsInv ==
    ASSUME FlashInv, FlashCut PROVE FlashInv'
<1>1. /\ writing' = Nothing /\ erasing' = Nothing
      /\ vendorError' = vendorError /\ stored' = stored
  BY DEF FlashCut
<1>2. cells' \in [Cell -> Content] /\ StoredStays'
  <2>1. CASE writing # Nothing
    <3>1. erasing = Nothing
      BY <2>1 DEF FlashInv, WriteInv
    <3>2. CutChunk
      BY <2>1, <3>1 DEF FlashCut
    <3>. QED BY <1>1, <2>1, <3>2, CutChunkKeeps
  <2>2. CASE writing = Nothing /\ erasing # Nothing
    BY <1>1, <2>2, CutEraseKeeps DEF FlashCut
  <2>3. CASE writing = Nothing /\ erasing = Nothing
    BY <1>1, <2>3 DEF FlashCut, FlashInv, FlashTypeOK, StoredStays
  <2>. QED BY <2>1, <2>2, <2>3
<1>. QED BY <1>1, <1>2
         DEF FlashInv, FlashTypeOK, WriteInv, EraseInv, InsideInv

LEMMA FlashStepKeepsInv ==
    ASSUME NoRequestWraps, FlashInv, [FlashNext]_flashVars PROVE FlashInv'
<1>1. ASSUME NEW r \in Writes, BeginWrite(r) PROVE FlashInv'
  BY <1>1, BeginWriteKeepsInv
<1>2. ASSUME NEW s \in Sector, BeginErase(s) PROVE FlashInv'
  BY <1>2, BeginEraseKeepsInv
<1>3. CASE GetVendorError \/ ForgetVendorError \/ FlashStaysLocked
  BY <1>3 DEF GetVendorError, ForgetVendorError, FlashStaysLocked, FlashInv, FlashTypeOK,
              WriteInv, EraseInv, StoredStays, InsideInv, Ahead, Behind
<1>4. CASE FlashStep
  BY <1>4, WriteChunkKeepsInv, WriteFailsKeepsInv, EndEraseKeepsInv, EraseFailsKeepsInv
     DEF FlashStep
<1>5. CASE FlashCut
  BY <1>5, FlashCutKeepsInv
<1>6. CASE UNCHANGED flashVars
  BY <1>6 DEF flashVars, FlashInv, FlashTypeOK, WriteInv, EraseInv, StoredStays,
              InsideInv, Ahead, Behind
<1>. QED BY <1>1, <1>2, <1>3, <1>4, <1>5, <1>6 DEF FlashNext, FlashCall

\* What a write that returned BOOT_OK has stored stays until its sector is
\* erased, and a write under way has blank words ahead of it and its data
\* behind it: through overlapping writes, failing ROM calls and cuts at any
\* moment, as long as no request wraps.
THEOREM FlashIsSafe == ASSUME NoRequestWraps PROVE FlashSpec => []FlashInv
<1>1. FlashInit => FlashInv
  BY FlashInvInit
<1>2. FlashInv /\ [FlashNext]_flashVars => FlashInv'
  BY FlashStepKeepsInv
<1>. QED BY <1>1, <1>2, PTL DEF FlashSpec

\* The types need no such assumption.
FlashTypeInv ==
    FlashTypeOK /\ (writing # Nothing => writing.done < writing.request.len)

LEMMA FlashStepKeepsType ==
    ASSUME FlashTypeInv, [FlashNext]_flashVars PROVE FlashTypeInv'
<1>. USE DEF FlashTypeInv, FlashTypeOK
<1>0. /\ \A full, torn : \A d \in Data : Programmed(full, torn, d) \in [Cell -> Content]
      /\ \A blank, torn : Erased(blank, torn) \in [Cell -> Content]
  BY ProgrammedIsContent, ErasedIsContent
<1>1. /\ writing # Nothing /\ CutChunk => cells' \in [Cell -> Content]
      /\ CutErase => cells' \in [Cell -> Content]
  <2>1. ASSUME writing # Nothing, CutChunk PROVE cells' \in [Cell -> Content]
    <3>1. writing.request.data \in Data
      BY <2>1, WritingIsARequest
    <3>2. PICK end \in ChunkStart .. ChunkStart + ChunkLength - 1, torn \in SUBSET Int :
             cells' = Programmed(ChunkStart .. end - 1, torn, writing.request.data)
      BY <2>1 DEF CutChunk
    <3>. QED BY <1>0, <3>1, <3>2, Zenon
  <2>2. ASSUME CutErase PROVE cells' \in [Cell -> Content]
    <3>1. PICK blank \in SUBSET CellsOf(erasing), torn \in SUBSET CellsOf(erasing) :
             cells' = Erased(blank, torn)
      BY <2>2 DEF CutErase
    <3>. QED BY <1>0, <3>1, Zenon
  <2>. QED BY <2>1, <2>2
<1>2. ASSUME NEW r \in Writes, BeginWrite(r) PROVE FlashTypeInv'
  <2>1. /\ writing' = [request |-> r, done |-> 0] /\ 0 < r.len
        /\ UNCHANGED <<cells, erasing, vendorError, stored>>
    BY <1>2, FlashAssumption DEF BeginWrite, PassesChecks, Request
  <2>. QED BY <2>1
<1>3. CASE WriteChunk
  <2>. DEFINE r == writing.request
              n == ChunkLength
  <2>1. /\ writing # Nothing /\ UNCHANGED <<erasing, vendorError>>
        /\ cells' \in [Cell -> Content]
    BY <1>0, <1>3, WritingIsARequest DEF WriteChunk
  <2>2. /\ n \in Nat /\ n > 0 /\ writing.done + n <= r.len
        /\ writing.done \in Nat /\ r.len \in Nat /\ r.data \in Data /\ r \in Writes
        /\ writing = [request |-> r, done |-> writing.done]
    BY <2>1, ChunkIsSome, WritingIsARequest
  <2>3. \/ /\ writing' = Nothing
           /\ stored' = [c \in Cell |-> IF c \in RequestedWords(r) THEN r.data ELSE stored[c]]
        \/ /\ writing.done + n # r.len
           /\ writing' = [writing EXCEPT !.done = @ + n]
           /\ stored' = stored
    BY <1>3 DEF WriteChunk
  <2>. HIDE DEF n, r
  <2>4. CASE writing' = Nothing
    BY <2>1, <2>2, <2>3, <2>4
  <2>5. CASE writing' # Nothing
    <3>1. writing' = [request |-> r, done |-> writing.done + n] /\ stored' = stored
      BY <2>2, <2>3, <2>5
    <3>2. writing.done + n < r.len /\ writing.done + n \in Nat
      BY <2>2, <2>3, <2>5
    <3>. QED BY <2>1, <2>2, <3>1, <3>2
  <2>. QED BY <2>4, <2>5
<1>4. CASE WriteFails
  BY <1>1, <1>4 DEF WriteFails
<1>5. ASSUME NEW s \in Sector, BeginErase(s) PROVE FlashTypeInv'
  BY <1>5 DEF BeginErase
<1>6. CASE EndErase
  BY <1>0, <1>6 DEF EndErase
<1>7. CASE EraseFails
  BY <1>1, <1>7 DEF EraseFails
<1>8. CASE FlashCut
  BY <1>1, <1>8 DEF FlashCut
<1>9. CASE GetVendorError \/ ForgetVendorError \/ FlashStaysLocked
  BY <1>9 DEF GetVendorError, ForgetVendorError, FlashStaysLocked
<1>10. CASE UNCHANGED flashVars
  BY <1>10 DEF flashVars
<1>. QED BY <1>2, <1>3, <1>4, <1>5, <1>6, <1>7, <1>8, <1>9, <1>10, Zenon
         DEF FlashNext, FlashCall, FlashStep

LEMMA FlashTypeCorrect == FlashSpec => []FlashTypeInv
<1>1. FlashInit => FlashTypeInv
  BY DEF FlashInit, FlashTypeInv, FlashTypeOK
<1>2. FlashTypeInv /\ [FlashNext]_flashVars => FlashTypeInv'
  BY FlashStepKeepsType
<1>. QED BY <1>1, <1>2, PTL DEF FlashSpec

-----------------------------------------------------------------------------
(***************************************************************************)
(* The flash driver implements its medium.                                 *)
(***************************************************************************)

LEMMA WriteChunkPrograms ==
    ASSUME FlashInv, WriteChunk PROVE Medium!Next
<1>. DEFINE full == ChunkStart .. ChunkStart + ChunkLength - 1
<1>1. writing # Nothing /\ cells' = Programmed(full, {}, writing.request.data)
  BY DEF WriteChunk
<1>2. full \subseteq Ahead(writing)
  BY <1>1, ChunkFits
<1>3. writing.request.data \in Data
  BY <1>1, WritingIsARequest DEF FlashInv
<1>. HIDE DEF full
<1>4. full \in SUBSET Cell /\ \A c \in full : cells[c] = Blank
  BY <1>1, <1>2 DEF FlashInv, WriteInv, Ahead, RequestedWords
<1>5. cells' = [c \in Cell |-> IF c \in full THEN writing.request.data
                               ELSE IF c \in {} THEN Unknown ELSE cells[c]]
  BY <1>1, <1>4 DEF Programmed
<1>6. erasing = Nothing /\ erasing' = erasing
  BY <1>1 DEF WriteChunk, FlashInv, WriteInv
<1>7. Medium!Program(full, {}, writing.request.data)
  BY <1>4, <1>5, <1>6 DEF Medium!Program
<1>. QED BY <1>3, <1>4, <1>7 DEF Medium!Next

LEMMA CutChunkPrograms ==
    ASSUME FlashInv, writing # Nothing, CutChunk, erasing' \in {erasing, Nothing}
    PROVE  Medium!Next
<1>1. PICK end \in ChunkStart .. ChunkStart + ChunkLength - 1 :
         \E torn \in {{}, {end}} :
            cells' = Programmed(ChunkStart .. end - 1, torn, writing.request.data)
  BY DEF CutChunk
<1>2. PICK torn \in {{}, {end}} :
         cells' = Programmed(ChunkStart .. end - 1, torn, writing.request.data)
  BY <1>1
<1>. DEFINE full == ChunkStart .. end - 1
<1>3. full \in SUBSET Ahead(writing) /\ torn \in SUBSET Ahead(writing)
  BY CutChunkStaysAhead
<1>4. \A c \in full : c \notin torn
  <2>1. ChunkStart \in Nat /\ ChunkLength \in Nat
    BY ChunkFits
  <2>. QED BY <2>1
<1>5. writing.request.data \in Data
  BY WritingIsARequest DEF FlashInv
<1>6. cells' = Programmed(full, torn, writing.request.data)
  BY <1>2
<1>. HIDE DEF full
<1>7. full \in SUBSET Cell /\ torn \in SUBSET Cell /\ \A c \in full \cup torn : cells[c] = Blank
  BY <1>3 DEF FlashInv, WriteInv, Ahead, RequestedWords
<1>8. cells' = [c \in Cell |-> IF c \in full THEN writing.request.data
                               ELSE IF c \in torn THEN Unknown ELSE cells[c]]
  BY <1>4, <1>6, <1>7 DEF Programmed
<1>9. erasing = Nothing /\ erasing' = erasing
  BY DEF FlashInv, WriteInv
<1>10. Medium!Program(full, torn, writing.request.data)
  BY <1>7, <1>8, <1>9 DEF Medium!Program
<1>. QED BY <1>5, <1>7, <1>10 DEF Medium!Next

LEMMA EraseErases ==
    ASSUME FlashInv, erasing # Nothing,
           NEW blank \in SUBSET CellsOf(erasing), NEW torn \in SUBSET CellsOf(erasing),
           cells' = Erased(blank, torn), erasing' = Nothing
    PROVE  Medium!Next
<1>1. cells' \in [Cell -> Content]
  BY ErasedIsContent DEF FlashInv, FlashTypeOK
<1>2. Medium!Erase
  <2>1. \A c \in Cell : IF SectorOf[c] = erasing
                        THEN cells'[c] \in {cells[c], Blank, Unknown}
                        ELSE cells'[c] = cells[c]
    BY DEF Erased, CellsOf
  <2>. QED BY <1>1, <2>1 DEF Medium!Erase, Medium!Contents, Content
<1>. QED BY <1>2 DEF Medium!Next

LEMMA CutErases ==
    ASSUME FlashInv, erasing # Nothing, CutErase, erasing' = Nothing PROVE Medium!Next
<1>1. PICK blank \in SUBSET CellsOf(erasing), torn \in SUBSET CellsOf(erasing) :
         cells' = Erased(blank, torn)
  BY DEF CutErase
<1>. QED BY <1>1, EraseErases

LEMMA FlashStepIsMediumStep ==
    ASSUME FlashInv, [FlashNext]_flashVars PROVE [Medium!Next]_(Medium!rules)
<1>1. CASE WriteChunk
  BY <1>1, WriteChunkPrograms
<1>2. CASE WriteFails
  BY <1>2, CutChunkPrograms DEF WriteFails
<1>3. CASE EndErase
  BY <1>3, EraseErases DEF EndErase
<1>4. CASE EraseFails
  BY <1>4, CutErases DEF EraseFails
<1>5. CASE FlashCut
  <2>1. CASE writing # Nothing
    <3>1. erasing = Nothing
      BY <2>1 DEF FlashInv, WriteInv
    <3>2. CutChunk /\ erasing' = Nothing
      BY <1>5, <2>1, <3>1, Zenon DEF FlashCut
    <3>3. Medium!Next
      BY <2>1, <3>2, CutChunkPrograms
    <3>. QED BY <3>3
  <2>2. CASE writing = Nothing /\ erasing # Nothing
    BY <1>5, <2>2, CutErases DEF FlashCut
  <2>3. CASE writing = Nothing /\ erasing = Nothing
    BY <1>5, <2>3 DEF FlashCut, Medium!rules
  <2>. QED BY <2>1, <2>2, <2>3
<1>6. ASSUME NEW s \in Sector, BeginErase(s) PROVE Medium!Next
  BY <1>6 DEF BeginErase, FlashIdle, Medium!Next, Medium!AskErase
<1>7. CASE UNCHANGED <<cells, erasing>>
  BY <1>7 DEF Medium!rules
<1>8. FlashNext => \/ WriteChunk \/ WriteFails \/ EndErase \/ EraseFails \/ FlashCut
                   \/ \E s \in Sector : BeginErase(s)
                   \/ UNCHANGED <<cells, erasing>>
  BY DEF FlashNext, FlashCall, FlashStep, BeginWrite, GetVendorError,
         ForgetVendorError, FlashStaysLocked
<1>. QED BY <1>1, <1>2, <1>3, <1>4, <1>5, <1>6, <1>7, <1>8 DEF flashVars

\* Whatever the driver does, and wherever it is cut, the flash behaves as
\* NorFlash says, as long as no request wraps.
THEOREM FlashKeepsTheRules == ASSUME NoRequestWraps PROVE FlashSpec => KeepsTheRules
<1>1. FlashInit => Medium!Init
  BY DEF FlashInit, Medium!Init, Medium!Contents, Content
<1>2. FlashInv /\ [FlashNext]_flashVars => [Medium!Next]_(Medium!rules)
  BY FlashStepIsMediumStep
<1>3. FlashSpec => []FlashInv
  BY FlashIsSafe
<1>. QED BY <1>1, <1>2, <1>3, PTL DEF FlashSpec, KeepsTheRules, Medium!Spec

-----------------------------------------------------------------------------
(***************************************************************************)
(* The confirm driver.                                                     *)
(***************************************************************************)

\* A nonce that lies in memory, or is being confirmed, is one the operating
\* system still has a confirmation owed for.
OwedInv ==
    \A n \in Proper : /\ owed[n] >= 0
                      /\ nonce = n \/ checking = n => owed[n] >= 1

ConfirmInv == ConfirmTypeOK /\ OwedInv

\* Memory with a cleared or a lost half holds no proper nonce.
LEMMA ProperIsWhole ==
    ASSUME NEW n \in Proper, NEW w, NEW i \in Position, w[i] \in {Zero, Lost}
    PROVE  n # w
BY DEF Proper

LEMMA ProperIsNonce == Proper \subseteq Nonce
BY DEF Proper

LEMMA NonceIsNotNoCheck ==
    /\ NoCheck \notin Nonce /\ Cleared \notin Nonce /\ NoCheck # Cleared
    /\ Nonce \subseteq [Position -> Half] /\ Zero \in Half /\ Lost \in Half
BY ConfirmAssumption DEF Half

LEMMA ConfirmInvInit ==
    ASSUME ConfirmInit PROVE ConfirmInv
<1>1. ConfirmTypeOK
  BY NonceIsNotNoCheck DEF ConfirmInit, ConfirmTypeOK
<1>2. 1 \in Position
  BY DEF Position
<1>3. ASSUME NEW n \in Proper
      PROVE  owed[n] >= 0 /\ nonce # n /\ checking # n
  BY <1>2, ProperIsWhole, ProperIsNonce, NonceIsNotNoCheck DEF ConfirmInit
<1>. QED BY <1>1, <1>3 DEF ConfirmInv, OwedInv

LEMMA OsConfirmsKeepsInv ==
    ASSUME ConfirmInv, NEW m \in Nonce, OsConfirms(m) PROVE ConfirmInv'
<1>1. /\ checking = NoCheck /\ checking' = checking /\ nonce' = m
      /\ owed' = [owed EXCEPT ![m] = @ + 1] /\ toClear' = toClear
      /\ owed \in [Nonce -> Int]
  BY DEF OsConfirms, ConfirmInv, ConfirmTypeOK
<1>2. ConfirmTypeOK'
  BY <1>1, NonceIsNotNoCheck DEF ConfirmInv, ConfirmTypeOK
<1>3. ASSUME NEW n \in Proper
      PROVE  owed'[n] >= 0 /\ (nonce' = n \/ checking' = n => owed'[n] >= 1)
  BY <1>1, ProperIsNonce, NonceIsNotNoCheck DEF ConfirmInv, OwedInv
<1>. QED BY <1>2, <1>3 DEF ConfirmInv, OwedInv

LEMMA CheckKeepsInv ==
    ASSUME ConfirmInv, ConfirmCall PROVE ConfirmInv'
<1>1. /\ checking = NoCheck /\ UNCHANGED <<nonce, owed>> /\ toClear' = Position
      /\ checking' = Cleared \/ (checking' \in Nonce /\ nonce = checking')
  BY DEF ConfirmCall, BeginClear, CheckMatches
<1>2. ConfirmTypeOK'
  BY <1>1 DEF ConfirmInv, ConfirmTypeOK
<1>3. ASSUME NEW n \in Proper
      PROVE  owed'[n] >= 0 /\ (nonce' = n \/ checking' = n => owed'[n] >= 1)
  BY <1>1, ProperIsNonce, NonceIsNotNoCheck DEF ConfirmInv, OwedInv
<1>. QED BY <1>2, <1>3 DEF ConfirmInv, OwedInv

LEMMA ClearKeepsInv ==
    ASSUME ConfirmInv, NEW i \in Position, ClearHalf(i) \/ ClearIsStuck(i)
    PROVE  ConfirmInv'
<1>1. /\ UNCHANGED <<checking, owed>> /\ toClear' \subseteq toClear
      /\ nonce' = nonce \/ nonce' = [nonce EXCEPT ![i] = Zero]
      /\ nonce \in [Position -> Half]
  BY DEF ClearHalf, ClearIsStuck, ConfirmInv, ConfirmTypeOK
<1>2. ConfirmTypeOK'
  BY <1>1, NonceIsNotNoCheck DEF ConfirmInv, ConfirmTypeOK
<1>3. ASSUME NEW n \in Proper
      PROVE  owed'[n] >= 0 /\ (nonce' = n \/ checking' = n => owed'[n] >= 1)
  <2>1. nonce' = n => nonce = n
    BY <1>1, ProperIsWhole
  <2>. QED BY <1>1, <2>1 DEF ConfirmInv, OwedInv
<1>. QED BY <1>2, <1>3 DEF ConfirmInv, OwedInv

LEMMA AnswerKeepsInv ==
    ASSUME ConfirmInv, Answer PROVE ConfirmInv'
<1>1. /\ checking # NoCheck /\ checking' = NoCheck /\ UNCHANGED <<nonce, toClear>>
      /\ owed \in [Nonce -> Int]
      /\ \/ owed' = owed
         \/ /\ checking \in Nonce /\ nonce = Cleared
            /\ owed' = [owed EXCEPT ![checking] = @ - 1]
  BY DEF Answer, ConfirmInv, ConfirmTypeOK
<1>2. ConfirmTypeOK'
  BY <1>1 DEF ConfirmInv, ConfirmTypeOK
<1>3. ASSUME NEW n \in Proper
      PROVE  owed'[n] >= 0 /\ (nonce' = n \/ checking' = n => owed'[n] >= 1)
  BY <1>1, ProperIsNonce, NonceIsNotNoCheck DEF ConfirmInv, OwedInv
<1>. QED BY <1>2, <1>3 DEF ConfirmInv, OwedInv

LEMMA ConfirmCutKeepsInv ==
    ASSUME ConfirmInv, NEW powerLost, ConfirmCut(powerLost) PROVE ConfirmInv'
<1>1. /\ checking' = NoCheck /\ toClear' = {} /\ owed' = owed
      /\ nonce' = nonce \/ nonce' = [i \in Position |-> Lost]
  BY DEF ConfirmCut
<1>2. ConfirmTypeOK'
  BY <1>1, NonceIsNotNoCheck DEF ConfirmInv, ConfirmTypeOK
<1>3. 1 \in Position
  BY DEF Position
<1>4. ASSUME NEW n \in Proper
      PROVE  owed'[n] >= 0 /\ (nonce' = n \/ checking' = n => owed'[n] >= 1)
  <2>1. nonce' = n => nonce = n
    BY <1>1, <1>3, ProperIsWhole
  <2>. QED BY <1>1, <2>1, ProperIsNonce, NonceIsNotNoCheck DEF ConfirmInv, OwedInv
<1>. QED BY <1>2, <1>4 DEF ConfirmInv, OwedInv

LEMMA ConfirmStepKeepsInv ==
    ASSUME ConfirmInv, [ConfirmNext]_confirmVars PROVE ConfirmInv'
<1>1. CASE UNCHANGED confirmVars
  BY <1>1 DEF confirmVars, ConfirmInv, ConfirmTypeOK, OwedInv
<1>2. CASE ConfirmNext
  BY <1>2, OsConfirmsKeepsInv, CheckKeepsInv, ClearKeepsInv, AnswerKeepsInv,
     ConfirmCutKeepsInv DEF ConfirmNext, ConfirmStep
<1>. QED BY <1>1, <1>2

\* However stores are torn, fail to take effect or are cut by resets, no
\* proper nonce confirms more boots than the operating system confirmed.
THEOREM ConfirmIsSafe == ConfirmSpec => []ConfirmInv
<1>1. ConfirmInit => ConfirmInv
  BY ConfirmInvInit
<1>2. ConfirmInv /\ [ConfirmNext]_confirmVars => ConfirmInv'
  BY ConfirmStepKeepsInv
<1>. QED BY <1>1, <1>2, PTL DEF ConfirmSpec

-----------------------------------------------------------------------------
(***************************************************************************)
(* The firmware implements each driver.                                    *)
(***************************************************************************)

LEMMA StepIsFlashStep ==
    ASSUME [Next]_vars PROVE [FlashNext]_flashVars
<1>1. CASE StartUpStep
  BY <1>1 DEF StartUpStep, FlashNext
<1>2. CASE CoreStep
  BY <1>2 DEF CoreStep, FlashNext
<1>3. CASE DriverStep
  BY <1>3 DEF DriverStep, FlashNext
<1>4. CASE OsStep
  BY <1>4 DEF OsStep
<1>5. CASE Hardware
  BY <1>5 DEF Hardware, FlashNext
<1>6. CASE Reset
  BY <1>6 DEF Reset, Resets, FlashNext
<1>7. CASE UNCHANGED vars
  BY <1>7 DEF vars
<1>. QED BY <1>1, <1>2, <1>3, <1>4, <1>5, <1>6, <1>7 DEF Next

LEMMA StepIsConfirmStep ==
    ASSUME [Next]_vars PROVE [ConfirmNext]_confirmVars
<1>1. CASE StartUpStep
  BY <1>1 DEF StartUpStep
<1>2. CASE CoreStep
  BY <1>2 DEF CoreStep, ConfirmNext
<1>3. CASE DriverStep
  BY <1>3 DEF DriverStep, ConfirmNext
<1>4. CASE OsStep
  BY <1>4 DEF OsStep, ConfirmNext
<1>5. CASE Hardware
  BY <1>5 DEF Hardware, ConfirmNext
<1>6. CASE Reset
  BY <1>6 DEF Reset, Resets, ConfirmNext
<1>7. CASE UNCHANGED vars
  BY <1>7 DEF vars
<1>. QED BY <1>1, <1>2, <1>3, <1>4, <1>5, <1>6, <1>7 DEF Next

\* Start-up, core and operating system use the flash driver as Flash says.
THEOREM ImplementsFlash == Spec => FlashSpec
BY StepIsFlashStep, PTL DEF Spec, Init, FlashSpec

\* Start-up, core and operating system use the confirm driver as Confirm says.
THEOREM ImplementsConfirm == Spec => ConfirmSpec
BY StepIsConfirmStep, PTL DEF Spec, Init, ConfirmSpec

\* What a successful write has put into the flash stays until it is erased,
\* as long as no request of the bootloader's core wraps.
THEOREM WhatIsStoredStays == ASSUME NoRequestWraps PROVE Spec => []StoredStays
<1>1. FlashSpec => []FlashInv
  BY FlashIsSafe
<1>. QED BY <1>1, ImplementsFlash, PTL DEF FlashInv

\* The firmware keeps the rules of its flash, wherever a reset cuts it, as
\* long as no request of the bootloader's core wraps.
THEOREM FirmwareKeepsTheRules == ASSUME NoRequestWraps PROVE Spec => KeepsTheRules
<1>1. FlashSpec => KeepsTheRules
  BY FlashKeepsTheRules
<1>. QED BY <1>1, ImplementsFlash, PTL

\* A nonce both of whose halves are neither zero nor lost confirms no more
\* boots than the operating system confirmed.  Of a nonce with a zero half
\* nothing is claimed: cleared memory would confirm it.
THEOREM NonceIsNotReplayed == Spec => []NoReplay
<1>1. ConfirmInv => NoReplay
  BY DEF ConfirmInv, OwedInv, NoReplay
<1>. QED BY <1>1, ImplementsConfirm, ConfirmIsSafe, PTL

-----------------------------------------------------------------------------
(***************************************************************************)
(* Start-up and the watchdogs.                                             *)
(***************************************************************************)

\* Up to the init of the watchdog none is armed; one that is armed can be
\* resumed; and what BSS holds is of this boot.
BootInv ==
    /\ BootTypeOK
    /\ place \in {"bss", "flash", "wdt"} => armed = {}
    /\ place # "sterilize" /\ "TIMG0" \in armed => saved = Normal
    /\ place \in {"flash", "wdt", "crypto"} => reason = Unread
    /\ GuardedByItsOwnDog
    /\ ReasonIsCurrent

\* The margin does not wrap.
LEMMA LimitIsEnough ==
    /\ (TimeoutMs * 2) % RegisterMax \in Nat
    /\ (TimeoutMs * 2) % RegisterMax >= TimeoutMs
<1>1. /\ TimeoutMs \in Nat /\ RegisterMax \in Nat
      /\ TimeoutMs * 2 < RegisterMax
  BY BootAssumption
<1>2. (TimeoutMs * 2) % RegisterMax = TimeoutMs * 2
  BY <1>1
<1>. QED BY <1>1, <1>2

LEMMA ReasonsAreNamed ==
    /\ \A c \in Cause : ReasonOf[c] \in Reason
    /\ Unread \notin Reason
    /\ "TIMG0" \in Dogs /\ Normal \in Nat /\ Long \in Nat
BY BootAssumption DEF Cause, Reason, ReasonOf

LEMMA BootInvInit ==
    ASSUME BootInit PROVE BootInv
BY BootAssumption DEF BootInit, BootInv, BootTypeOK, GuardedByItsOwnDog, ReasonIsCurrent,
   Place, StartUp, Cause

LEMMA StartUpKeepsInv ==
    ASSUME BootInv,
           \/ Sterilize \/ ClearBss \/ InitFlash \/ InitWdt \/ InitCrypto
           \/ \E part \in {"flash", "crypto"} : InitFails(part)
    PROVE  BootInv'
<1>1. CASE Sterilize
  BY <1>1 DEF Sterilize, Goes, BootInv, BootTypeOK, GuardedByItsOwnDog, ReasonIsCurrent,
              Place, StartUp
<1>2. CASE ClearBss
  BY <1>2 DEF ClearBss, Goes, dog, BootInv, BootTypeOK, GuardedByItsOwnDog, ReasonIsCurrent,
              Place, StartUp
<1>3. CASE InitFlash
  BY <1>3 DEF InitFlash, Goes, dog, BootInv, BootTypeOK, GuardedByItsOwnDog, ReasonIsCurrent,
              Place, StartUp
<1>4. CASE InitWdt
  BY <1>4, LimitIsEnough, ReasonsAreNamed
     DEF InitWdt, Goes, BootInv, BootTypeOK, GuardedByItsOwnDog, ReasonIsCurrent,
         Place, StartUp
<1>5. CASE InitCrypto
  BY <1>5 DEF InitCrypto, Goes, dog, BootInv, BootTypeOK, GuardedByItsOwnDog,
              ReasonIsCurrent, Place, StartUp
<1>6. CASE \E part \in {"flash", "crypto"} : InitFails(part)
  BY <1>6 DEF InitFails, Goes, dog, BootInv, BootTypeOK, GuardedByItsOwnDog,
              ReasonIsCurrent, Place, StartUp
<1>. QED BY <1>1, <1>2, <1>3, <1>4, <1>5, <1>6

LEMMA CallKeepsInv ==
    ASSUME BootInv, place \in {"core", "os"}, BootCall \/ CoreReturns PROVE BootInv'
<1>1. CASE Kick
  BY <1>1 DEF Kick, BootInv, BootTypeOK, GuardedByItsOwnDog, ReasonIsCurrent
<1>2. CASE Suspend
  BY <1>2, ReasonsAreNamed
     DEF Suspend, BootInv, BootTypeOK, GuardedByItsOwnDog, ReasonIsCurrent
<1>3. CASE Resume
  BY <1>3, ReasonsAreNamed
     DEF Resume, BootInv, BootTypeOK, GuardedByItsOwnDog, ReasonIsCurrent
<1>4. CASE Deinit
  BY <1>4 DEF Deinit, BootInv, BootTypeOK, GuardedByItsOwnDog, ReasonIsCurrent
<1>5. CASE GetResetReason
  BY <1>5, ReasonsAreNamed DEF GetResetReason, dog, BootInv, BootTypeOK,
     GuardedByItsOwnDog, ReasonIsCurrent
<1>6. CASE CoreReturns
  BY <1>6 DEF CoreReturns, Goes, dog, BootInv, BootTypeOK, GuardedByItsOwnDog,
              ReasonIsCurrent, Place
<1>. QED BY <1>1, <1>2, <1>3, <1>4, <1>5, <1>6 DEF BootCall

LEMMA TrapKeepsInv ==
    ASSUME BootInv, Trap PROVE BootInv'
BY DEF Trap, TrapsAreInstalled, dog, BootInv, BootTypeOK, GuardedByItsOwnDog,
       ReasonIsCurrent, Place

LEMMA TickKeepsInv ==
    ASSUME BootInv, Tick PROVE BootInv'
BY DEF Tick, BootInv, BootTypeOK, GuardedByItsOwnDog, ReasonIsCurrent

LEMMA RestartKeepsInv ==
    ASSUME BootInv, NEW c \in Cause, Restart(c) PROVE BootInv'
<1>1. saved' \in {0, Normal} /\ reason' \in Reason \cup {Unread}
  BY BootAssumption DEF Restart, BootInv, BootTypeOK
<1>. QED BY <1>1 DEF Restart, BootInv, BootTypeOK, GuardedByItsOwnDog, ReasonIsCurrent,
            Place, StartUp

LEMMA StepKeepsBootInv ==
    ASSUME BootInv, [Next]_vars PROVE BootInv'
<1>. USE DEF Cause
<1>1. CASE StartUpStep
  BY <1>1, StartUpKeepsInv DEF StartUpStep
<1>2. CASE UNCHANGED bootVars
  BY <1>2 DEF bootVars, dog, BootInv, BootTypeOK, GuardedByItsOwnDog, ReasonIsCurrent
<1>3. CASE CoreStep
  BY <1>2, <1>3, CallKeepsInv DEF CoreStep, CoreFree
<1>4. CASE DriverStep
  BY <1>2, <1>4 DEF DriverStep
<1>5. CASE OsStep
  BY <1>2, <1>5, CallKeepsInv DEF OsStep, BootCall
<1>6. CASE Hardware
  BY <1>6, TrapKeepsInv, TickKeepsInv DEF Hardware
<1>7. CASE Reset
  BY <1>7, RestartKeepsInv DEF Reset, Resets, DogBites, OldDogBites
<1>. QED BY <1>1, <1>2, <1>3, <1>4, <1>5, <1>6, <1>7 DEF Next, vars

LEMMA BootIsSafe == Spec => []BootInv
<1>1. Init => BootInv
  BY BootInvInit DEF Init
<1>2. BootInv /\ [Next]_vars => BootInv'
  BY StepKeepsBootInv
<1>. QED BY <1>1, <1>2, PTL DEF Spec

\* From its init on start-up runs under TIMG0 and nothing else, at a rate and
\* with a limit of the driver's choosing, whatever the core suspends and
\* resumes.
THEOREM GuardedByOneDog == Spec => []GuardedByItsOwnDog
BY BootIsSafe, PTL DEF BootInv

\* No boot reports the reset reason of an earlier one.
THEOREM ReasonIsOfThisBoot == Spec => []ReasonIsCurrent
BY BootIsSafe, PTL DEF BootInv

\* Every variable of the firmware keeps its type.
THEOREM TypeCorrect == Spec => []TypeOK
<1>1. BootInv /\ FlashTypeInv /\ ConfirmInv => TypeOK
  BY DEF BootInv, FlashTypeInv, ConfirmInv, TypeOK
<1>. QED BY <1>1, BootIsSafe, ImplementsFlash, FlashTypeCorrect, ImplementsConfirm,
            ConfirmIsSafe, PTL

-----------------------------------------------------------------------------
(***************************************************************************)
(* How long a hang lasts: what HangEndsInReset owes to the driver, without *)
(* the fairness it owes to the hardware.                                   *)
(***************************************************************************)

Hangs == place = "spin" /\ "TIMG0" \in armed

\* The watchdog of a hanging core is never stuck: it has a rate to count at,
\* and has counted no further than its limit.
HangIsTimed == Hangs => prescaler # 0 /\ count <= limit

\* A hanging core changes nothing: every step is a reset, or brings the
\* watchdog one tick closer to its bite.
HangCountsDown ==
    [][Hangs => \/ place' = "sterilize"
                \/ Hangs' /\ limit' = limit /\ limit' - count' < limit - count]_vars

\* The count of an armed watchdog stays within the limit.
CountInv == count <= limit

LEMMA StepKeepsCount ==
    ASSUME BootInv, CountInv, [Next]_vars PROVE CountInv'
<1>. USE DEF CountInv, BootInv, BootTypeOK
<1>1. CASE StartUpStep
  BY <1>1, LimitIsEnough
     DEF StartUpStep, Sterilize, ClearBss, InitFlash, InitWdt, InitCrypto, InitFails, dog
<1>2. CASE UNCHANGED bootVars
  BY <1>2 DEF bootVars, dog
<1>3. CASE BootCall \/ CoreReturns
  BY <1>3 DEF BootCall, Kick, Suspend, Resume, Deinit, GetResetReason, CoreReturns, dog
<1>4. CASE Trap \/ Tick
  BY <1>4 DEF Trap, Tick, dog
<1>5. CASE \E c \in Cause : Restart(c)
  BY <1>5 DEF Restart
<1>. QED
  BY <1>1, <1>2, <1>3, <1>4, <1>5
     DEF Next, CoreStep, DriverStep, OsStep, BootCall, Hardware, Reset, Resets, DogBites,
         OldDogBites, Cause, vars

LEMMA HangSteps ==
    ASSUME BootInv, Hangs, Next
    PROVE  \/ place' = "sterilize"
           \/ Hangs' /\ limit' = limit /\ limit' - count' < limit - count
<1>1. CASE Tick
  BY <1>1 DEF Tick, Hangs, BootInv, BootTypeOK
<1>2. CASE \E c \in Cause : Restart(c)
  BY <1>2 DEF Restart
<1>3. place = "spin"
  BY DEF Hangs
<1>. QED
  BY <1>1, <1>2, <1>3
     DEF Next, StartUpStep, Sterilize, ClearBss, InitFlash, InitWdt, InitCrypto, InitFails,
         Goes, CoreStep, CoreFree, DriverStep, OsStep, Hardware, Trap, TrapsAreInstalled,
         Reset, Resets, DogBites, OldDogBites, Cause

\* A trap, or a boot_main that returns, leaves the core in a loop: under an
\* armed watchdog, suspended or not, it is reset within as many ticks as are
\* left to the limit, unless something else resets it before.
THEOREM HangIsBounded == Spec => []HangIsTimed /\ HangCountsDown
<1>1. Init => CountInv
  BY DEF Init, BootInit, CountInv
<1>2. BootInv /\ CountInv => HangIsTimed
  BY BootAssumption
     DEF BootInv, BootTypeOK, CountInv, HangIsTimed, Hangs, GuardedByItsOwnDog
<1>3. BootInv /\ [Next]_vars =>
         [Hangs => \/ place' = "sterilize"
                   \/ Hangs' /\ limit' = limit /\ limit' - count' < limit - count]_vars
  BY HangSteps
<1>. QED
  BY <1>1, <1>2, <1>3, StepKeepsCount, BootIsSafe, PTL DEF Spec, HangCountsDown

=============================================================================
