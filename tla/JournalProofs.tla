--------------------------- MODULE JournalProofs ---------------------------
(***************************************************************************)
(* Theorems about Journal for every capacity, every set of payload lengths *)
(* and every checksum width. Those of the first part and of the last       *)
(* suppose that recovery runs with the deframer that matches the framer    *)
(* and that the file at rest is what was written; those of the second, on  *)
(* the RecoveryReport, say what a recovery reports also without it; the    *)
(* last part shows that Journal implements AppendLog.                      *)
(***************************************************************************)
EXTENDS Journal, Integers, FiniteSetTheorems, TLAPS

\* "Run recovery with the deframer that matches the wire format" (README.md).
Matched == ReaderSumLen = WriterSumLen /\ MaxRot = 0

-----------------------------------------------------------------------------
(* The inductive invariant. *)

StartOf(p) == p - file[p].at
EndOf(p) == StartOf(p) + Size(file[p])

\* Every byte of the file lies in a frame, and the bytes of that frame which
\* are in the file stand where the frame puts them.
Layout ==
    \A p \in Offsets : p < len =>
        /\ IsFrameByte(file[p])
        /\ file[p].at <= p
        /\ file[p].at < Size(file[p])
        /\ \A q \in Offsets :
              q < len /\ StartOf(p) <= q /\ q < EndOf(p)
              => file[q] = ByteOf(file[p], q - StartOf(p))

\* No frame reaches over offset n.
Closed(n) == \A p \in Offsets : p < n => EndOf(p) <= n

\* The file goes on after the last intact frame, but not with a whole frame.
TornAtLastGood ==
    /\ report.lastGood < len
    /\ len < report.lastGood + Size(file[report.lastGood])

Scanning == pc \in {"probe", "header", "payload", "seek", "truncate"}

InvWriter ==
    /\ pc = "ready" => cursor = len /\ Closed(len)
    /\ pc = "writing" =>
          /\ cursor = len
          /\ writing.id # 0
          /\ done <= Size(writing)
          /\ done <= len
          /\ Closed(len - done)
          /\ \A k \in 0..(done - 1) : file[(len - done) + k] = ByteOf(writing, k)

InvScan ==
    /\ Scanning =>
          /\ report.lastGood <= len
          /\ Closed(report.lastGood)
          /\ cursor <= len
    /\ pc = "probe" => cursor = report.lastGood
    /\ pc \in {"probe", "header", "payload"} => count = cursor
    /\ pc = "header" =>
          /\ report.lastGood < len
          /\ cursor + todo = report.lastGood + ReaderHeader
    /\ pc = "payload" =>
          /\ report.lastGood < len
          /\ declared = file[report.lastGood].plen
          /\ cursor + todo = report.lastGood + ReaderHeader + declared
          /\ todo <= declared
    /\ pc = "seek" =>
          IF report.end = "TornTail" THEN TornAtLastGood ELSE report.lastGood = len
    /\ pc = "truncate" => TornAtLastGood /\ cursor = report.lastGood

InvPromise ==
    /\ safeLen <= stable
    /\ Closed(safeLen)
    /\ PromisesKept

Inv ==
    /\ TypeOK
    /\ Layout
    /\ InvWriter
    /\ InvScan
    /\ InvPromise

-----------------------------------------------------------------------------
(* The layout of the file. *)

\* The types of the parts of a byte, and of the numbers derived from them.
LEMMA ByteTypes ==
    ASSUME TypeOK, NEW p \in Offsets
    PROVE  /\ p \in Nat /\ p < Capacity
           /\ file[p] \in Byte
           /\ file[p].at \in Nat /\ file[p].plen \in Nat
           /\ Size(file[p]) \in Nat /\ Size(file[p]) >= 4
           /\ StartOf(p) \in Int /\ EndOf(p) \in Int
<1>1. p \in Nat /\ p < Capacity /\ file[p] \in Byte
  BY JournalAssumption DEF TypeOK, Offsets
<1>2. file[p].at \in Nat /\ file[p].plen \in Nat
  BY <1>1 DEF Byte
<1>. QED
  BY <1>1, <1>2, JournalAssumption DEF Size, WriterHeader, LengthField, StartOf, EndOf

\* The lengths and offsets are numbers within the capacity.
LEMMA LenTypes ==
    ASSUME TypeOK
    PROVE  /\ Capacity \in Nat /\ len \in Nat /\ len <= Capacity
           /\ stable \in Nat /\ stable <= len
           /\ cursor \in Nat /\ cursor <= Capacity
           /\ report.lastGood \in Nat
           /\ \A p \in Nat : p < len => p \in Offsets
BY JournalAssumption DEF TypeOK, Offsets

\* A frame starts wherever no frame reaches over.
LEMMA FrameStarts ==
    ASSUME TypeOK, Layout, NEW b \in Nat, b < len, Closed(b)
    PROVE  /\ b \in Offsets
           /\ file[b].at = 0
           /\ IsFrameByte(file[b])
           /\ \A q \in Offsets : q < len /\ b <= q /\ q < b + Size(file[b])
                 => file[q] = ByteOf(file[b], q - b)
<1>1. b \in Offsets
  BY LenTypes
<1>2. ASSUME file[b].at # 0 PROVE FALSE
  <2>1. b - 1 \in Offsets /\ b - 1 < len
    BY <1>1, <1>2, ByteTypes, LenTypes DEF Layout
  <2>2. file[b - 1] = ByteOf(file[b], file[b].at - 1)
    <3>1. StartOf(b) <= b - 1 /\ b - 1 < EndOf(b)
      BY <1>1, <1>2, <2>1, ByteTypes DEF Layout, StartOf, EndOf
    <3>. QED BY <1>1, <2>1, <3>1, ByteTypes DEF Layout, StartOf
  <2>3. EndOf(b - 1) > b
    BY <1>1, <1>2, <2>1, <2>2, ByteTypes DEF Layout, ByteOf, StartOf, EndOf, Size
  <2>. QED BY <2>1, <2>3, ByteTypes DEF Closed
<1>3. QED
  BY <1>1, <1>2, ByteTypes DEF Layout, StartOf, EndOf

\* An offset no frame reaches over is a boundary.
LEMMA ClosedIsBoundary ==
    ASSUME TypeOK, Layout, NEW b \in Nat, b <= len, Closed(b)
    PROVE  Boundary(b)
<1>. SUFFICES ASSUME b # 0 PROVE Boundary(b)
  BY DEF Boundary
<1>1. b - 1 \in Offsets /\ b - 1 < len
  BY LenTypes
<1>2. EndOf(b - 1) <= b /\ file[b - 1].at < Size(file[b - 1])
  BY <1>1 DEF Closed, Layout
<1>. QED BY <1>1, <1>2, ByteTypes DEF Boundary, EndOf, StartOf, Layout

\* A frame that lies between two offsets no frame reaches over is whole.
LEMMA WholeFrame ==
    ASSUME TypeOK, Layout, NEW b \in Nat, b < len, Closed(b), b + Size(file[b]) <= len
    PROVE  CompleteAt(b) /\ Closed(b + Size(file[b]))
<1>1. b \in Offsets /\ file[b].at = 0 /\ IsFrameByte(file[b])
  BY FrameStarts
<1>2. \A q \in Offsets : q < len /\ b <= q /\ q < b + Size(file[b])
         => file[q] = ByteOf(file[b], q - b)
  BY FrameStarts
<1>3. CompleteAt(b)
  <2>. SUFFICES ASSUME NEW k \in 0..(Size(file[b]) - 1)
       PROVE  file[b + k] = ByteOf(file[b], k)
    BY <1>1 DEF CompleteAt
  <2>1. b + k \in Offsets /\ b + k < len
    BY <1>1, ByteTypes, LenTypes
  <2>. QED BY <1>1, <1>2, <2>1, ByteTypes
<1>4. Closed(b + Size(file[b]))
  <2>. SUFFICES ASSUME NEW p \in Offsets, p < b + Size(file[b])
       PROVE  EndOf(p) <= b + Size(file[b])
    BY DEF Closed
  <2>1. CASE p < b
    BY <1>1, <2>1, ByteTypes DEF Closed
  <2>2. CASE p >= b
    <3>1. file[p] = ByteOf(file[b], p - b)
      BY <1>1, <1>2, <2>2, ByteTypes, LenTypes
    <3>. QED BY <1>1, <3>1, ByteTypes DEF ByteOf, EndOf, StartOf, Size
  <2>. QED BY <2>1, <2>2, ByteTypes
<1>. QED BY <1>3, <1>4

\* A whole frame ends where no later frame has begun: it does not cross a
\* closed offset, and it does not lie in a torn frame.
LEMMA WholeFramesEnd ==
    ASSUME TypeOK, Layout, NEW b \in Nat, b < len, Closed(b), len < b + Size(file[b]),
           NEW p \in Offsets, CompleteAt(p)
    PROVE  p + Size(file[p]) <= b
<1>1. b \in Offsets /\ file[b].at = 0
  BY FrameStarts
<1>a. \A q \in Offsets : q < len /\ b <= q /\ q < b + Size(file[b])
         => file[q] = ByteOf(file[b], q - b)
  BY FrameStarts
<1>2. p < len /\ p + Size(file[p]) <= len
  BY DEF CompleteAt
<1>3. file[p].at = 0
  <2>1. file[p + 0] = ByteOf(file[p], 0)
    BY ByteTypes DEF CompleteAt
  <2>. QED BY <2>1, ByteTypes DEF ByteOf
<1>4. CASE p < b
  BY <1>3, <1>4, ByteTypes DEF Closed, EndOf, StartOf
<1>5. CASE p >= b
  <2>1. file[p] = ByteOf(file[b], p - b)
    BY <1>1, <1>a, <1>2, <1>5, ByteTypes, LenTypes
  <2>2. p = b
    BY <1>1, <1>3, <2>1, ByteTypes DEF ByteOf
  <2>. QED BY <1>2, <2>2, <1>1, ByteTypes, LenTypes
<1>. QED BY <1>4, <1>5, <1>1, ByteTypes

-----------------------------------------------------------------------------
(* Each action preserves the invariant. *)

\* Steps that change neither the file nor its length leave its layout as it is.
LEMMA SameFile ==
    ASSUME UNCHANGED <<file, len>>
    PROVE  /\ Layout' <=> Layout
           /\ \A n : Closed(n)' <=> Closed(n)
BY DEF Layout, Closed, StartOf, EndOf

\* An empty journal satisfies the invariant.
LEMMA InitInv == JournalAssumption /\ Init => Inv
<1>. SUFFICES ASSUME Init PROVE Inv
  OBVIOUS
<1>1. TypeOK
  BY JournalAssumption DEF Init, TypeOK, Offsets, Byte, Blank, PCs
<1>2. Layout /\ Closed(0)
  BY JournalAssumption DEF Init, Layout, Closed, Offsets
<1>3. InvWriter /\ InvScan /\ InvPromise
  BY <1>2, JournalAssumption DEF Init, InvWriter, InvScan, Scanning, InvPromise, PromisesKept, Offsets
<1>. QED BY <1>1, <1>2, <1>3 DEF Inv

\* write() begins a new frame: nothing of the file changes.
LEMMA StartWriteInv ==
    ASSUME Inv, NEW n \in PayloadLens, StartWrite(n) PROVE Inv'
<1>0. UNCHANGED <<file, len, stable, cursor, scanVars, historyVars>> /\ pc = "ready"
  BY DEF StartWrite
<1>1. TypeOK'
  BY JournalAssumption DEF Inv, TypeOK, StartWrite, scanVars, historyVars, PCs
<1>2. Layout'
  BY <1>0, SameFile DEF Inv
<1>3. InvWriter'
  BY <1>0, SameFile, LenTypes, JournalAssumption
  DEF Inv, InvWriter, StartWrite, Size, WriterHeader, LengthField, TypeOK
<1>4. InvScan' /\ InvPromise'
  BY <1>0, SameFile
  DEF Inv, InvScan, Scanning, InvPromise, PromisesKept, StartWrite, scanVars, historyVars
<1>. QED BY <1>1, <1>2, <1>3, <1>4 DEF Inv

\* The sink accepts bytes: the frame being written grows at the end of the file.
LEMMA AcceptInv ==
    ASSUME Inv, NEW n \in 1..Capacity, Accept(n) PROVE Inv'
<1> DEFINE b == len - done
<1>0. /\ pc = "writing" /\ pc' = "writing"
      /\ n <= SliceEnd - done /\ len + n <= Capacity
      /\ len' = len + n /\ cursor' = len' /\ done' = done + n
      /\ UNCHANGED <<stable, writing, safeLen, promised>>
      /\ cursor = len /\ done <= len /\ done <= Size(writing)
  BY LenTypes DEF Accept, Inv, InvWriter, TypeOK, historyVars
<1>1. /\ n \in Nat /\ n >= 1 /\ done \in Nat /\ b \in Nat /\ b + done = len
      /\ writing.plen \in Nat /\ Size(writing) \in Nat
      /\ done + n <= Size(writing) /\ len' \in Nat
  BY <1>0, LenTypes, JournalAssumption
  DEF Inv, TypeOK, Size, WriterHeader, LengthField, SliceEnd
<1>2. \A p \in Offsets : p < b => file'[p] = file[p]
  BY <1>0, <1>1, LenTypes DEF Accept, Offsets
<1>3. \A p \in Offsets : b <= p /\ p < len' => file'[p] = ByteOf(writing, p - b)
  <2>. SUFFICES ASSUME NEW p \in Offsets, b <= p, p < len'
       PROVE  file'[p] = ByteOf(writing, p - b)
    OBVIOUS
  <2>0. p \in Nat
    BY DEF Offsets
  <2>1. CASE p < len
    <3>1. file'[p] = file[p]
      BY <1>0, <2>0, <2>1, LenTypes DEF Accept, Inv
    <3>2. p - b \in 0..(done - 1) /\ b + (p - b) = p
      BY <1>1, <2>0, <2>1, LenTypes DEF Inv
    <3>3. file[b + (p - b)] = ByteOf(writing, p - b)
      BY <1>0, <3>2 DEF Inv, InvWriter
    <3>. QED BY <3>1, <3>2, <3>3
  <2>2. CASE p >= len
    <3>1. done + (p - cursor) = p - b
      BY <1>0, <1>1, <2>0, LenTypes DEF Inv
    <3>2. file'[p] = ByteOf(writing, done + (p - cursor))
      BY <1>0, <1>1, <2>0, <2>2 DEF Accept
    <3>. QED BY <3>1, <3>2
  <2>. QED BY <2>0, <2>1, <2>2, LenTypes DEF Inv
<1>4. TypeOK'
  <2>1. file' \in [Offsets -> Byte]
    <3>. SUFFICES ASSUME NEW p \in Offsets PROVE file'[p] \in Byte
      BY DEF Accept
    <3>1. ByteOf(writing, done + (p - cursor)) \in Byte \/ p < cursor
      BY <1>1, LenTypes DEF Inv, TypeOK, ByteOf, Byte, Offsets
    <3>. QED BY <3>1, ByteTypes, LenTypes DEF Accept, Inv, Offsets
  <2>. QED
    BY <1>0, <1>1, <2>1, LenTypes DEF Inv, TypeOK, Accept, scanVars, historyVars, PCs
<1>5. \A p \in Offsets : p < b =>
         /\ EndOf(p) <= b /\ EndOf(p)' = EndOf(p) /\ StartOf(p)' = StartOf(p)
  BY <1>0, <1>2 DEF Inv, InvWriter, Closed, EndOf, StartOf
<1>6. \A p \in Offsets : b <= p /\ p < len' =>
         /\ StartOf(p)' = b /\ EndOf(p)' = b + Size(writing)
         /\ file'[p] = ByteOf(writing, p - b)
  BY <1>1, <1>3 DEF EndOf, StartOf, Size, ByteOf, Offsets
<1>7. Layout'
  <2>. SUFFICES ASSUME NEW p \in Offsets, p < len'
       PROVE  /\ IsFrameByte(file'[p])
              /\ file'[p].at <= p
              /\ file'[p].at < Size(file'[p])
              /\ \A q \in Offsets :
                    q < len' /\ StartOf(p)' <= q /\ q < EndOf(p)'
                    => file'[q] = ByteOf(file'[p], q - StartOf(p)')
    BY DEF Layout
  <2>1. CASE p < b
    BY <1>0, <1>1, <1>2, <1>5, <2>1, LenTypes, ByteTypes DEF Inv, Layout
  <2>2. CASE p >= b
    <3>1. /\ p \in Nat /\ p - b \in Nat /\ p - b <= p /\ p - b < Size(writing)
      BY <1>0, <1>1, <2>2 DEF Offsets
    <3>2. file'[p] = ByteOf(writing, p - b)
      BY <1>6, <2>2
    <3>3. /\ file'[p].id = writing.id /\ file'[p].plen = writing.plen
          /\ file'[p].at = p - b /\ Size(file'[p]) = Size(writing)
      BY <3>2 DEF ByteOf, Size
    <3>4. ASSUME NEW q \in Offsets, q < len', b <= q
          PROVE  file'[q] = ByteOf(file'[p], q - b)
      BY <1>6, <3>3, <3>4 DEF ByteOf
    <3>5. StartOf(p)' = b
      BY <1>6, <2>2
    <3>6. writing.id # 0
      BY <1>0 DEF Inv, InvWriter
    <3>. QED BY <3>1, <3>3, <3>4, <3>5, <3>6 DEF IsFrameByte
  <2>. QED BY <1>1, <2>1, <2>2, LenTypes DEF Inv, Offsets
<1>8. InvWriter'
  <2>1. b = len' - done'
    BY <1>0, <1>1, LenTypes DEF Inv
  <2>2. Closed(len - done)'
    BY <1>5, <2>1 DEF Closed
  <2>3. \A k \in 0..(done' - 1) : file'[(len' - done') + k] = ByteOf(writing', k)
    <3>. SUFFICES ASSUME NEW k \in 0..(done' - 1)
         PROVE  file'[b + k] = ByteOf(writing, k)
      BY <1>0, <2>1
    <3>1. b + k \in Offsets /\ b + k < len' /\ b + k >= b /\ (b + k) - b = k
      BY <1>0, <1>1, LenTypes DEF Inv, Offsets
    <3>. QED BY <1>3, <3>1
  <2>. QED
    BY <1>0, <1>1, <2>1, <2>2, <2>3 DEF Inv, InvWriter, Size
<1>9. InvScan'
  BY <1>0 DEF InvScan, Scanning
<1>10. InvPromise'
  <2>1. safeLen \in Nat /\ safeLen <= len
    BY LenTypes DEF Inv, InvPromise, TypeOK
  <2>2. \A p \in Offsets : p < len => file'[p] = file[p]
    BY <1>0, LenTypes DEF Accept, Inv, Offsets
  <2>. QED
    BY <1>0, <1>1, <2>1, <2>2, LenTypes
    DEF Inv, InvPromise, Closed, EndOf, StartOf, PromisesKept, Offsets
<1>. QED BY <1>4, <1>7, <1>8, <1>9, <1>10 DEF Inv

\* Steps of the writer and of the application that leave the file alone.
LEMMA WriterRestInv ==
    ASSUME Inv, FinishWrite \/ DiskFull \/ WriteFault \/ FlushFault PROVE Inv'
<1>0. /\ UNCHANGED <<file, len, cursor, writeVars, scanVars, historyVars>>
      /\ pc' \in {"ready", "failed"}
      /\ pc' = "ready" => FinishWrite
      /\ stable' \in stable..len
  BY LenTypes DEF FinishWrite, DiskFull, WriteFault, FlushFault, Inv
<1>1. TypeOK'
  BY <1>0, LenTypes DEF Inv, TypeOK, writeVars, scanVars, historyVars, PCs
<1>2. Layout'
  BY <1>0, SameFile DEF Inv
<1>3. InvWriter'
  <2>. SUFFICES ASSUME FinishWrite PROVE cursor = len /\ Closed(len)
    BY <1>0, SameFile DEF InvWriter
  <2>1. /\ cursor = len /\ done = Size(writing) /\ done <= len /\ Closed(len - done)
        /\ \A k \in 0..(done - 1) : file[(len - done) + k] = ByteOf(writing, k)
    BY DEF FinishWrite, Inv, InvWriter
  <2>2. done \in Nat /\ len - done \in Nat
    BY <2>1, LenTypes DEF Inv, TypeOK
  <2>. SUFFICES ASSUME NEW p \in Offsets, p < len PROVE EndOf(p) <= len
    BY <2>1 DEF Closed
  <2>3. CASE p < len - done
    BY <2>1, <2>2, <2>3, LenTypes, ByteTypes DEF Closed, Inv
  <2>4. CASE p >= len - done
    <3>1. p - (len - done) \in 0..(done - 1) /\ (len - done) + (p - (len - done)) = p
      BY <2>2, <2>4, LenTypes DEF Inv, Offsets
    <3>2. file[p] = ByteOf(writing, p - (len - done))
      BY <2>1, <3>1
    <3>3. StartOf(p) = len - done /\ Size(file[p]) = done
      BY <2>1, <2>2, <3>2, LenTypes DEF StartOf, ByteOf, Size, Inv, Offsets
    <3>. QED BY <2>2, <3>3, LenTypes DEF EndOf, Inv
  <2>. QED BY <2>2, <2>3, <2>4 DEF Offsets
<1>4. InvScan'
  BY <1>0 DEF InvScan, Scanning
<1>5. InvPromise'
  BY <1>0, SameFile, LenTypes DEF Inv, InvPromise, PromisesKept, historyVars, TypeOK
<1>. QED BY <1>1, <1>2, <1>3, <1>4, <1>5 DEF Inv

\* A flush promises the whole file, which ends with a whole frame.
LEMMA FlushInv == ASSUME Inv, Flush PROVE Inv'
<1>0. /\ UNCHANGED <<file, len, cursor, pc, writeVars, scanVars, rot>>
      /\ pc = "ready" /\ stable' = len /\ safeLen' = len /\ promised' = file
  BY DEF Flush
<1>1. TypeOK'
  BY <1>0, LenTypes DEF Inv, TypeOK, writeVars, scanVars, PCs
<1>2. Layout' /\ InvWriter' /\ InvScan'
  BY <1>0, SameFile
  DEF Inv, InvWriter, InvScan, Scanning, writeVars, scanVars, TornAtLastGood
<1>3. InvPromise'
  BY <1>0, SameFile, LenTypes DEF Inv, InvWriter, InvPromise, PromisesKept
<1>. QED BY <1>1, <1>2, <1>3 DEF Inv

\* The steps of recovery that only read.
LEMMA ScanRest ==
    ASSUME Inv, UNCHANGED <<file, len, stable, writeVars, historyVars>>,
           pc' \notin {"ready", "writing"}, TypeOK', InvScan'
    PROVE  Inv'
BY SameFile DEF Inv, InvWriter, InvPromise, PromisesKept, historyVars

\* A scan begins at offset 0, which no frame reaches over.
LEMMA StartRecoveryInv == ASSUME Inv, StartRecovery PROVE Inv'
<1>1. TypeOK'
  BY JournalAssumption DEF Inv, TypeOK, StartRecovery, writeVars, historyVars, PCs
<1>2. Closed(0)'
  BY DEF Closed, Offsets
<1>3. InvScan'
  BY <1>2, LenTypes DEF Inv, InvScan, Scanning, StartRecovery
<1>. QED BY <1>1, <1>3, ScanRest DEF StartRecovery

\* The first byte of a header: there is a frame at the last good offset.
LEMMA ReadProbeInv == ASSUME Inv, ReadProbe PROVE Inv'
<1>1. TypeOK'
  BY JournalAssumption, LenTypes
  DEF Inv, TypeOK, InvScan, ReadProbe, writeVars, historyVars, PCs, ReaderHeader, LengthField
<1>2. InvScan'
  BY SameFile, LenTypes, JournalAssumption
  DEF Inv, InvScan, Scanning, ReadProbe, ReaderHeader, LengthField
<1>. QED BY <1>1, <1>2, ScanRest DEF ReadProbe

\* A short read moves the cursor towards the end of the header or payload.
LEMMA ReadSomeInv == ASSUME Inv, NEW n \in 1..Capacity, ReadSome(n) PROVE Inv'
<1>1. TypeOK'
  BY JournalAssumption, LenTypes
  DEF Inv, TypeOK, InvScan, ReadSome, writeVars, historyVars, PCs
<1>2. InvScan'
  BY SameFile, LenTypes, JournalAssumption
  DEF Inv, TypeOK, InvScan, Scanning, ReadSome, ReaderHeader, LengthField
<1>. QED BY <1>1, <1>2, ScanRest DEF ReadSome, Inv, TypeOK

\* The end of the stream: clean at a boundary, else the file ends inside a frame.
LEMMA EndOfStreamInv == ASSUME Inv, Matched, EndOfStream PROVE Inv'
<1>0. /\ UNCHANGED <<file, len, stable, cursor, writeVars, count, todo, declared, historyVars>>
      /\ pc' = "seek" /\ cursor = len
      /\ \/ pc = "probe" /\ report' = [report EXCEPT !.end = "CleanEof"]
         \/ /\ pc \in {"header", "payload"} /\ todo > 0
            /\ report' = [report EXCEPT !.end = "TornTail"]
  BY LenTypes DEF EndOfStream, EofKind, AfterError, Inv, InvScan, Scanning
<1>1. TypeOK'
  BY <1>0 DEF Inv, TypeOK, writeVars, historyVars, PCs
<1>2. report'.lastGood = report.lastGood
  BY <1>0 DEF Inv, TypeOK
<1>3. CASE pc = "probe"
  <2>1. report.lastGood = len /\ report'.end = "CleanEof"
    BY <1>0, <1>3 DEF Inv, TypeOK, InvScan
  <2>2. InvScan'
    BY <1>0, <1>2, <1>3, <2>1, SameFile DEF Inv, InvScan, Scanning
  <2>. QED BY <1>0, <1>1, <2>2, ScanRest
<1>4. CASE pc \in {"header", "payload"}
  <2>1. report'.end = "TornTail" /\ report.lastGood < len
    BY <1>0, <1>4 DEF Inv, TypeOK, InvScan
  <2>2. report.lastGood \in Offsets
    BY <2>1, LenTypes DEF Inv
  <2>3. len < report.lastGood + Size(file[report.lastGood])
    BY <1>0, <1>4, <2>2, LenTypes, ByteTypes, JournalAssumption
    DEF Inv, TypeOK, InvScan, Matched, Size, WriterHeader, ReaderHeader, LengthField
  <2>4. InvScan'
    BY <1>0, <1>2, <1>4, <2>1, <2>3, SameFile
    DEF Inv, InvScan, Scanning, TornAtLastGood
  <2>. QED BY <1>0, <1>1, <2>4, ScanRest
<1>. QED BY <1>0, <1>3, <1>4

\* The four bytes at a boundary decode to the length their frame was written with.
LEMMA ParseHeaderInv == ASSUME Inv, Matched, ParseHeader PROVE Inv'
<1> DEFINE b == report.lastGood
<1>0. /\ UNCHANGED <<file, len, stable, cursor, writeVars, report, count, historyVars>>
      /\ pc = "header" /\ todo = 0
      /\ declared' \in Decoded(cursor - ReaderHeader)
      /\ \/ pc' = "stopped" /\ todo' = 0
         \/ pc' = "payload" /\ todo' = declared'
  BY DEF ParseHeader, AfterError
<1>1. /\ b \in Nat /\ b < len /\ Closed(b) /\ cursor = b + ReaderHeader
      /\ ReaderHeader \in Nat /\ ReaderHeader >= 4 /\ cursor <= len
      /\ ReaderHeader = WriterHeader /\ count = cursor
  BY <1>0, LenTypes, JournalAssumption
  DEF Inv, InvScan, Scanning, ReaderHeader, WriterHeader, LengthField, Matched
<1>2. /\ b \in Offsets /\ IsFrameByte(file[b])
      /\ \A q \in Offsets : q < len /\ b <= q /\ q < b + Size(file[b])
            => file[q] = ByteOf(file[b], q - b)
  BY <1>1, FrameStarts DEF Inv
<1>3. \A k \in 0..(LengthField - 1) : file[b + k] = ByteOf(file[b], k)
  <2>. SUFFICES ASSUME NEW k \in 0..3 PROVE file[b + k] = ByteOf(file[b], k)
    BY DEF LengthField
  <2>1. b + k \in Offsets /\ b + k < len /\ b <= b + k /\ b + k < b + Size(file[b])
        /\ (b + k) - b = k
    BY <1>1, <1>2, LenTypes, ByteTypes DEF Inv
  <2>. QED BY <1>2, <2>1
<1>4. declared' = file[b].plen
  <2>1. cursor - ReaderHeader = b
    BY <1>1, LenTypes DEF Inv
  <2>. QED BY <1>0, <1>2, <1>3, <2>1 DEF Decoded
<1>5. declared' \in Nat
  BY <1>2, <1>4, ByteTypes DEF Inv
<1>6. TypeOK'
  BY <1>0, <1>5 DEF Inv, TypeOK, writeVars, historyVars, PCs
<1>7. InvScan'
  BY <1>0, <1>1, <1>4, <1>5, SameFile, LenTypes DEF Inv, InvScan, Scanning
<1>. QED BY <1>0, <1>6, <1>7, ScanRest

\* The frame that has been read is whole, so its checksum is right.
LEMMA FrameIsWhole ==
    ASSUME Inv, Matched, pc = "payload", todo = 0
    PROVE  /\ cursor - ReaderHeader - declared = report.lastGood
           /\ report.lastGood \in Offsets
           /\ report.lastGood + Size(file[report.lastGood]) = cursor
           /\ CompleteAt(report.lastGood)
           /\ Closed(cursor)
           /\ Verifies(report.lastGood)
<1> DEFINE b == report.lastGood
<1>1. /\ b \in Nat /\ b < len /\ Closed(b) /\ cursor <= len
      /\ cursor = b + ReaderHeader + declared /\ declared = file[b].plen
      /\ ReaderHeader = WriterHeader /\ ReaderHeader \in Nat /\ declared \in Nat
  BY LenTypes, JournalAssumption
  DEF Inv, TypeOK, InvScan, Scanning, ReaderHeader, WriterHeader, LengthField, Matched
<1>2. b \in Offsets
  BY <1>1, LenTypes DEF Inv
<1>3. b + Size(file[b]) = cursor /\ cursor - ReaderHeader - declared = b
  BY <1>1, <1>2, LenTypes DEF Size, Inv
<1>4. CompleteAt(b) /\ Closed(cursor)
  BY <1>1, <1>3, WholeFrame DEF Inv
<1>. QED BY <1>1, <1>2, <1>3, <1>4 DEF Verifies, Matched

\* A frame read in full is whole, and no frame reaches over its end.
LEMMA FrameReadInv == ASSUME Inv, Matched, FrameRead PROVE Inv'
<1>0. /\ UNCHANGED <<file, len, stable, cursor, writeVars, count, todo, declared, historyVars>>
      /\ pc = "payload" /\ todo = 0 /\ count = cursor /\ cursor <= len
  BY DEF FrameRead, Inv, InvScan, Scanning
<1>1. Closed(cursor) /\ Verifies(cursor - ReaderHeader - declared)
  BY <1>0, FrameIsWhole
<1>2. pc' = "probe" /\ report' = Counted(report, count)
  BY <1>1 DEF FrameRead
<1>3. report' \in [frames : Nat, lastGood : 0..Capacity, end : {"CleanEof", "TornTail"}]
      /\ report'.lastGood = cursor
  <2>1. report \in [frames : Nat, lastGood : 0..Capacity, end : {"CleanEof", "TornTail"}]
        /\ count \in 0..Capacity
    BY DEF Inv, TypeOK
  <2>2. report' = [report EXCEPT !.frames = report.frames + 1, !.lastGood = count]
    BY <1>2 DEF Counted
  <2>3. report' = [frames |-> report.frames + 1, lastGood |-> count, end |-> report.end]
    BY <2>1, <2>2
  <2>. QED BY <1>0, <2>1, <2>3
<1>4. TypeOK'
  BY <1>0, <1>2, <1>3 DEF Inv, TypeOK, writeVars, historyVars, PCs
<1>5. InvScan'
  BY <1>0, <1>1, <1>2, <1>3, SameFile DEF InvScan, Scanning
<1>. QED BY <1>0, <1>2, <1>4, <1>5, ScanRest

\* recover_file returns with the cursor at the end of the last whole frame.
LEMMA SeekBackInv == ASSUME Inv, SeekBack PROVE Inv'
<1>0. /\ UNCHANGED <<file, len, stable, writeVars, scanVars, historyVars>>
      /\ pc = "seek" /\ cursor' = report.lastGood
      /\ report.end \in {"CleanEof", "TornTail"}
  BY DEF SeekBack, AppendOffset, Inv, TypeOK
<1>1. TypeOK'
  BY <1>0 DEF Inv, TypeOK, SeekBack, writeVars, scanVars, historyVars, PCs
<1>2. CASE report.end = "TornTail"
  <2>1. InvScan' /\ pc' = "truncate"
    BY <1>0, <1>2, SameFile, LenTypes
    DEF Inv, InvScan, Scanning, SeekBack, scanVars, TornAtLastGood
  <2>. QED BY <1>0, <1>1, <2>1, ScanRest
<1>3. CASE report.end = "CleanEof"
  <2>1. pc' = "ready" /\ report.lastGood = len /\ Closed(len)
    BY <1>0, <1>3 DEF SeekBack, Inv, InvScan, Scanning
  <2>2. InvWriter' /\ InvScan' /\ Layout' /\ InvPromise'
    BY <1>0, <2>1, SameFile
    DEF Inv, InvWriter, InvScan, Scanning, InvPromise, PromisesKept, historyVars
  <2>. QED BY <1>1, <2>2 DEF Inv
<1>. QED BY <1>0, <1>2, <1>3

\* A file cut at an offset keeps the layout of what is left.
LEMMA CutLayout ==
    ASSUME Inv, NEW n \in Nat, n <= len, file' = CutAt(n), len' = n
    PROVE  /\ file' \in [Offsets -> Byte]
           /\ Layout'
           /\ \A p \in Offsets : p < n => file'[p] = file[p]
           /\ \A m \in Nat : m <= n /\ Closed(m) => Closed(m)'
<1>1. \A p \in Offsets : p < n => file'[p] = file[p]
  BY DEF CutAt
<1>2. file' \in [Offsets -> Byte]
  BY ByteTypes, JournalAssumption DEF Inv, CutAt, Byte, Blank
<1>3. Layout'
  BY <1>1, LenTypes DEF Inv, Layout, StartOf, EndOf, Offsets
<1>4. \A m \in Nat : m <= n /\ Closed(m) => Closed(m)'
  BY <1>1, LenTypes DEF Closed, StartOf, EndOf, Offsets
<1>. QED BY <1>1, <1>2, <1>3, <1>4

\* What a flush has made stable ends before any torn frame.
LEMMA PromiseBeforeTorn ==
    ASSUME Inv, pc = "truncate" PROVE safeLen <= report.lastGood
<1> DEFINE b == report.lastGood
<1>1. b \in Nat /\ b < len /\ Closed(b) /\ len < b + Size(file[b])
  BY LenTypes DEF Inv, InvScan, Scanning, TornAtLastGood
<1>2. b \in Offsets /\ file[b].at = 0
  BY <1>1, FrameStarts DEF Inv
<1>. SUFFICES ASSUME b < safeLen PROVE FALSE
  BY <1>1 DEF Inv, TypeOK
<1>3. EndOf(b) <= safeLen /\ safeLen \in Nat /\ safeLen <= len
  BY <1>2, LenTypes DEF Inv, InvPromise, Closed, TypeOK
<1>. QED BY <1>1, <1>2, <1>3, ByteTypes, LenTypes DEF EndOf, StartOf, Inv

\* Cutting the torn tail leaves whole frames only.
LEMMA TruncateInv == ASSUME Inv, Truncate PROVE Inv'
<1> DEFINE b == report.lastGood
<1>0. /\ UNCHANGED <<cursor, writeVars, scanVars, historyVars>>
      /\ pc = "truncate" /\ pc' = "ready"
      /\ file' = CutAt(b) /\ len' = b
      /\ stable' = IF stable > b THEN b ELSE stable
  BY DEF Truncate
<1>1. /\ b \in Nat /\ b <= len /\ Closed(b) /\ cursor = b
      /\ safeLen \in Nat /\ safeLen <= b /\ safeLen <= stable'
  BY <1>0, PromiseBeforeTorn, LenTypes DEF Inv, InvScan, InvPromise, Scanning, TypeOK
<1>2. /\ file' \in [Offsets -> Byte] /\ Layout'
      /\ \A p \in Offsets : p < b => file'[p] = file[p]
      /\ \A m \in Nat : m <= b /\ Closed(m) => Closed(m)'
  BY <1>0, <1>1, CutLayout
<1>3. TypeOK'
  BY <1>0, <1>1, <1>2, LenTypes DEF Inv, TypeOK, writeVars, scanVars, historyVars, PCs
<1>4. InvWriter' /\ InvScan'
  BY <1>0, <1>1, <1>2 DEF InvWriter, InvScan, Scanning
<1>5. InvPromise'
  BY <1>0, <1>1, <1>2 DEF Inv, InvPromise, PromisesKept, historyVars, Offsets
<1>. QED BY <1>2, <1>3, <1>4, <1>5 DEF Inv

\* A device fault ends the call and leaves the file alone.
LEMMA DeviceFaultInv == ASSUME Inv, DeviceFault PROVE Inv'
<1>0. UNCHANGED <<file, len, stable, cursor, writeVars, scanVars, historyVars>> /\ pc' = "failed"
  BY DEF DeviceFault, AfterError
<1>1. TypeOK' /\ InvScan'
  BY <1>0 DEF Inv, TypeOK, InvScan, Scanning, writeVars, scanVars, historyVars, PCs
<1>. QED BY <1>0, <1>1, ScanRest

\* A crash cuts the file anywhere in the part that is not stable.
LEMMA CrashInv == ASSUME Inv, Crash PROVE Inv'
<1>0. PICK n \in stable..len : file' = CutAt(n) /\ len' = n /\ stable' = n
  BY DEF Crash
<1>1. /\ UNCHANGED <<cursor, writeVars, scanVars, historyVars>> /\ pc' = "down"
      /\ n \in Nat /\ n <= len /\ safeLen \in Nat /\ safeLen <= n
  BY <1>0, LenTypes DEF Crash, Inv, InvPromise, TypeOK
<1>2. /\ file' \in [Offsets -> Byte] /\ Layout'
      /\ \A p \in Offsets : p < n => file'[p] = file[p]
      /\ \A m \in Nat : m <= n /\ Closed(m) => Closed(m)'
  BY <1>0, <1>1, CutLayout
<1>3. TypeOK'
  BY <1>0, <1>1, <1>2, LenTypes DEF Inv, TypeOK, writeVars, scanVars, historyVars, PCs
<1>4. InvWriter' /\ InvScan'
  BY <1>1 DEF InvWriter, InvScan, Scanning
<1>5. InvPromise'
  BY <1>0, <1>1, <1>2 DEF Inv, InvPromise, PromisesKept, historyVars, Offsets
<1>. QED BY <1>2, <1>3, <1>4, <1>5 DEF Inv

-----------------------------------------------------------------------------

\* Every step of the journal preserves the invariant.
THEOREM InvInductive ==
    ASSUME Matched, Inv, [Next]_vars PROVE Inv'
<1>1. CASE UNCHANGED vars
  BY <1>1, SameFile
  DEF vars, writeVars, scanVars, historyVars, Inv, TypeOK, InvWriter, InvScan, Scanning,
      TornAtLastGood, InvPromise, PromisesKept
<1>2. ASSUME NEW n \in PayloadLens, StartWrite(n) PROVE Inv'
  BY <1>2, StartWriteInv
<1>3. CASE WriterStep
  BY <1>3, AcceptInv, WriterRestInv DEF WriterStep
<1>4. CASE Flush
  BY <1>4, FlushInv
<1>5. CASE ScanStep
  BY <1>5, ReadProbeInv, ReadSomeInv, EndOfStreamInv, ParseHeaderInv, FrameReadInv,
     SeekBackInv DEF ScanStep
<1>6. CASE RepairStep
  BY <1>6, StartRecoveryInv, TruncateInv DEF RepairStep
<1>7. CASE Disturbance
  BY <1>7, WriterRestInv, DeviceFaultInv, CrashInv DEF Disturbance
<1>8. ASSUME NEW p \in Offsets, Rot(p) PROVE Inv'
  BY <1>8 DEF Rot, Matched, Inv, TypeOK
<1>. QED BY <1>1, <1>2, <1>3, <1>4, <1>5, <1>6, <1>7, <1>8 DEF Next

\* The inductive invariant holds in every reachable state.
THEOREM Invariance == ASSUME Matched PROVE Spec => []Inv
<1>1. Init => Inv
  BY InitInv, JournalAssumption
<1>2. Inv /\ [Next]_vars => Inv'
  BY InvInductive
<1>. QED BY <1>1, <1>2, PTL DEF Spec

(***************************************************************************)
(* The variables keep their types, and a crash can never take more than    *)
(* the file holds.                                                         *)
(***************************************************************************)
THEOREM TypeCorrect == ASSUME Matched PROVE Spec => []TypeOK
<1>1. Inv => TypeOK
  BY DEF Inv
<1>. QED BY <1>1, Invariance, PTL

(***************************************************************************)
(* The application never appends anywhere but at the end of a file that    *)
(* ends with a whole frame, whatever crashed or failed before.             *)
(***************************************************************************)
THEOREM AppendsSafe == ASSUME Matched PROVE Spec => []AppendsAtBoundary
<1>1. Inv => AppendsAtBoundary
  BY ClosedIsBoundary, LenTypes DEF Inv, InvWriter, AppendsAtBoundary
<1>. QED BY <1>1, Invariance, PTL

(***************************************************************************)
(* What a successful flush has made stable survives every later crash,     *)
(* recovery, truncation and append.                                        *)
(***************************************************************************)
THEOREM Durable == ASSUME Matched PROVE Spec => []PromisesKept
<1>1. Inv => PromisesKept
  BY DEF Inv, InvPromise
<1>. QED BY <1>1, Invariance, PTL

\* A step that changes no byte below n loses no frame that ends at or before n.
LEMMA KeepsWhole ==
    ASSUME TypeOK, NEW p \in Offsets, CompleteAt(p), NEW n \in Nat, p + Size(file[p]) <= n,
           len' \in Nat, n <= len', \A q \in Offsets : q < n => file'[q] = file[q]
    PROVE  CompleteAt(p)'
<1>1. /\ p < n /\ file'[p] = file[p] /\ p + Size(file[p]) <= len'
      /\ IsFrameByte(file[p]) /\ p < len'
  BY ByteTypes, LenTypes DEF CompleteAt
<1>2. ASSUME NEW k \in 0..(Size(file[p]) - 1) PROVE file'[p + k] = ByteOf(file[p], k)
  <2>1. p + k \in Offsets /\ p + k < n
    BY ByteTypes, LenTypes DEF CompleteAt
  <2>. QED BY <2>1 DEF CompleteAt
<1>. QED BY <1>1, <1>2 DEF CompleteAt

(***************************************************************************)
(* No step but a crash loses a frame that is whole in the file: neither    *)
(* recover_file, nor the truncation its report authorizes, nor the writer. *)
(***************************************************************************)
THEOREM RepairSafe == ASSUME Matched PROVE Spec => CompleteFramesKept
<1> DEFINE Kept == pc' # "down" => \A p \in Offsets : CompleteAt(p) => CompleteAt(p)'
<1>1. ASSUME Inv, Next PROVE Kept
  <2>. SUFFICES ASSUME pc' # "down", NEW p \in Offsets, CompleteAt(p) PROVE CompleteAt(p)'
    OBVIOUS
  <2>1. CASE UNCHANGED <<file, len>>
    BY <2>1 DEF CompleteAt
  <2>2. ASSUME NEW n \in 1..Capacity, Accept(n) PROVE CompleteAt(p)'
    <3>1. cursor = len /\ len' = len + n /\ \A q \in Offsets : q < len => file'[q] = file[q]
      BY <1>1, <2>2, LenTypes DEF Accept, Inv, InvWriter, Offsets
    <3>. QED BY <1>1, <3>1, KeepsWhole, LenTypes DEF Inv, CompleteAt
  <2>3. CASE Truncate
    <3>1. /\ report.lastGood \in Nat /\ report.lastGood < len /\ Closed(report.lastGood)
          /\ len < report.lastGood + Size(file[report.lastGood])
      BY <1>1, <2>3, LenTypes DEF Truncate, Inv, InvScan, Scanning, TornAtLastGood
    <3>2. p + Size(file[p]) <= report.lastGood
      BY <1>1, <3>1, WholeFramesEnd DEF Inv
    <3>3. len' = report.lastGood /\ \A q \in Offsets : q < report.lastGood => file'[q] = file[q]
      BY <2>3 DEF Truncate, CutAt
    <3>. QED BY <1>1, <3>1, <3>2, <3>3, KeepsWhole DEF Inv
  <2>. QED
    BY <1>1, <2>1, <2>2, <2>3
    DEF Next, StartWrite, WriterStep, FinishWrite, DiskFull, Flush, ScanStep, ReadProbe,
        ReadSome, EndOfStream, ParseHeader, FrameRead, SeekBack, RepairStep, StartRecovery,
        Disturbance, WriteFault, FlushFault, DeviceFault, Crash, Rot
<1>2. Inv /\ [Next]_vars => [Kept]_vars
  BY <1>1
<1>. QED BY <1>2, Invariance, PTL DEF Spec, CompleteFramesKept

-----------------------------------------------------------------------------
(***************************************************************************)
(* The RecoveryReport. What a checksummed recovery counts is whole,        *)
(* whatever rotted and whatever wrote the file; with the matching          *)
(* deframer, the report is exact.                                          *)
(***************************************************************************)

-----------------------------------------------------------------------------
(* Where a scan stands, whatever the file holds. *)

Reading == pc \in {"probe", "header", "payload"}

ScanCursor ==
    /\ Reading => count = cursor
    /\ pc = "probe" => cursor = report.lastGood
    /\ pc = "header" => cursor + todo = report.lastGood + ReaderHeader
    /\ pc = "payload" => cursor + todo = report.lastGood + ReaderHeader + declared

CursorInv == TypeOK /\ ScanCursor

\* The types of the header lengths.
LEMMA HeaderTypes ==
    /\ ReaderHeader \in Nat /\ ReaderHeader >= 4
    /\ WriterHeader \in Nat /\ WriterHeader >= 4
BY JournalAssumption DEF ReaderHeader, WriterHeader, LengthField

\* The steps of the writer, the repair and the environment, which are no part of a scan.
OutsideScan ==
    \/ \E n \in PayloadLens : StartWrite(n)
    \/ \E n \in 1..Capacity : Accept(n)
    \/ FinishWrite \/ DiskFull \/ WriteFault \/ Flush \/ FlushFault
    \/ Truncate \/ DeviceFault \/ Crash
    \/ \E p \in Offsets : Rot(p)

\* They keep the types and never lead into a scan.
LEMMA OutsideScanInv ==
    ASSUME TypeOK, OutsideScan
    PROVE  CursorInv' /\ pc' \notin {"probe", "header", "payload", "seek"}
<1>1. ASSUME NEW n \in PayloadLens, StartWrite(n) PROVE TypeOK'
  BY <1>1, JournalAssumption DEF TypeOK, StartWrite, scanVars, historyVars, PCs
<1>2. ASSUME NEW n \in 1..Capacity, Accept(n) PROVE TypeOK'
  <2>1. ASSUME NEW p \in Offsets PROVE file'[p] \in Byte
    <3>1. file[p] \in Byte /\ p \in Nat
      BY ByteTypes
    <3>2. CASE cursor <= p /\ p < cursor + n
      <4>1. file'[p] = ByteOf(writing, done + (p - cursor))
        BY <1>2, <3>2 DEF Accept
      <4>2. done + (p - cursor) \in Nat
        BY <3>1, <3>2, LenTypes DEF TypeOK
      <4>. QED BY <4>1, <4>2 DEF TypeOK, ByteOf, Byte
    <3>3. CASE ~(cursor <= p /\ p < cursor + n)
      BY <1>2, <3>1, <3>3 DEF Accept
    <3>. QED BY <3>2, <3>3
  <2>2. file' \in [Offsets -> Byte]
    BY <1>2, <2>1 DEF Accept
  <2>3. /\ len' \in 0..Capacity /\ cursor' \in 0..Capacity /\ stable' \in 0..len'
        /\ done' \in Nat
    BY <1>2, LenTypes DEF Accept, TypeOK
  <2>. QED BY <1>2, <2>2, <2>3 DEF TypeOK, Accept, scanVars, historyVars, PCs
<1>3. ASSUME FinishWrite \/ DiskFull \/ WriteFault \/ Flush \/ FlushFault \/ DeviceFault
      PROVE  TypeOK'
  BY <1>3, LenTypes
  DEF FinishWrite, DiskFull, WriteFault, Flush, FlushFault, DeviceFault, AfterError,
      TypeOK, writeVars, scanVars, historyVars, PCs
<1>4. ASSUME NEW n \in 0..Capacity, file' = CutAt(n) PROVE file' \in [Offsets -> Byte]
  BY <1>4, ByteTypes, JournalAssumption DEF CutAt, Byte, Blank
<1>5. ASSUME Truncate PROVE TypeOK'
  <2>1. report.lastGood \in 0..Capacity
    BY DEF TypeOK
  <2>2. file' \in [Offsets -> Byte] /\ len' \in 0..Capacity /\ stable' \in 0..len'
    BY <1>4, <1>5, <2>1, LenTypes DEF Truncate
  <2>. QED BY <1>5, <2>2 DEF Truncate, TypeOK, writeVars, scanVars, historyVars, PCs
<1>6. ASSUME Crash PROVE TypeOK'
  <2>1. PICK n \in stable..len : file' = CutAt(n) /\ len' = n /\ stable' = n
    BY <1>6 DEF Crash
  <2>2. n \in 0..Capacity
    BY LenTypes
  <2>3. file' \in [Offsets -> Byte] /\ len' \in 0..Capacity /\ stable' \in 0..len'
    BY <1>4, <2>1, <2>2
  <2>. QED BY <1>6, <2>3 DEF Crash, TypeOK, writeVars, scanVars, historyVars, PCs
<1>7. ASSUME NEW p \in Offsets, Rot(p) PROVE TypeOK'
  <2>1. file' \in [Offsets -> Byte]
    BY <1>7, JournalAssumption DEF Rot, TypeOK, Byte, Blank
  <2>2. rot' \in 0..MaxRot
    BY <1>7, JournalAssumption DEF Rot, TypeOK
  <2>. QED BY <1>7, <2>1, <2>2 DEF Rot, TypeOK, writeVars, scanVars, PCs
<1>8. TypeOK'
  BY <1>1, <1>2, <1>3, <1>5, <1>6, <1>7 DEF OutsideScan
<1>9. pc' \notin {"probe", "header", "payload", "seek"}
  BY DEF OutsideScan, StartWrite, Accept, FinishWrite, DiskFull, WriteFault, Flush, FlushFault,
         Truncate, DeviceFault, AfterError, Crash, Rot
<1>. QED BY <1>8, <1>9 DEF CursorInv, ScanCursor, Reading

\* A scan starts at offset 0 and counts the bytes it reads.
LEMMA ScanStepCursor ==
    ASSUME CursorInv, ScanStep \/ StartRecovery PROVE CursorInv'
<1>1. ASSUME StartRecovery PROVE CursorInv'
  BY <1>1, JournalAssumption
  DEF CursorInv, TypeOK, ScanCursor, Reading, StartRecovery, writeVars, historyVars, PCs
<1>2. ASSUME ReadProbe PROVE CursorInv'
  <2>1. /\ cursor' \in 0..Capacity /\ count' = cursor' /\ todo' \in Nat
        /\ cursor' + todo' = report.lastGood + ReaderHeader
    BY <1>2, LenTypes, HeaderTypes DEF ReadProbe, CursorInv, ScanCursor, Reading
  <2>. QED BY <1>2, <2>1
       DEF CursorInv, TypeOK, ScanCursor, Reading, ReadProbe, writeVars, historyVars, PCs
<1>3. ASSUME NEW n \in 1..Capacity, ReadSome(n) PROVE CursorInv'
  <2>1. /\ cursor' \in 0..Capacity /\ count' = cursor' /\ todo' \in Nat
        /\ cursor' + todo' = cursor + todo
    BY <1>3, LenTypes DEF ReadSome, CursorInv, TypeOK, ScanCursor, Reading
  <2>. QED BY <1>3, <2>1
       DEF CursorInv, TypeOK, ScanCursor, Reading, ReadSome, writeVars, historyVars, PCs
<1>4. ASSUME EndOfStream PROVE CursorInv'
  BY <1>4
  DEF CursorInv, TypeOK, ScanCursor, Reading, EndOfStream, EofKind, AfterError, writeVars,
      historyVars, PCs
<1>5. ASSUME ParseHeader PROVE CursorInv'
  <2>1. cursor = report.lastGood + ReaderHeader /\ cursor \in Nat /\ cursor <= Capacity
    BY <1>5, LenTypes DEF ParseHeader, CursorInv, TypeOK, ScanCursor
  <2>2. declared' \in Nat
    <3>. SUFFICES Decoded(cursor - ReaderHeader) \subseteq Nat
      BY <1>5 DEF ParseHeader
    <3>1. /\ report.lastGood \in Offsets /\ cursor - ReaderHeader = report.lastGood
      BY <2>1, LenTypes, HeaderTypes DEF CursorInv, Offsets
    <3>. QED BY <3>1, ByteTypes, JournalAssumption DEF Decoded, CursorInv
  <2>. QED BY <1>5, <2>1, <2>2
       DEF CursorInv, TypeOK, ScanCursor, Reading, ParseHeader, AfterError, writeVars,
           historyVars, PCs
<1>6. ASSUME FrameRead PROVE CursorInv'
  <2>1. CASE Verifies(cursor - ReaderHeader - declared)
    <3>1. pc' = "probe" /\ report' = Counted(report, count)
      BY <1>6, <2>1 DEF FrameRead
    <3>2. report \in [frames : Nat, lastGood : 0..Capacity, end : {"CleanEof", "TornTail"}]
          /\ count \in 0..Capacity /\ count = cursor
      BY <1>6 DEF FrameRead, CursorInv, TypeOK, ScanCursor, Reading
    <3>3. report' = [frames |-> report.frames + 1, lastGood |-> cursor, end |-> report.end]
      BY <3>1, <3>2 DEF Counted
    <3>. QED BY <1>6, <3>1, <3>2, <3>3
         DEF FrameRead, CursorInv, TypeOK, ScanCursor, Reading, writeVars, historyVars, PCs
  <2>2. CASE ~Verifies(cursor - ReaderHeader - declared)
    BY <1>6, <2>2
    DEF FrameRead, AfterError, CursorInv, TypeOK, ScanCursor, Reading, writeVars, historyVars,
        PCs
  <2>. QED BY <2>1, <2>2
<1>7. ASSUME SeekBack PROVE CursorInv'
  BY <1>7
  DEF SeekBack, AppendOffset, CursorInv, TypeOK, ScanCursor, Reading, writeVars, scanVars,
      historyVars, PCs
<1>. QED BY <1>1, <1>2, <1>3, <1>4, <1>5, <1>6, <1>7 DEF ScanStep

-----------------------------------------------------------------------------
(* Counting whole frames. *)

WholeBelow(n) == {p \in Offsets : p < n /\ CompleteAt(p)}

\* There are finitely many.
LEMMA WholeBelowFinite == IsFiniteSet(WholeBelow(len)) /\ \A n : IsFiniteSet(WholeBelow(n))
<1>1. IsFiniteSet(Offsets)
  BY FS_Interval, JournalAssumption DEF Offsets
<1>2. \A n : WholeBelow(n) \in SUBSET Offsets
  BY DEF WholeBelow
<1>. QED BY <1>1, <1>2, FS_Subset

\* No frame is whole inside a whole frame, so a whole frame adds one to the count.
LEMMA OneMore ==
    ASSUME TypeOK, NEW b \in Offsets, CompleteAt(b)
    PROVE  Cardinality(WholeBelow(b + Size(file[b]))) = Cardinality(WholeBelow(b)) + 1
<1>1. b \notin WholeBelow(b) /\ IsFiniteSet(WholeBelow(b))
  BY WholeBelowFinite, ByteTypes DEF WholeBelow
<1>2. WholeBelow(b + Size(file[b])) = WholeBelow(b) \cup {b}
  <2>1. ASSUME NEW p \in Offsets, b < p, p < b + Size(file[b]), CompleteAt(p) PROVE FALSE
    <3>1. p - b \in 0..(Size(file[b]) - 1) /\ b + (p - b) = p /\ p - b # 0
      BY <2>1, ByteTypes
    <3>2. file[p] = ByteOf(file[b], p - b)
      BY <3>1 DEF CompleteAt
    <3>3. 0 \in 0..(Size(file[p]) - 1) /\ p + 0 = p
      BY ByteTypes
    <3>4. file[p] = ByteOf(file[p], 0)
      BY <2>1, <3>3 DEF CompleteAt
    <3>. QED BY <3>1, <3>2, <3>4 DEF ByteOf
  <2>2. b < b + Size(file[b])
    BY ByteTypes
  <2>3. \A p \in Offsets : p < b + Size(file[b]) /\ CompleteAt(p) => p < b \/ p = b
    BY <2>1, ByteTypes
  <2>4. \A p \in Offsets : p < b => p < b + Size(file[b])
    BY ByteTypes
  <2>. QED BY <2>2, <2>3, <2>4 DEF WholeBelow
<1>. QED BY <1>1, <1>2, FS_AddElement

\* The frames counted so far are those whole below the last good offset, which they fill.
Counts ==
    Reading \/ pc = "seek" =>
        /\ report.frames = Cardinality(WholeBelow(report.lastGood))
        /\ \A p \in Offsets : p < report.lastGood =>
              \E s \in 0..p : CompleteAt(s) /\ p < s + Size(file[s])

\* Counting stays right if what passes for an intact frame is whole, and is as long as
\* the reader takes it for.
LEMMA CountsInductive ==
    ASSUME CursorInv, CursorInv', Counts, [Next]_vars,
           \A b \in Offsets :
              /\ FrameRead /\ b = report.lastGood
              /\ b = cursor - ReaderHeader - declared /\ Verifies(b)
              => CompleteAt(b) /\ b + Size(file[b]) = cursor
    PROVE  Counts'
<1> DEFINE Same == UNCHANGED <<file, len, report.frames, report.lastGood>>
<1>1. ASSUME Same PROVE WholeBelow(report.lastGood)' = WholeBelow(report.lastGood)
  BY <1>1 DEF WholeBelow, CompleteAt
<1>2. ASSUME Same, Reading \/ pc = "seek" PROVE Counts'
  BY <1>1, <1>2 DEF Counts, CompleteAt
<1>3. CASE OutsideScan
  BY <1>3, OutsideScanInv DEF Counts, Reading, CursorInv
<1>4. CASE StartRecovery
  <2>1. report'.frames = 0 /\ report'.lastGood = 0
    BY <1>4 DEF StartRecovery
  <2>2. WholeBelow(report.lastGood)' = {}
    BY <2>1, JournalAssumption DEF WholeBelow, Offsets
  <2>3. \A p \in Offsets : ~(p < report'.lastGood)
    BY <2>1, JournalAssumption DEF Offsets
  <2>. QED BY <2>1, <2>2, <2>3, FS_EmptySet DEF Counts
<1>5. CASE ReadProbe \/ (\E n \in 1..Capacity : ReadSome(n)) \/ EndOfStream \/ ParseHeader
  <2>1. Same /\ Reading
    BY <1>5 DEF ReadProbe, ReadSome, EndOfStream, ParseHeader, Reading, CursorInv, TypeOK
  <2>. QED BY <1>2, <2>1
<1>6. CASE SeekBack
  <2>1. pc' \in {"ready", "truncate"}
    BY <1>6 DEF SeekBack
  <2>. QED BY <2>1 DEF Counts, Reading
<1>7. CASE FrameRead
  <2> DEFINE b == report.lastGood
  <2>1. cursor - ReaderHeader - declared = b /\ count = cursor /\ b \in Nat /\ Reading
        /\ cursor \in Nat /\ declared \in Nat /\ cursor = b + ReaderHeader + declared
        /\ cursor <= Capacity
    BY <1>7, LenTypes, HeaderTypes
    DEF FrameRead, CursorInv, TypeOK, ScanCursor, Reading
  <2>2. b \in Offsets
    BY <2>1, HeaderTypes, LenTypes DEF Offsets, CursorInv
  <2>3. CASE Verifies(b)
    <3>1. CompleteAt(b) /\ b + Size(file[b]) = cursor
      BY <1>7, <2>1, <2>2, <2>3 DEF FrameRead
    <3>2. report' = Counted(report, count) /\ UNCHANGED <<file, len>>
      BY <1>7, <2>1, <2>3 DEF FrameRead
    <3>3. report'.frames = report.frames + 1 /\ report'.lastGood = cursor
      <4>1. report \in [frames : Nat, lastGood : 0..Capacity, end : {"CleanEof", "TornTail"}]
        BY DEF CursorInv, TypeOK
      <4>. QED BY <2>1, <3>2, <4>1 DEF Counted
    <3>4. WholeBelow(report.lastGood)' = WholeBelow(cursor)
      BY <3>2, <3>3 DEF WholeBelow, CompleteAt
    <3>5. report'.frames = Cardinality(WholeBelow(cursor))
      BY <2>1, <2>2, <3>1, <3>3, OneMore DEF Counts, CursorInv
    <3>6. ASSUME NEW p \in Offsets, p < cursor
          PROVE  \E s \in 0..p : CompleteAt(s) /\ p < s + Size(file[s])
      <4>1. CASE p < b
        BY <2>1, <4>1 DEF Counts
      <4>2. CASE p >= b
        <5>1. b \in 0..p
          BY <2>1, <4>2, LenTypes DEF Offsets
        <5>. QED BY <3>1, <3>6, <5>1
      <4>. QED BY <2>1, <4>1, <4>2 DEF Offsets
    <3>. QED BY <3>2, <3>3, <3>4, <3>5, <3>6 DEF Counts, CompleteAt
  <2>4. CASE ~Verifies(b)
    <3>1. pc' = "stopped"
      BY <1>7, <2>1, <2>4 DEF FrameRead, AfterError
    <3>. QED BY <3>1 DEF Counts, Reading
  <2>. QED BY <2>3, <2>4
<1>8. CASE UNCHANGED vars
  <2>1. Same /\ UNCHANGED pc
    BY <1>8 DEF vars, scanVars
  <2>. QED BY <1>1, <2>1 DEF Counts, Reading, CompleteAt
<1>. QED
  BY <1>3, <1>4, <1>5, <1>6, <1>7, <1>8
  DEF Next, WriterStep, ScanStep, RepairStep, Disturbance, OutsideScan

\* Every step keeps the cursor where the scan needs it.
LEMMA CursorInductive == ASSUME CursorInv, [Next]_vars PROVE CursorInv'
<1>1. CASE UNCHANGED vars
  BY <1>1 DEF vars, writeVars, scanVars, historyVars, CursorInv, TypeOK, ScanCursor, Reading
<1>2. CASE OutsideScan
  BY <1>2, OutsideScanInv DEF CursorInv
<1>3. CASE ScanStep \/ StartRecovery
  BY <1>3, ScanStepCursor
<1>. QED BY <1>1, <1>2, <1>3 DEF Next, WriterStep, RepairStep, Disturbance, OutsideScan

\* An empty journal has no scan under way.
LEMMA InitCursor == Init => CursorInv /\ Counts
<1>1. Init => Inv
  BY InitInv, JournalAssumption
<1>. QED BY <1>1 DEF Init, Inv, CursorInv, ScanCursor, Counts, Reading

-----------------------------------------------------------------------------

(***************************************************************************)
(* The variables keep their types whichever deframer recovery runs with    *)
(* and whatever rots: no scan reads or counts past the end of the file.    *)
(***************************************************************************)
THEOREM TypesKept == Spec => []TypeOK
<1>1. Init => CursorInv
  BY InitCursor
<1>2. CursorInv /\ [Next]_vars => CursorInv'
  BY CursorInductive
<1>3. CursorInv => TypeOK
  BY DEF CursorInv
<1>. QED BY <1>1, <1>2, <1>3, PTL DEF Spec

(***************************************************************************)
(* A recovery with any checksum, over a file of any origin that rotted in  *)
(* any way, counts exactly the frames whole below the offset it reports,   *)
(* and they fill the file up to there.                                     *)
(***************************************************************************)
THEOREM IntactReported == ASSUME ReaderSumLen # 0 PROVE Spec => []OnlyIntactReported
<1> DEFINE I == CursorInv /\ Counts
<1>1. Init => I
  BY InitCursor
<1>2. ASSUME I, [Next]_vars PROVE I'
  <2>1. CursorInv'
    BY <1>2, CursorInductive
  <2>2. ASSUME NEW b \in Offsets, b = cursor - ReaderHeader - declared, Verifies(b)
        PROVE  CompleteAt(b) /\ b + Size(file[b]) = cursor
    <3>1. CompleteAt(b) /\ file[b].plen = declared /\ ReaderHeader = WriterHeader
      BY <2>2 DEF Verifies, ReaderHeader, WriterHeader
    <3>. QED BY <1>2, <2>2, <3>1, HeaderTypes, LenTypes DEF CursorInv, TypeOK, Size, Offsets
  <2>. QED BY <1>2, <2>1, <2>2, CountsInductive
<1>3. I => OnlyIntactReported
  BY DEF Counts, OnlyIntactReported, WholeBelow
<1>4. I /\ [Next]_vars => I'
  BY <1>2
<1>. QED BY <1>1, <1>3, <1>4, PTL DEF Spec

(***************************************************************************)
(* With the matching deframer and a file as it was written, the report of  *)
(* a recovery that returns Ok is exact: all whole frames are counted, the  *)
(* offset is one past the last, and CleanEof means that nothing follows.   *)
(***************************************************************************)
THEOREM ReportsExactly == ASSUME Matched PROVE Spec => []ReportExact
<1> DEFINE I == Inv /\ CursorInv /\ Counts
<1>1. Init => I
  BY InitInv, InitCursor, JournalAssumption
<1>2. ASSUME I, [Next]_vars PROVE I'
  <2>1. CursorInv'
    BY <1>2, CursorInductive
  <2>2. Inv'
    BY <1>2, InvInductive
  <2>3. ASSUME NEW b \in Offsets, FrameRead, b = report.lastGood
        PROVE  CompleteAt(b) /\ b + Size(file[b]) = cursor
    BY <1>2, <2>3, FrameIsWhole DEF FrameRead
  <2>. QED BY <1>2, <2>1, <2>2, <2>3, CountsInductive
<1>3. ASSUME I, pc = "seek" PROVE ReportExact
  <2> DEFINE b == report.lastGood
  <2>1. /\ b \in Nat /\ b <= len /\ Closed(b) /\ report.end \in {"CleanEof", "TornTail"}
        /\ IF report.end = "TornTail" THEN TornAtLastGood ELSE b = len
    BY <1>3, LenTypes DEF Inv, TypeOK, InvScan, Scanning
  <2>2. ASSUME NEW p \in Offsets, CompleteAt(p) PROVE p + Size(file[p]) <= b
    <3>1. CASE b = len
      BY <2>2, <3>1 DEF CompleteAt
    <3>2. CASE TornAtLastGood
      BY <1>3, <2>1, <2>2, <3>2, WholeFramesEnd DEF TornAtLastGood, Inv
    <3>. QED BY <2>1, <3>1, <3>2
  <2>3. {p \in Offsets : CompleteAt(p)} = WholeBelow(b)
    BY <1>3, <2>1, <2>2, ByteTypes DEF WholeBelow, Inv
  <2>4. Boundary(b)
    BY <1>3, <2>1, ClosedIsBoundary DEF Inv
  <2>5. report.end = "CleanEof" <=> b = len
    BY <1>3, <2>1, LenTypes DEF TornAtLastGood, Inv
  <2>. QED BY <1>3, <2>2, <2>3, <2>4, <2>5 DEF ReportExact, Counts
<1>4. I /\ [Next]_vars => I'
  BY <1>2
<1>5. I => ReportExact
  BY <1>3 DEF ReportExact
<1>. QED BY <1>1, <1>4, <1>5, PTL DEF Spec

-----------------------------------------------------------------------------
(***************************************************************************)
(* Journal implements AppendLog, for every device and every payload: each  *)
(* step of the writer, of recovery, of the repair and of a crash is an     *)
(* Append, a Flush, a LoseSuffix or no step of the log at all.             *)
(***************************************************************************)

\* The entries no crash may take.
SafeFrames == {e \in WholeFrames : e.to <= safeLen}

-----------------------------------------------------------------------------
(* The frames of the file are numbered in the order they lie in it. *)

Numbered ==
    /\ \A p \in Offsets : p < len => file[p].id < nextId
    /\ pc = "writing" =>
          /\ writing.id \in 1..MaxWrites
          /\ writing.id < nextId
          /\ writing.plen \in PayloadLens
          /\ \A p \in Offsets : p < len - done => file[p].id < writing.id

LogInv == Inv /\ Numbered

\* An empty journal is an empty log.
LEMMA InitNumbered == Init => Numbered
BY JournalAssumption DEF Init, Numbered, Offsets

\* A write takes the next number.
LEMMA StartWriteNumbered ==
    ASSUME LogInv, NEW n \in PayloadLens, StartWrite(n) PROVE Numbered'
<1>1. /\ nextId \in 1..MaxWrites /\ writing' = [id |-> nextId, plen |-> n]
      /\ nextId' = nextId + 1 /\ done' = 0 /\ UNCHANGED <<file, len>>
  BY JournalAssumption DEF LogInv, Inv, TypeOK, StartWrite
<1>2. \A p \in Offsets : p < len => file[p].id < nextId /\ file[p].id \in Nat
  BY ByteTypes, JournalAssumption DEF LogInv, Inv, Numbered, Byte
<1>. QED BY <1>1, <1>2, LenTypes DEF Numbered, LogInv, Inv

\* What is appended lies behind the frames numbered before.
LEMMA AcceptNumbered ==
    ASSUME LogInv, NEW n \in 1..Capacity, Accept(n) PROVE Numbered'
<1>1. /\ pc = "writing" /\ cursor = len /\ len' = len + n /\ done' = done + n
      /\ UNCHANGED <<pc, writing, nextId>> /\ done \in Nat /\ done <= len
      /\ writing.id < nextId
  BY LenTypes DEF Accept, LogInv, Inv, InvWriter, TypeOK, Numbered
<1>2. /\ len' - done' = len - done
      /\ \A p \in Offsets : p < len => file'[p] = file[p]
  BY <1>1, LenTypes DEF Accept, LogInv, Inv, Offsets
<1>3. ASSUME NEW p \in Offsets, p < len' PROVE file'[p].id < nextId
  <2>1. CASE p < len
    BY <1>2, <2>1 DEF LogInv, Numbered
  <2>2. CASE p >= len
    <3>1. cursor <= p /\ p < cursor + n
      BY <1>1, <1>3, <2>2
    <3>2. file'[p] = ByteOf(writing, done + (p - cursor))
      BY <3>1 DEF Accept
    <3>. QED BY <1>1, <3>2 DEF ByteOf, LogInv, Numbered
  <2>. QED BY <2>1, <2>2, LenTypes DEF LogInv, Inv, Offsets
<1>4. ASSUME NEW p \in Offsets, p < len - done PROVE file'[p].id < writing.id
  <2>1. p < len /\ p \in Nat
    BY <1>1, <1>4, LenTypes DEF LogInv, Inv, Offsets
  <2>2. file'[p] = file[p]
    BY <1>2, <2>1
  <2>. QED BY <1>1, <1>4, <2>2 DEF LogInv, Numbered
<1>. QED BY <1>1, <1>2, <1>3, <1>4 DEF LogInv, Numbered

\* The file cut at n.
Cut(n) ==
    /\ n \in Nat
    /\ n <= len
    /\ file' = CutAt(n)
    /\ len' = n

\* Every step keeps the numbering.
LEMMA NumberedInductive == ASSUME Matched, LogInv, [Next]_vars PROVE Numbered'
<1>1. ASSUME UNCHANGED <<file, len, nextId>>,
             pc' = "writing" => pc = "writing" /\ UNCHANGED <<writing, done>>
      PROVE  Numbered'
  BY <1>1 DEF LogInv, Numbered
<1>2. ASSUME NEW n, Cut(n), UNCHANGED nextId, pc' # "writing" PROVE Numbered'
  BY <1>2, LenTypes DEF Cut, CutAt, LogInv, Inv, Numbered, Offsets
<1>3. CASE Truncate
  <2>1. Cut(report.lastGood)
    BY <1>3, LenTypes DEF Truncate, Cut, LogInv, Inv, InvScan, Scanning
  <2>. QED BY <1>2, <1>3, <2>1 DEF Truncate, writeVars
<1>4. CASE Crash
  <2>1. PICK n \in stable..len : Cut(n)
    BY <1>4, LenTypes DEF Crash, Cut, LogInv, Inv
  <2>. QED BY <1>2, <1>4, <2>1 DEF Crash, writeVars
<1>5. ASSUME NEW p \in Offsets, Rot(p) PROVE FALSE
  BY <1>5 DEF Rot, Matched, LogInv, Inv, TypeOK
<1>6. CASE (\E n \in PayloadLens : StartWrite(n)) \/ (\E n \in 1..Capacity : Accept(n))
  BY <1>6, StartWriteNumbered, AcceptNumbered
<1>7. CASE UNCHANGED vars
  BY <1>1, <1>7 DEF vars, writeVars
<1>. QED
  BY <1>1, <1>3, <1>4, <1>5, <1>6, <1>7
  DEF Next, WriterStep, FinishWrite, DiskFull, Flush, ScanStep, ReadProbe, ReadSome,
      EndOfStream, ParseHeader, FrameRead, AfterError, SeekBack, RepairStep, StartRecovery,
      Disturbance, WriteFault, FlushFault, DeviceFault, writeVars

-----------------------------------------------------------------------------
(* The entries of the log are the frames whole in the file. *)

\* The entry of a whole frame: its name, its first byte and the end of its last.
LEMMA EntryTypes ==
    ASSUME TypeOK, NEW p \in Offsets, CompleteAt(p)
    PROVE  /\ EntryAt(p) \in WholeFrames
           /\ EntryAt(p).from = p /\ EntryAt(p).to = p + Size(file[p])
           /\ EntryAt(p).id = file[p].id
           /\ EntryAt(p).to \in Nat /\ p < EntryAt(p).to /\ EntryAt(p).to <= len
           /\ file[p].at = 0
<1>1. file[p + 0] = ByteOf(file[p], 0)
  BY ByteTypes DEF CompleteAt
<1>2. file[p].at = 0
  BY <1>1, ByteTypes DEF ByteOf
<1>. QED BY <1>2, ByteTypes DEF WholeFrames, EntryAt, CompleteAt

\* Every entry is that of a whole frame at some offset.
LEMMA EntryOf ==
    ASSUME NEW e \in WholeFrames
    PROVE  \E p \in Offsets : CompleteAt(p) /\ e = EntryAt(p)
BY DEF WholeFrames

\* An offset no frame reaches over is where an entry ends, or the start.
LEMMA ClosedIsEnd ==
    ASSUME TypeOK, Layout, NEW b \in Nat, b <= len, Closed(b)
    PROVE  b \in Log!Ends
<1>. SUFFICES ASSUME b # 0 PROVE \E e \in WholeFrames : e.to = b
  BY DEF Log!Ends
<1> DEFINE s == StartOf(b - 1)
<1>1. b - 1 \in Offsets /\ b - 1 < len
  BY LenTypes
<1>2. /\ s \in Nat /\ s <= b - 1 /\ EndOf(b - 1) <= b
      /\ IsFrameByte(file[b - 1]) /\ file[b - 1].at < Size(file[b - 1])
      /\ \A q \in Offsets : q < len /\ s <= q /\ q < EndOf(b - 1)
            => file[q] = ByteOf(file[b - 1], q - s)
  BY <1>1, ByteTypes DEF Layout, Closed, StartOf
<1>3. EndOf(b - 1) = b /\ s + Size(file[b - 1]) = b
  BY <1>1, <1>2, ByteTypes DEF EndOf, StartOf
<1>4. s \in Offsets /\ s < len /\ file[s] = ByteOf(file[b - 1], 0)
  <2>1. s \in Offsets /\ s < len /\ s < EndOf(b - 1) /\ s - s = 0
    BY <1>1, <1>2, <1>3, LenTypes DEF Offsets
  <2>. QED BY <1>2, <2>1
<1>5. Size(file[s]) = Size(file[b - 1]) /\ IsFrameByte(file[s])
  BY <1>2, <1>4 DEF ByteOf, Size, IsFrameByte
<1>6. CompleteAt(s)
  <2>1. ASSUME NEW k \in 0..(Size(file[s]) - 1) PROVE file[s + k] = ByteOf(file[s], k)
    <3>1. s + k \in Offsets /\ s + k < len /\ s <= s + k /\ s + k < EndOf(b - 1) /\ (s + k) - s = k
      BY <1>1, <1>2, <1>3, <1>5, ByteTypes, LenTypes DEF Offsets
    <3>2. file[s + k] = ByteOf(file[b - 1], k)
      BY <1>2, <3>1
    <3>. QED BY <1>4, <3>2 DEF ByteOf
  <2>. QED BY <1>3, <1>4, <1>5, <2>1 DEF CompleteAt
<1>. QED BY <1>3, <1>4, <1>5, <1>6, EntryTypes

\* The end of the log is the offset no frame reaches over, behind all whole frames.
LEMMA LogEndIs ==
    ASSUME TypeOK, Layout, NEW b \in Nat, b <= len, Closed(b),
           \A p \in Offsets : CompleteAt(p) => p + Size(file[p]) <= b
    PROVE  Log!LogEnd = b
<1>1. b \in Log!Ends
  BY ClosedIsEnd
<1>2. \A m \in Log!Ends : m <= b /\ m \in Nat
  BY EntryOf, EntryTypes DEF Log!Ends
<1>3. \A n \in Log!Ends : (\A m \in Log!Ends : m <= n) => n = b
  BY <1>1, <1>2
<1>. QED BY <1>1, <1>2, <1>3 DEF Log!LogEnd

\* Cutting the file keeps the whole frames that end before the cut, and makes none.
LEMMA CutFrames ==
    ASSUME LogInv, NEW n, Cut(n)
    PROVE  WholeFrames' = {e \in WholeFrames : e.to <= n}
<1>1. /\ n \in Nat /\ n <= len /\ len' = n
      /\ \A q \in Offsets : q < n => file'[q] = file[q]
  BY DEF Cut, CutAt
<1>2. ASSUME NEW p \in Offsets, CompleteAt(p), p + Size(file[p]) <= n
      PROVE  CompleteAt(p)' /\ EntryAt(p)' = EntryAt(p)
  <2>1. CompleteAt(p)'
    BY <1>1, <1>2, KeepsWhole DEF LogInv, Inv
  <2>2. p < n
    BY <1>1, <1>2, ByteTypes DEF LogInv, Inv
  <2>. QED BY <1>1, <2>1, <2>2 DEF EntryAt, Size
<1>3. ASSUME NEW p \in Offsets, CompleteAt(p)'
      PROVE  CompleteAt(p) /\ p + Size(file[p]) <= n /\ EntryAt(p)' = EntryAt(p)
  <2>1. p < n /\ file'[p] = file[p] /\ IsFrameByte(file[p]) /\ p + Size(file[p]) <= n
    BY <1>1, <1>3 DEF CompleteAt, Size
  <2>2. ASSUME NEW k \in 0..(Size(file[p]) - 1) PROVE file[p + k] = ByteOf(file[p], k)
    <3>1. p + k \in Offsets /\ p + k < n
      BY <1>1, <2>1, ByteTypes, LenTypes DEF LogInv, Inv
    <3>2. file'[p + k] = ByteOf(file[p], k)
      BY <1>3, <2>1 DEF CompleteAt, Size
    <3>. QED BY <1>1, <3>1, <3>2
  <2>. QED BY <1>1, <2>1, <2>2, ByteTypes, LenTypes DEF CompleteAt, EntryAt, Size, LogInv, Inv
<1>4. ASSUME NEW e \in WholeFrames' PROVE e \in WholeFrames /\ e.to <= n
  <2>1. PICK p \in Offsets : CompleteAt(p)' /\ e = EntryAt(p)'
    BY <1>4 DEF WholeFrames
  <2>. QED BY <1>3, <2>1, EntryTypes DEF LogInv, Inv
<1>5. ASSUME NEW e \in WholeFrames, e.to <= n PROVE e \in WholeFrames'
  <2>1. PICK p \in Offsets : CompleteAt(p) /\ e = EntryAt(p)
    BY <1>5, EntryOf
  <2>2. CompleteAt(p)' /\ e = EntryAt(p)'
    BY <1>2, <1>5, <2>1, EntryTypes DEF LogInv, Inv
  <2>. QED BY <2>2 DEF WholeFrames
<1>. QED BY <1>4, <1>5

\* Wherever a file is cut, the whole frames before the cut end at an end of the log.
LEMMA CutAtEnd ==
    ASSUME TypeOK, Layout, NEW n \in Nat, n <= len
    PROVE  \E m \in Log!Ends : \A e \in WholeFrames : e.to <= n <=> e.to <= m
<1>1. CASE Closed(n)
  BY <1>1, ClosedIsEnd
<1>2. CASE ~Closed(n)
  <2>1. PICK p \in Offsets : p < n /\ EndOf(p) > n
    BY <1>2, ByteTypes DEF Closed
  <2> DEFINE m == StartOf(p)
  <2>2. /\ p < len /\ m \in Nat /\ m <= p /\ m < n /\ m \in Offsets /\ m < len /\ m < EndOf(p)
        /\ \A q \in Offsets : q < len /\ m <= q /\ q < EndOf(p)
              => file[q] = ByteOf(file[p], q - m)
        /\ EndOf(p) = m + Size(file[p])
    BY <2>1, ByteTypes, LenTypes DEF Layout, StartOf, EndOf, Offsets
  <2>3. Closed(m)
    <3>. SUFFICES ASSUME NEW q \in Offsets, q < m, EndOf(q) > m PROVE FALSE
      BY <2>2, ByteTypes DEF Closed
    <3>1. q < len /\ StartOf(q) <= q
      BY <2>2, ByteTypes, LenTypes DEF StartOf, Layout
    <3>2. file[m] = ByteOf(file[q], m - StartOf(q))
      BY <2>2, <3>1, ByteTypes DEF Layout
    <3>3. file[m] = ByteOf(file[p], 0)
      BY <2>2
    <3>4. m - StartOf(q) = 0
      BY <3>2, <3>3 DEF ByteOf
    <3>. QED BY <2>2, <3>1, <3>4, ByteTypes
  <2>4. m \in Log!Ends
    BY <2>2, <2>3, ClosedIsEnd, LenTypes
  <2>5. ASSUME NEW e \in WholeFrames, e.to <= n PROVE e.to <= m
    <3>1. PICK t \in Offsets : CompleteAt(t) /\ e = EntryAt(t)
      BY EntryOf
    <3>2. /\ e.to = t + Size(file[t]) /\ file[t].at = 0 /\ t < e.to /\ e.to <= len
          /\ e.to \in Nat /\ t \in Nat
      BY <3>1, EntryTypes, ByteTypes
    <3>3. CASE t < m
      BY <2>3, <3>2, <3>3, ByteTypes DEF Closed, EndOf, StartOf
    <3>4. CASE t >= m
      <4>1. t < len /\ t < EndOf(p)
        BY <2>1, <2>5, <3>2, LenTypes, ByteTypes
      <4>2. file[t] = ByteOf(file[p], t - m)
        BY <2>2, <3>4, <4>1
      <4>3. t = m /\ Size(file[t]) = Size(file[p])
        BY <2>2, <3>2, <4>2 DEF ByteOf, Size
      <4>. QED BY <2>1, <2>2, <2>5, <3>2, <4>3, ByteTypes
    <3>. QED BY <2>2, <3>2, <3>3, <3>4
  <2>6. ASSUME NEW e \in WholeFrames, e.to <= m PROVE e.to <= n
    BY <2>2, <2>6, EntryOf, EntryTypes
  <2>. QED BY <2>4, <2>5, <2>6
<1>. QED BY <1>1, <1>2

-----------------------------------------------------------------------------
(* Each step of the journal is a step of the log, or none. *)

LogStep == Log!Next \/ UNCHANGED <<WholeFrames, SafeFrames>>

\* A file left as it is holds the same entries.
LEMMA SameFileSameLog ==
    ASSUME UNCHANGED <<file, len>> PROVE UNCHANGED WholeFrames
BY DEF WholeFrames, CompleteAt, EntryAt, Size

\* The sink's bytes are no step of the log until they complete the frame, which is then
\* its last entry.
LEMMA AcceptIsAppend ==
    ASSUME LogInv, LogInv', NEW n \in 1..Capacity, Accept(n) PROVE LogStep
<1> DEFINE b == len - done
           s == Size(writing)
           full == done + n = s
           new == [id |-> writing.id, from |-> b, to |-> b + s]
<1>1. /\ pc = "writing" /\ pc' = "writing" /\ len' = len + n /\ done' = done + n
      /\ UNCHANGED <<writing, safeLen>>
      /\ done \in Nat /\ b \in Nat /\ b + done = len /\ len' = b + done' /\ done' <= s
      /\ s \in Nat /\ n \in Nat /\ n >= 1 /\ s >= 4
      /\ writing.id \in 1..MaxWrites /\ writing.id # 0 /\ writing.plen \in PayloadLens
      /\ writing.plen \in Nat /\ len' <= Capacity
  BY LenTypes, JournalAssumption
  DEF Accept, LogInv, Inv, InvWriter, TypeOK, Numbered, historyVars, Size, WriterHeader,
      LengthField
<1>2. /\ \A q \in Offsets : q < len => file'[q] = file[q]
      /\ \A k \in 0..(done' - 1) : file'[b + k] = ByteOf(writing, k)
  <2>0. cursor = len /\ Capacity \in Nat /\ len \in Nat
    BY <1>1, LenTypes DEF LogInv, Inv, InvWriter
  <2>1. \A q \in Offsets : q < len => file'[q] = file[q]
    BY <2>0 DEF Accept, Offsets
  <2>2. ASSUME NEW k \in 0..(done' - 1) PROVE file'[b + k] = ByteOf(writing, k)
    <3>1. b + k \in Offsets /\ k \in Nat /\ k < done + n
      BY <1>1, <2>0 DEF Offsets
    <3>2. CASE k < done
      <4>1. k \in 0..(done - 1) /\ b + k < len
        BY <1>1, <3>1, <3>2
      <4>2. file[b + k] = ByteOf(writing, k)
        BY <1>1, <4>1 DEF LogInv, Inv, InvWriter
      <4>. QED BY <2>1, <3>1, <4>1, <4>2
    <3>3. CASE k >= done
      <4>1. cursor <= b + k /\ b + k < cursor + n /\ done + ((b + k) - cursor) = k
        BY <1>1, <2>0, <3>1, <3>3
      <4>2. file'[b + k] = ByteOf(writing, done + ((b + k) - cursor))
        BY <3>1, <4>1 DEF Accept
      <4>. QED BY <4>1, <4>2
    <3>. QED BY <1>1, <3>1, <3>2, <3>3
  <2>. QED BY <2>1, <2>2
<1>3. Closed(b)
  BY <1>1 DEF LogInv, Inv, InvWriter
<1>4. ASSUME NEW p \in Offsets, CompleteAt(p) PROVE p + Size(file[p]) <= b
  <2>1. CASE done = 0
    BY <1>1, <1>4, <2>1 DEF CompleteAt
  <2>2. CASE done > 0
    <3>1. b < len /\ b \in Offsets
      BY <1>1, <2>2, LenTypes DEF LogInv, Inv
    <3>2. 0 \in 0..(done - 1) /\ b + 0 = b
      BY <1>1, <2>2
    <3>3. file[b] = ByteOf(writing, 0)
      BY <1>1, <3>2 DEF LogInv, Inv, InvWriter
    <3>4. len < b + Size(file[b])
      BY <1>1, <3>3 DEF ByteOf, Size
    <3>. QED BY <1>1, <1>3, <1>4, <3>1, <3>4, WholeFramesEnd DEF LogInv, Inv
  <2>. QED BY <1>1, <2>1, <2>2
<1>5. ASSUME NEW p \in Offsets, CompleteAt(p)
      PROVE  CompleteAt(p)' /\ EntryAt(p)' = EntryAt(p) /\ file[p].id < writing.id
             /\ p + Size(file[p]) <= b
  <2>1. p + Size(file[p]) <= b /\ p < b /\ file'[p] = file[p]
    BY <1>1, <1>2, <1>4, <1>5, ByteTypes, LenTypes DEF LogInv, Inv
  <2>2. CompleteAt(p)'
    <3>1. b \in Nat /\ len' \in Nat /\ b <= len' /\ TypeOK
          /\ \A q \in Offsets : q < b => file'[q] = file[q]
      BY <1>1, <1>2, LenTypes DEF LogInv, Inv, Offsets
    <3>. QED BY <1>5, <2>1, <3>1, KeepsWhole
  <2>3. file[p].id < writing.id
    BY <1>1, <2>1 DEF LogInv, Numbered
  <2>. QED BY <2>1, <2>2, <2>3 DEF EntryAt, Size
<1>6. ASSUME NEW p \in Offsets, CompleteAt(p)', p < b
      PROVE  CompleteAt(p) /\ EntryAt(p)' = EntryAt(p)
  <2>1. file'[p] = file[p] /\ p < len /\ IsFrameByte(file[p])
    BY <1>1, <1>2, <1>6, LenTypes DEF CompleteAt, LogInv, Inv, Offsets
  <2>2. file[p].at = 0
    <3>1. file'[p + 0] = ByteOf(file'[p], 0)
      BY <1>6, <2>1, ByteTypes DEF CompleteAt, Size, LogInv, Inv
    <3>. QED BY <2>1, <3>1, ByteTypes DEF ByteOf, LogInv, Inv
  <2>3. p + Size(file[p]) <= b
    BY <1>3, <1>6, <2>2, ByteTypes DEF Closed, EndOf, StartOf, LogInv, Inv
  <2>4. ASSUME NEW k \in 0..(Size(file[p]) - 1) PROVE file[p + k] = ByteOf(file[p], k)
    <3>1. p + k \in Offsets /\ p + k < len
      BY <1>1, <2>3, ByteTypes, LenTypes DEF LogInv, Inv
    <3>2. file'[p + k] = ByteOf(file[p], k)
      BY <1>6, <2>1 DEF CompleteAt, Size
    <3>. QED BY <1>2, <3>1, <3>2
  <2>5. p + Size(file[p]) <= len
    BY <1>1, <2>3, ByteTypes DEF LogInv, Inv
  <2>. QED BY <2>1, <2>4, <2>5 DEF CompleteAt, EntryAt, Size
<1>7. ASSUME NEW p \in Offsets, CompleteAt(p)', p >= b
      PROVE  full /\ EntryAt(p)' = new
  <2>1. p \in Nat /\ p < len' /\ p - b \in 0..(done' - 1) /\ b + (p - b) = p
    BY <1>1, <1>7 DEF CompleteAt, Offsets
  <2>2. file'[p] = ByteOf(writing, p - b)
    BY <1>2, <2>1
  <2>3. Size(file'[p]) = s /\ p + s <= len' /\ file'[p].id = writing.id
    BY <1>7, <2>2 DEF ByteOf, Size, CompleteAt
  <2>4. file'[p + 0] = ByteOf(file'[p], 0)
    BY <1>1, <1>7, <2>3 DEF CompleteAt, Size
  <2>5. p = b
    BY <1>1, <2>1, <2>2, <2>4 DEF ByteOf
  <2>. QED BY <1>1, <2>3, <2>5 DEF EntryAt, Size
<1>8. CASE ~full
  <2>1. WholeFrames' = WholeFrames
    BY <1>1, <1>5, <1>6, <1>7, <1>8 DEF WholeFrames, Offsets
  <2>. QED BY <1>1, <2>1 DEF LogStep, SafeFrames
<1>9. CASE full
  <2>1. ASSUME NEW p \in Offsets, p = b PROVE CompleteAt(p)' /\ EntryAt(p)' = new
    <3>1. p < len' /\ p + s <= len'
      BY <1>1, <1>9, <2>1
    <3>2. \A k \in 0..(s - 1) : file'[p + k] = ByteOf(writing, k)
      BY <1>1, <1>2, <1>9, <2>1
    <3>3. 0 \in 0..(s - 1) /\ p + 0 = p
      BY <1>1, <2>1
    <3>4. file'[p] = ByteOf(writing, 0)
      BY <3>2, <3>3
    <3>5. Size(file'[p]) = s /\ IsFrameByte(file'[p]) /\ file'[p].id = writing.id
      BY <1>1, <3>4 DEF ByteOf, Size, IsFrameByte
    <3>6. \A k \in 0..(s - 1) : file'[p + k] = ByteOf(file'[p], k)
      BY <3>2, <3>4 DEF ByteOf
    <3>7. CompleteAt(p)'
      BY <3>1, <3>5, <3>6 DEF CompleteAt, Size
    <3>8. EntryAt(p)' = new
      BY <2>1, <3>5 DEF EntryAt, Size
    <3>. QED BY <3>7, <3>8
  <2>2. WholeFrames' = WholeFrames \cup {new}
    <3>1. \E p \in Offsets : p = b
      BY <1>1, <1>9, JournalAssumption DEF Offsets
    <3>. QED BY <1>1, <1>5, <1>6, <1>7, <2>1, <3>1 DEF WholeFrames, Offsets
  <2>3. Log!LogEnd = b
    BY <1>1, <1>3, <1>4, LogEndIs DEF LogInv, Inv
  <2>4. \A e \in WholeFrames : e.id < writing.id
    BY <1>5, EntryOf, EntryTypes DEF LogInv, Inv
  <2>5. SafeFrames' = SafeFrames
    <3>1. ~(new.to <= safeLen)
      BY <1>1, <1>9, LenTypes DEF LogInv, Inv, InvPromise, TypeOK
    <3>. QED BY <1>1, <2>2, <3>1 DEF SafeFrames
  <2>6. s \in {WriterHeader + m : m \in PayloadLens}
    BY <1>1 DEF Size
  <2>. QED
    BY <1>1, <2>2, <2>3, <2>4, <2>5, <2>6 DEF LogStep, SafeFrames, Log!Next, Log!Append
<1>. QED BY <1>8, <1>9

\* A flush that returns makes all entries safe.
LEMMA FlushIsFlush == ASSUME LogInv, Flush PROVE LogStep
<1>1. UNCHANGED <<file, len>> /\ safeLen' = len
  BY DEF Flush
<1>2. WholeFrames' = WholeFrames
  BY <1>1, SameFileSameLog
<1>3. \A e \in WholeFrames : e.to <= len
  BY EntryOf, EntryTypes DEF LogInv, Inv
<1>4. SafeFrames' = WholeFrames
  BY <1>1, <1>2, <1>3 DEF SafeFrames
<1>. QED BY <1>2, <1>4 DEF LogStep, SafeFrames, Log!Next, Log!Flush

\* Cutting a torn tail takes no entry.
LEMMA TruncateIsNone == ASSUME LogInv, Truncate PROVE LogStep
<1> DEFINE b == report.lastGood
<1>1. /\ Cut(b) /\ b < len /\ Closed(b) /\ len < b + Size(file[b]) /\ b \in Nat
      /\ safeLen' = safeLen
  BY LenTypes
  DEF Truncate, Cut, LogInv, Inv, InvScan, Scanning, TornAtLastGood, historyVars
<1>2. \A e \in WholeFrames : e.to <= b
  BY <1>1, EntryOf, EntryTypes, WholeFramesEnd DEF LogInv, Inv
<1>3. WholeFrames' = WholeFrames
  BY <1>1, <1>2, CutFrames
<1>. QED BY <1>1, <1>3 DEF LogStep, SafeFrames

\* A crash takes a suffix, and nothing that is safe.
LEMMA CrashIsLoss == ASSUME LogInv, Crash PROVE LogStep
<1>1. PICK n \in stable..len : Cut(n)
  BY LenTypes DEF Crash, Cut, LogInv, Inv
<1>2. WholeFrames' = {e \in WholeFrames : e.to <= n} /\ n \in Nat /\ n <= len
  BY <1>1, CutFrames DEF Cut
<1>3. PICK m \in Log!Ends : \A e \in WholeFrames : e.to <= n <=> e.to <= m
  BY <1>2, CutAtEnd DEF LogInv, Inv
<1>4. WholeFrames' = {e \in WholeFrames : e.to <= m}
  BY <1>2, <1>3
<1>5. safeLen \in Nat /\ safeLen <= n /\ safeLen' = safeLen
  BY <1>1, LenTypes DEF Crash, LogInv, Inv, InvPromise, TypeOK, historyVars
<1>6. ASSUME NEW e \in WholeFrames, e.to <= safeLen PROVE e \in WholeFrames'
  BY <1>2, <1>5, <1>6, EntryOf, EntryTypes DEF LogInv, Inv
<1>7. SafeFrames \subseteq WholeFrames' /\ SafeFrames' = SafeFrames
  BY <1>2, <1>5, <1>6 DEF SafeFrames
<1>. QED BY <1>4, <1>7 DEF LogStep, SafeFrames, Log!Next, Log!LoseSuffix

\* Every step of the journal is a step of the log, or none.
LEMMA StepIsLogStep == ASSUME Matched, LogInv, LogInv', [Next]_vars PROVE LogStep
<1>1. ASSUME UNCHANGED <<file, len, safeLen>> PROVE LogStep
  BY <1>1, SameFileSameLog DEF LogStep, SafeFrames
<1>2. CASE \E n \in 1..Capacity : Accept(n)
  BY <1>2, AcceptIsAppend
<1>3. CASE Flush \/ Truncate \/ Crash
  BY <1>3, FlushIsFlush, TruncateIsNone, CrashIsLoss
<1>4. ASSUME NEW p \in Offsets, Rot(p) PROVE FALSE
  BY <1>4 DEF Rot, Matched, LogInv, Inv, TypeOK
<1>5. CASE UNCHANGED vars
  BY <1>1, <1>5 DEF vars, historyVars
<1>. QED
  BY <1>1, <1>2, <1>3, <1>4, <1>5
  DEF Next, StartWrite, WriterStep, FinishWrite, DiskFull, ScanStep, ReadProbe, ReadSome,
      EndOfStream, ParseHeader, FrameRead, SeekBack, RepairStep, StartRecovery, Disturbance,
      WriteFault, FlushFault, DeviceFault, historyVars

(***************************************************************************)
(* The journal is an append log: entries appear one at a time at its end,  *)
(* in the order of the writes and with nothing between them; only a crash  *)
(* takes any, a suffix none of which a flush has made safe.                *)
(***************************************************************************)
THEOREM Implementation == ASSUME Matched PROVE Spec => ImplementsAppendLog
<1>1. Init => LogInv
  BY InitInv, InitNumbered, JournalAssumption DEF LogInv
<1>2. LogInv /\ [Next]_vars => LogInv'
  BY InvInductive, NumberedInductive DEF LogInv
<1>3. Init => Log!Init
  <2>. SUFFICES ASSUME Init PROVE WholeFrames = {} /\ SafeFrames = {}
    BY DEF Log!Init, SafeFrames
  <2>1. \A p \in Offsets : ~CompleteAt(p)
    BY JournalAssumption DEF Init, CompleteAt, Offsets
  <2>. QED BY <2>1 DEF WholeFrames, SafeFrames
<1>4. LogInv /\ LogInv' /\ [Next]_vars => [Log!Next]_<<WholeFrames, SafeFrames>>
  BY StepIsLogStep DEF LogStep
<1>. QED BY <1>1, <1>2, <1>3, <1>4, PTL DEF Spec, ImplementsAppendLog, Log!Spec, SafeFrames

=============================================================================
