------------------------------ MODULE Journal ------------------------------
(***************************************************************************)
(* An append-only journal kept by one application with this library: a     *)
(* StreamWriter appends frames, and after a crash, a failed call or a      *)
(* restart recover_file scans the file, the application truncates a torn   *)
(* tail and appends again (README.md, "Crash recovery for journals").      *)
(*                                                                         *)
(* A frame is [len | checksum | payload].  What its bytes contain does not *)
(* matter here, only where they are: a byte is modelled by the frame it    *)
(* was written for and its position in it, so four bytes decode to a known *)
(* length exactly when they are the first four of one frame.               *)
(***************************************************************************)
EXTENDS Naturals, FiniteSets

CONSTANTS
    Capacity,       \* bytes the device can hold; a full disk fails a write
    PayloadLens,    \* payload lengths the application writes
    MaxWrites,      \* bound: calls of write() in one behaviour
    WriterSumLen,   \* checksum bytes the framer writes: C::SIZE, 0 for DefaultFramer
    ReaderSumLen,   \* checksum bytes the deframer of the scan expects
    MaxFrameLen,    \* max_frame_len of that deframer
    WireLens,       \* lengths that four bytes which are no header may decode to
    MaxRot          \* bound: bytes corrupted at rest (0: the file is what was written)

ASSUME JournalAssumption ==
    /\ Capacity \in Nat
    /\ PayloadLens \subseteq Nat
    /\ MaxWrites \in Nat
    /\ WriterSumLen \in Nat
    /\ ReaderSumLen \in Nat
    /\ MaxFrameLen \in Nat
    /\ WireLens \subseteq Nat
    /\ MaxRot \in Nat

VARIABLES
    file,       \* the byte at every offset of the device, Blank where nothing was written
    len,        \* length of the file
    stable,     \* bytes a crash cannot take: those a flush has reported safe
    cursor,     \* offset of the file handle
    pc,         \* where the application and the library call it is in stand
    writing,    \* the frame of the last call of write()
    done,       \* bytes of that frame the sink has accepted
    nextId,     \* number of the next call of write(), from 1
    report,     \* the RecoveryReport being filled
    count,      \* CountingReader::count
    todo,       \* bytes the read_exact in progress still needs
    declared,   \* payload_len parsed from the last header
    promised,   \* history: the file when flush() last returned Ok
    safeLen,    \* history: its length then
    rot         \* number of bytes corrupted so far

writeVars   == <<writing, done, nextId>>
scanVars    == <<report, count, todo, declared>>
historyVars == <<promised, safeLen, rot>>
vars == <<file, len, stable, cursor, pc, writeVars, scanVars, historyVars>>

-----------------------------------------------------------------------------
(* Bytes and frames. *)

LengthField == 4
WriterHeader == LengthField + WriterSumLen
ReaderHeader == LengthField + ReaderSumLen

Frame == [id : 1..MaxWrites, plen : PayloadLens]
Size(f) == WriterHeader + f.plen

\* The byte at position k of frame f.
ByteOf(f, k) == [id |-> f.id, plen |-> f.plen, at |-> k]

\* A byte that belongs to no frame: never written, or corrupted.
Blank == [id |-> 0, plen |-> 0, at |-> 0]

Offsets == 0..(Capacity - 1)
Byte == [id : 0..MaxWrites, plen : Nat, at : Nat]

IsFrameByte(b) == b.id # 0

\* All bytes of the frame that starts at offset p are in the file.
CompleteAt(p) ==
    /\ p < len
    /\ IsFrameByte(file[p])
    /\ p + Size(file[p]) <= len
    /\ \A k \in 0..(Size(file[p]) - 1) : file[p + k] = ByteOf(file[p], k)

\* Offset p is the start of the file or one past the last byte of a frame.
Boundary(p) ==
    \/ p = 0
    \/ /\ p - 1 \in Offsets
       /\ IsFrameByte(file[p - 1])
       /\ file[p - 1].at = Size(file[p - 1]) - 1

\* The file when every byte from offset n on is gone.
CutAt(n) == [p \in Offsets |-> IF p < n THEN file[p] ELSE Blank]

-----------------------------------------------------------------------------
(* StreamWriter::write: the framer hands the sink the header and then the  *)
(* payload, each with write_all, which loops over short writes.            *)

StartWrite(n) ==
    /\ pc = "ready"
    /\ nextId <= MaxWrites
    /\ writing' = [id |-> nextId, plen |-> n]
    /\ nextId' = nextId + 1
    /\ done' = 0
    /\ pc' = "writing"
    /\ UNCHANGED <<file, len, stable, cursor, scanVars, historyVars>>

\* The end of the slice the current write_all was given.
SliceEnd == IF done < WriterHeader THEN WriterHeader ELSE Size(writing)

\* The sink accepts n more bytes at the cursor.
Accept(n) ==
    /\ pc = "writing"
    /\ n <= SliceEnd - done
    /\ cursor + n <= Capacity
    /\ file' = [p \in Offsets |->
                    IF cursor <= p /\ p < cursor + n
                    THEN ByteOf(writing, done + (p - cursor))
                    ELSE file[p]]
    /\ len' = IF cursor + n > len THEN cursor + n ELSE len
    /\ cursor' = cursor + n
    /\ done' = done + n
    /\ UNCHANGED <<stable, pc, writing, nextId, scanVars, historyVars>>

FinishWrite ==
    /\ pc = "writing"
    /\ done = Size(writing)
    /\ pc' = "ready"
    /\ UNCHANGED <<file, len, stable, cursor, writeVars, scanVars, historyVars>>

\* The sink accepts nothing more, so write_all returns Err (WriteZero, or ENOSPC).
DiskFull ==
    /\ pc = "writing"
    /\ done < Size(writing)
    /\ cursor >= Capacity
    /\ pc' = "failed"
    /\ UNCHANGED <<file, len, stable, cursor, writeVars, scanVars, historyVars>>

\* write_all returns Err because of a device fault.
WriteFault ==
    /\ pc = "writing"
    /\ done < Size(writing)
    /\ pc' = "failed"
    /\ UNCHANGED <<file, len, stable, cursor, writeVars, scanVars, historyVars>>

Flush ==
    /\ pc = "ready"
    /\ stable' = len
    /\ promised' = file
    /\ safeLen' = len
    /\ UNCHANGED <<file, len, cursor, pc, writeVars, scanVars, rot>>

\* A failed flush may have made part of the accepted bytes safe.
FlushFault ==
    /\ pc = "ready"
    /\ stable' \in stable..len
    /\ pc' = "failed"
    /\ UNCHANGED <<file, len, cursor, writeVars, scanVars, historyVars>>

-----------------------------------------------------------------------------
(* recover_file: seek to 0, read frames until the stream ends or a read    *)
(* fails, seek back to the end of the last intact frame.                   *)

StartRecovery ==
    /\ pc \in {"down", "failed", "stopped"}
    /\ cursor' = 0
    /\ count' = 0
    /\ todo' = 0
    /\ declared' = 0
    /\ report' = [frames |-> 0, lastGood |-> 0, end |-> "TornTail"]
    /\ pc' = "probe"
    /\ UNCHANGED <<file, len, stable, writeVars, historyVars>>

\* read_header's one-byte read_exact, the only read whose EOF is a clean end.
ReadProbe ==
    /\ pc = "probe"
    /\ cursor < len
    /\ cursor' = cursor + 1
    /\ count' = count + 1
    /\ todo' = ReaderHeader - 1
    /\ pc' = "header"
    /\ UNCHANGED <<file, len, stable, writeVars, report, declared, historyVars>>

\* One read() inside the read_exact of the rest of the header or of the payload.
ReadSome(n) ==
    /\ pc \in {"header", "payload"}
    /\ n <= todo
    /\ cursor + n <= len
    /\ cursor' = cursor + n
    /\ count' = count + n
    /\ todo' = todo - n
    /\ UNCHANGED <<file, len, stable, pc, writeVars, report, declared, historyVars>>

\* The kind of the Err a read fails with at the end of the stream, or "None" for Ok(None).
EofInHeaderIsClean == IF pc = "payload" THEN "UnexpectedEof" ELSE "None"  \* mutant
EofKind == IF pc = "probe" THEN "None" ELSE "UnexpectedEof"

\* recover's match on an Err: only UnexpectedEof becomes a report, all else is
\* returned ("failed" for an I/O error, "stopped" for what the bytes themselves say).
AnyErrorIsTorn(kind) == "seek"  \* mutant
EveryErrorIsReturned(kind) == IF kind = "Io" THEN "failed" ELSE "stopped"  \* mutant
AfterError(kind) ==
    CASE kind = "UnexpectedEof" -> "seek"
      [] kind = "Io"            -> "failed"
      [] OTHER                  -> "stopped"

\* read() returns 0 bytes.
EndOfStream ==
    /\ \/ pc = "probe"
       \/ pc \in {"header", "payload"} /\ todo > 0
    /\ cursor >= len
    /\ IF EofKind = "None"
       THEN /\ report' = [report EXCEPT !.end = "CleanEof"]
            /\ pc' = "seek"
       ELSE /\ report' = [report EXCEPT !.end = "TornTail"]
            /\ pc' = AfterError(EofKind)
    /\ UNCHANGED <<file, len, stable, cursor, writeVars, count, todo, declared,
                   historyVars>>

\* What the length field at offset p decodes to.
Decoded(p) ==
    IF \A k \in 0..(LengthField - 1) : file[p + k] = ByteOf(file[p], k)
       /\ IsFrameByte(file[p])
    THEN {file[p].plen}
    ELSE WireLens

\* The header is in: the length is parsed and bounded before the payload is read.
ParseHeader ==
    /\ pc = "header"
    /\ todo = 0
    /\ declared' \in Decoded(cursor - ReaderHeader)
    /\ IF declared' > MaxFrameLen
       THEN pc' = AfterError("InvalidFrame") /\ todo' = 0
       ELSE pc' = "payload" /\ todo' = declared'
    /\ UNCHANGED <<file, len, stable, cursor, writeVars, report, count, historyVars>>

\* Checksum::verify over the frame just read: without a checksum it cannot fail;
\* with one, bytes that are not a whole frame of the expected format mismatch.
LengthOnly(p) == p + ReaderHeader + declared <= len  \* mutant
Verifies(p) ==
    \/ ReaderSumLen = 0
    \/ /\ ReaderSumLen = WriterSumLen
       /\ CompleteAt(p)
       /\ file[p].plen = declared

\* The report after one more intact frame, which ends at offset c.
OffsetOfLastStart(r, c) == [r EXCEPT !.frames = @ + 1, !.lastGood = c - declared]  \* mutant
PayloadCountedTwice(r, c) == [r EXCEPT !.frames = @ + 1, !.lastGood = c + declared]  \* mutant
Counted(r, c) == [r EXCEPT !.frames = @ + 1, !.lastGood = c]

\* read_and_deframe returns; recover counts the frame or propagates ChecksumMismatch.
FrameRead ==
    /\ pc = "payload"
    /\ todo = 0
    /\ IF Verifies(cursor - ReaderHeader - declared)
       THEN /\ report' = Counted(report, count)
            /\ pc' = "probe"
       ELSE /\ pc' = AfterError("ChecksumMismatch")
            /\ UNCHANGED report
    /\ UNCHANGED <<file, len, stable, cursor, writeVars, count, todo, declared,
                   historyVars>>

\* Where recover_file leaves the cursor.
NoSeekBack == cursor  \* mutant
AppendOffset == report.lastGood

\* The final seek; recover_file returns Ok(report) and the application acts on it.
SeekBack ==
    /\ pc = "seek"
    /\ cursor' = AppendOffset
    /\ pc' = IF report.end = "TornTail" THEN "truncate" ELSE "ready"
    /\ UNCHANGED <<file, len, stable, writeVars, scanVars, historyVars>>

\* The application's set_len(last_good_offset) after a TornTail.
Truncate ==
    /\ pc = "truncate"
    /\ file' = CutAt(report.lastGood)
    /\ len' = report.lastGood
    /\ stable' = IF stable > report.lastGood THEN report.lastGood ELSE stable
    /\ pc' = "ready"
    /\ UNCHANGED <<cursor, writeVars, scanVars, historyVars>>

\* A read, a seek or set_len fails with a device fault: the call returns Err.
DeviceFault ==
    /\ pc \in {"down", "probe", "header", "payload", "seek", "truncate"}
    /\ pc' = IF pc \in {"probe", "header", "payload"} THEN AfterError("Io") ELSE "failed"
    /\ UNCHANGED <<file, len, stable, cursor, writeVars, scanVars, historyVars>>

-----------------------------------------------------------------------------
(* The environment. *)

\* The process dies or closes the file: any suffix that is not stable may be lost.
Crash ==
    /\ \E n \in stable..len :
          /\ file' = CutAt(n)
          /\ len' = n
          /\ stable' = n
    /\ pc' = "down"
    /\ UNCHANGED <<cursor, writeVars, scanVars, historyVars>>

\* A byte of the file at rest is corrupted.
Rot(p) ==
    /\ pc = "down"
    /\ rot < MaxRot
    /\ p < len
    /\ file' = [file EXCEPT ![p] = Blank]
    /\ rot' = rot + 1
    /\ UNCHANGED <<len, stable, cursor, pc, writeVars, scanVars, promised, safeLen>>

-----------------------------------------------------------------------------

Init ==
    /\ file = [p \in Offsets |-> Blank]
    /\ len = 0
    /\ stable = 0
    /\ cursor = 0
    /\ pc = "ready"
    /\ writing = [id |-> 0, plen |-> 0]
    /\ done = 0
    /\ nextId = 1
    /\ report = [frames |-> 0, lastGood |-> 0, end |-> "TornTail"]
    /\ count = 0
    /\ todo = 0
    /\ declared = 0
    /\ promised = file
    /\ safeLen = 0
    /\ rot = 0

WriterStep == (\E n \in 1..Capacity : Accept(n)) \/ FinishWrite \/ DiskFull
ScanStep ==
    \/ ReadProbe
    \/ \E n \in 1..Capacity : ReadSome(n)
    \/ EndOfStream
    \/ ParseHeader
    \/ FrameRead
    \/ SeekBack
RepairStep == StartRecovery \/ Truncate

\* What interrupts the work of the application and of the library.
Disturbance == WriteFault \/ FlushFault \/ DeviceFault \/ Crash

Next ==
    \/ \E n \in PayloadLens : StartWrite(n)
    \/ WriterStep
    \/ Flush
    \/ ScanStep
    \/ RepairStep
    \/ Disturbance
    \/ \E p \in Offsets : Rot(p)

Spec == Init /\ [][Next]_vars

(***************************************************************************)
(* Fairness: a call that has begun runs on (this library never blocks on   *)
(* itself and retries Interrupted, which the operating system does not     *)
(* return for ever), and the application restarts recovery after an error. *)
(***************************************************************************)
FairSpec == Spec /\ WF_vars(WriterStep \/ ScanStep \/ RepairStep)

-----------------------------------------------------------------------------
(* Properties. *)

PCs == {"ready", "writing", "failed", "down", "stopped",
        "probe", "header", "payload", "seek", "truncate"}

\* The type invariant; a crash can take back only what lies between stable and len.
TypeOK ==
    /\ file \in [Offsets -> Byte]
    /\ len \in 0..Capacity
    /\ stable \in 0..len
    /\ cursor \in 0..Capacity
    /\ pc \in PCs
    /\ writing \in [id : 0..MaxWrites, plen : Nat]
    /\ done \in Nat
    /\ nextId \in 1..(MaxWrites + 1)
    /\ report \in [frames : Nat, lastGood : 0..Capacity, end : {"CleanEof", "TornTail"}]
    /\ count \in 0..Capacity
    /\ todo \in Nat
    /\ declared \in Nat
    /\ promised \in [Offsets -> Byte]
    /\ safeLen \in 0..Capacity
    /\ rot \in 0..MaxRot

(***************************************************************************)
(* Whenever the application may append, the cursor is at the end of the    *)
(* file and the file ends with a whole frame: the stream stays a           *)
(* concatenation of frames, whatever crashes, faults and repairs came      *)
(* before.  (recover_file leaves the cursor at last_good_offset; set_len   *)
(* removes what lies beyond.)                                              *)
(***************************************************************************)
AppendsAtBoundary ==
    pc = "ready" => cursor = len /\ Boundary(len)

(***************************************************************************)
(* A recovery that returns Ok reports the frames that are whole in the     *)
(* file, all of them, the offset one past the last, and CleanEof exactly   *)
(* when nothing follows it.                                                *)
(***************************************************************************)
ReportExact ==
    pc = "seek" =>
        /\ report.frames = Cardinality({p \in Offsets : CompleteAt(p)})
        /\ \A p \in Offsets : CompleteAt(p) => p + Size(file[p]) <= report.lastGood
        /\ Boundary(report.lastGood)
        /\ report.end = "CleanEof" <=> report.lastGood = len

(***************************************************************************)
(* Even in a file that rotted at rest, what a checksummed recovery reports *)
(* as intact is a run of whole frames from the start of the file.          *)
(***************************************************************************)
OnlyIntactReported ==
    pc = "seek" =>
        /\ report.frames =
              Cardinality({p \in Offsets : p < report.lastGood /\ CompleteAt(p)})
        /\ \A p \in Offsets : p < report.lastGood =>
              \E s \in 0..p : CompleteAt(s) /\ p < s + Size(file[s])

(***************************************************************************)
(* What a flush() that returned Ok has made stable is never altered,       *)
(* moved or dropped by a later crash, recovery, truncation or append.      *)
(***************************************************************************)
PromisesKept ==
    \A p \in Offsets : p < safeLen => p < len /\ file[p] = promised[p]

(***************************************************************************)
(* Only a crash (or rot at rest) can lose a frame that is whole in the     *)
(* file: no recovery, truncation or append by the code does.               *)
(***************************************************************************)
CompleteFramesKept ==
    [][pc' # "down" => \A p \in Offsets : CompleteAt(p) => CompleteAt(p)']_vars

\* The header of a frame longer than recovery accepts is in the file.
OversizeHeader ==
    \E p \in Offsets :
        /\ p + ReaderHeader <= len
        /\ IsFrameByte(file[p])
        /\ file[p].at = 0
        /\ file[p].plen > MaxFrameLen

(***************************************************************************)
(* Unless it is disturbed again and again, the application is always ready *)
(* to append again: every recovery ends and every repair succeeds. Only a  *)
(* frame written past the limit of the recovery keeps it out for good.     *)
(***************************************************************************)
AlwaysReadyAgain ==
    []<>(pc = "ready") \/ []<><<Disturbance>>_vars \/ <>[]OversizeHeader

(***************************************************************************)
(* The journal is an append log whose entries are the frames whole in the  *)
(* file; those that lie in the part a flush has made stable are safe.      *)
(***************************************************************************)
EntryAt(p) == [id |-> file[p].id, from |-> p, to |-> p + Size(file[p])]
WholeFrames == {EntryAt(p) : p \in {q \in Offsets : CompleteAt(q)}}

Log == INSTANCE AppendLog WITH
    Ids <- 1..MaxWrites,
    Sizes <- {WriterHeader + n : n \in PayloadLens},
    entries <- WholeFrames,
    safe <- {e \in WholeFrames : e.to <= safeLen}

ImplementsAppendLog == Log!Spec

=============================================================================
