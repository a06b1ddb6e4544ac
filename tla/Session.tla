------------------------------ MODULE Session ------------------------------
(***************************************************************************)
(* A StreamReader on a live source (a pipe, a socket, a file another       *)
(* process writes), read to its end by one application: the bytes come in  *)
(* pieces, the source may fail for a while or end inside a frame, the      *)
(* payload of a frame may be damaged, too long or invalid, the deframer is *)
(* wrapped in adapters, the application takes payloads or typed roots, and *)
(* reads on after an error, or not.                                        *)
(*                                                                         *)
(* A byte is its offset in the stream; which frame it belongs to follows   *)
(* from the lengths of the frames sent.                                    *)
(***************************************************************************)
EXTENDS Integers, Sequences, SequencesExt

CONSTANTS
    Kinds,          \* frames that may be sent: [plen, intact, valid, root]: whether the checksum
                    \* matches, validators accept it, it has the root of the typed reader
    Apis,           \* ways to read: "raw" (process_all, messages), "typed" (process_typed, ...)
    MaxFrames,      \* bound: frames sent
    SumLens,        \* values of C::SIZE of the framer and the deframer, 0 without checksum
    MaxFrameLen,    \* max_frame_len of the deframer
    WireLens,       \* lengths that four bytes which are no header may decode to
    Stack,          \* adapters around the deframer, from the inside out
    MaxFaults       \* bound: reads of the source that fail

ASSUME SessionAssumption ==
    /\ \A f \in Kinds : f.plen \in Nat /\ {f.intact, f.valid, f.root} \subseteq BOOLEAN
    /\ Apis \subseteq {"raw", "typed"}
    /\ MaxFrames \in Nat
    /\ SumLens \subseteq Nat
    /\ MaxFrameLen \in Nat
    /\ WireLens \subseteq Nat
    /\ Stack \in Seq({"validate", "observe"})
    /\ MaxFaults \in Nat

VARIABLES
    sumLen,     \* C::SIZE of this session
    api,        \* how the application reads
    sent,       \* the frames on the wire, in order
    avail,      \* bytes of them the source has got
    closed,     \* the source will get no more
    pos,        \* bytes the reader has consumed
    start,      \* where the current frame began, as the deframer takes it
    pc,         \* where the current call of read_message stands
    todo,       \* bytes the read_exact in progress still needs
    declared,   \* payload_len of the current frame
    buffer,     \* the reader's buffer: the offset each byte came from, Zero if none
    level,      \* adapters of the stack passed
    result,     \* what the last call returned
    derailed,   \* history: a call began with a frame partly consumed by the one before
    delivered,  \* messages given to the application
    observed,   \* messages given to the callback of each observer of the stack
    faults      \* failed reads of the source so far

sourceVars == <<sumLen, api, sent, avail, closed>>
readVars   == <<pos, start, todo, declared, derailed>>
outVars    == <<result, delivered, observed>>
vars == <<sourceVars, readVars, pc, buffer, level, outVars, faults>>

-----------------------------------------------------------------------------
(* The stream. *)

LengthField == 4
HeaderLen == LengthField + sumLen
Size(f) == HeaderLen + f.plen

\* A byte of the buffer that no read has written.
Zero == -1

\* Offset of the first byte of frame i; of the end of the stream for i = Len(sent) + 1.
StartOf[i \in 1..(Len(sent) + 1)] ==
    IF i = 1 THEN 0 ELSE StartOf[i - 1] + Size(sent[i - 1])
StreamEnd == StartOf[Len(sent) + 1]

Boundaries == {StartOf[i] : i \in 1..(Len(sent) + 1)}
FrameIndices(p) == {i \in 1..Len(sent) : StartOf[i] = p}
FrameAt(p) == sent[CHOOSE i \in 1..Len(sent) : StartOf[i] = p]

\* A message: where its frame was taken to begin, and its bytes.
Message(p, bytes) == [from |-> p, bytes |-> bytes]

\* What the four bytes at offset p decode to.
Decoded(p) == IF FrameIndices(p) # {} THEN {FrameAt(p).plen} ELSE WireLens

\* The frame the deframer has read is one that was sent.
IsFrame(p, n) == FrameIndices(p) # {} /\ FrameAt(p).plen = n

-----------------------------------------------------------------------------
(* The source. *)

Arrive(n) ==
    /\ ~closed
    /\ avail + n <= StreamEnd
    /\ avail' = avail + n
    /\ UNCHANGED <<sumLen, api, sent, closed, readVars, pc, buffer, level, outVars, faults>>

\* The sender closes the stream, or dies inside a frame.
Close ==
    /\ ~closed
    /\ closed' = TRUE
    /\ UNCHANGED <<sumLen, api, sent, avail, readVars, pc, buffer, level, outVars, faults>>

-----------------------------------------------------------------------------
(* StreamReader::read_message *)

\* What the loop over the messages does with what a call returned: on after a
\* message, out at the end of the stream; after an error the application decides.
LoopsForEver(r) == IF r \in {"Some", "None"} THEN {"idle"} ELSE {"idle", "over"}  \* mutant
After(r) == CASE r = "Some" -> {"idle"}
              [] r = "None" -> {"over"}
              [] OTHER      -> {"idle", "over"}

Return(r) ==
    /\ result' = r
    /\ pc' \in After(r)

\* The last call returned with part of a frame consumed.
Derailing == \/ result \in {"UnexpectedEof", "InvalidFrame"}
             \/ result = "Io" /\ pos # start

ReadSucceeded == {"Some", "Handler", "FlatbuffersError"}

\* The call begins; after a read that succeeded a memory policy may have scheduled
\* a shrink, and then the buffer is a fresh one.
StartRead ==
    /\ pc = "idle"
    /\ buffer' \in {buffer} \cup IF result \in ReadSucceeded THEN {<<>>} ELSE {}
    /\ start' = pos
    /\ derailed' = (derailed \/ Derailing)
    /\ todo' = 1
    /\ declared' = 0
    /\ level' = 0
    /\ pc' = "probe"
    /\ UNCHANGED <<sourceVars, pos, outVars, faults>>

\* The buffer with n more bytes read into it, in a payload of which `todo` are missing.
FilledWith(n) ==
    [k \in DOMAIN buffer |->
        LET first == declared - todo + 1
        IN  IF first <= k /\ k < first + n THEN pos + (k - first) ELSE buffer[k]]

\* One read() of the source inside a read_exact.
ReadSome(n) ==
    /\ pc \in {"probe", "header", "payload"}
    /\ n <= todo
    /\ pos + n <= avail
    /\ pos' = pos + n
    /\ todo' = IF pc = "probe" THEN HeaderLen - 1 ELSE todo - n
    /\ pc' = IF pc = "probe" THEN "header" ELSE pc
    /\ buffer' = IF pc = "payload" THEN FilledWith(n) ELSE buffer
    /\ UNCHANGED <<sourceVars, start, declared, derailed, level, outVars, faults>>

\* What the end of the stream is taken for.
ShortHeaderIsEnd == IF pc = "payload" THEN "UnexpectedEof" ELSE "None"  \* mutant
AtEof == IF pc = "probe" THEN "None" ELSE "UnexpectedEof"

EndOfStream ==
    /\ pc \in {"probe", "header", "payload"}
    /\ todo > 0
    /\ closed
    /\ pos = avail
    /\ Return(AtEof)
    /\ UNCHANGED <<sourceVars, readVars, buffer, level, delivered, observed, faults>>

\* The source fails (a timeout, EAGAIN, a reset): the error is returned intact. One
\* of the kind UnexpectedEof (a decompressor cut short) is taken for the end.
SourceFails ==
    /\ pc \in {"probe", "header", "payload"}
    /\ todo > 0
    /\ faults < MaxFaults
    /\ faults' = faults + 1
    /\ Return("Io") \/ Return(AtEof)
    /\ UNCHANGED <<sourceVars, readVars, buffer, level, delivered, observed>>

\* read_payload's resize: the buffer grows to the high-water mark, zeroed, and
\* what it held stays.
NeverGrown(n) == buffer  \* mutant
GrownTo(n) == [k \in 1..(IF n > Len(buffer) THEN n ELSE Len(buffer)) |->
                  IF k <= Len(buffer) THEN buffer[k] ELSE Zero]

\* The header is in: the length is bounded before the buffer is sized from it.
ParseHeader ==
    /\ pc = "header"
    /\ todo = 0
    /\ declared' \in Decoded(start)
    /\ IF declared' > MaxFrameLen
       THEN Return("InvalidFrame") /\ UNCHANGED <<todo, buffer>>
       ELSE /\ pc' = "payload"
            /\ todo' = declared'
            /\ buffer' = GrownTo(declared')
            /\ UNCHANGED result
    /\ UNCHANGED <<sourceVars, pos, start, derailed, level, delivered, observed, faults>>

\* Checksum::verify: junk and damaged payloads mismatch, unless there is no checksum.
NotVerified == TRUE  \* mutant
Verified == sumLen = 0 \/ (IsFrame(start, declared) /\ FrameAt(start).intact)

FrameRead ==
    /\ pc = "payload"
    /\ todo = 0
    /\ IF Verified
       THEN pc' = "adapt" /\ UNCHANGED result
       ELSE Return("ChecksumMismatch")
    /\ UNCHANGED <<sourceVars, readVars, buffer, level, delivered, observed, faults>>

-----------------------------------------------------------------------------
(* The adapters of the stack, from the inside out, and the application. *)

\* Validators judge the payload; what is no frame may look valid or not.
Verdicts == IF IsFrame(start, declared) THEN {FrameAt(start).valid} ELSE BOOLEAN

Validate ==
    /\ pc = "adapt"
    /\ level < Len(Stack)
    /\ Stack[level + 1] = "validate"
    /\ \E ok \in Verdicts :
          IF ok
          THEN level' = level + 1 /\ UNCHANGED <<pc, result>>
          ELSE Return("ValidationFailed") /\ UNCHANGED level
    /\ UNCHANGED <<sourceVars, readVars, buffer, delivered, observed, faults>>

\* The bytes an observer's callback and the application are lent.
WholeBuffer == buffer  \* mutant
Observed == SubSeq(buffer, 1, declared)
Lent == SubSeq(buffer, 1, declared)

Observe ==
    /\ pc = "adapt"
    /\ level < Len(Stack)
    /\ Stack[level + 1] = "observe"
    /\ observed' = [observed EXCEPT ![level + 1] = Append(@, Message(start, Observed))]
    /\ level' = level + 1
    /\ UNCHANGED <<sourceVars, readVars, pc, buffer, result, delivered, faults>>

\* from_payload of the typed reader: the root, or not; what is no frame may have one.
Roots == IF IsFrame(start, declared) THEN {FrameAt(start).root} ELSE BOOLEAN

\* read_message returns Ok(Some(payload)), borrowed from the buffer, and a typed
\* reader passes on its root.
HandOver ==
    /\ pc' = "handler"
    /\ delivered' = Append(delivered, Message(start, Lent))
    /\ UNCHANGED result

Deliver ==
    /\ pc = "adapt"
    /\ level = Len(Stack)
    /\ api = "raw"
    /\ HandOver
    /\ UNCHANGED <<sourceVars, readVars, buffer, level, observed, faults>>

\* TypedMessages::next_typed, and the closure of process_typed.
DeliverTyped ==
    /\ pc = "adapt"
    /\ level = Len(Stack)
    /\ api = "typed"
    /\ \E ok \in Roots :
          IF ok THEN HandOver ELSE Return("FlatbuffersError") /\ UNCHANGED delivered
    /\ UNCHANGED <<sourceVars, readVars, buffer, level, observed, faults>>

\* The application, or the closure of process_all, is done with the payload.
Handled ==
    /\ pc = "handler"
    /\ Return("Some") \/ Return("Handler")
    /\ UNCHANGED <<sourceVars, readVars, buffer, level, delivered, observed, faults>>

-----------------------------------------------------------------------------

Init ==
    /\ sumLen \in SumLens
    /\ api \in Apis
    /\ sent \in UNION {[1..n -> Kinds] : n \in 0..MaxFrames}
    /\ avail = 0
    /\ closed = FALSE
    /\ pos = 0
    /\ start = 0
    /\ pc = "idle"
    /\ todo = 0
    /\ declared = 0
    /\ buffer = <<>>
    /\ level = 0
    /\ result = "Some"
    /\ derailed = FALSE
    /\ delivered = <<>>
    /\ observed = [k \in 1..Len(Stack) |-> <<>>]
    /\ faults = 0

ReaderStep ==
    \/ StartRead
    \/ \E n \in 1..(StreamEnd - pos) : ReadSome(n)
    \/ EndOfStream
    \/ ParseHeader
    \/ FrameRead
    \/ Validate
    \/ Observe
    \/ Deliver
    \/ DeliverTyped
    \/ Handled

SourceStep == (\E n \in 1..(StreamEnd - avail) : Arrive(n)) \/ Close

Next == ReaderStep \/ SourceStep \/ SourceFails

Spec == Init /\ [][Next]_vars

(***************************************************************************)
(* Fairness: a call runs on while there are bytes or the end to read, the  *)
(* application's handler returns, and the sender closes in the end.        *)
(***************************************************************************)
FairSpec == Spec /\ WF_vars(ReaderStep) /\ WF_vars(SourceStep)

-----------------------------------------------------------------------------
(* Properties. *)

PCs == {"idle", "probe", "header", "payload", "adapt", "handler", "over"}

\* The type invariant; while a payload is being read there is room for it.
TypeOK ==
    /\ sumLen \in SumLens
    /\ api \in Apis
    /\ sent \in Seq(Kinds)
    /\ avail \in 0..StreamEnd
    /\ closed \in BOOLEAN
    /\ pos \in 0..avail
    /\ start \in 0..pos
    /\ pc \in PCs
    /\ todo \in Nat
    /\ declared \in Nat
    /\ buffer \in Seq(Nat \cup {Zero})
    /\ pc \in {"payload", "adapt", "handler"} => declared <= Len(buffer)
    /\ level \in 0..Len(Stack)
    /\ faults \in 0..MaxFaults

\* Frames that get through the deframer and through the first k adapters.
Passes(f, k) ==
    /\ f.plen <= MaxFrameLen
    /\ sumLen = 0 \/ f.intact
    /\ (\E j \in 1..k : Stack[j] = "validate") => f.valid

\* Frame i as a message.
AsMessage(i) ==
    Message(StartOf[i], [k \in 1..sent[i].plen |-> StartOf[i] + HeaderLen + (k - 1)])

\* The frames that end at or before p and that k adapters let pass.
Passing(k, p) == {i \in 1..Len(sent) : StartOf[i + 1] <= p /\ Passes(sent[i], k)}

\* Those of them the application is given.
Wanted(p) == {i \in Passing(Len(Stack), p) : api = "raw" \/ sent[i].root}

\* The messages are these frames, each once and in their order on the wire, which their
\* offsets tell: no two frames begin at the same one.
InOrder(messages) ==
    \A i, j \in DOMAIN messages : i < j => messages[i].from < messages[j].from
Exactly(messages, frames) ==
    InOrder(messages) /\ Range(messages) = {AsMessage(i) : i \in frames}

\* Between two calls, in the handler, or at the end of the session.
Settled == pc \in {"idle", "handler", "over"}

(***************************************************************************)
(* As long as no call starts inside a frame, the application is lent       *)
(* exactly the good frames, each once, in order, with their own bytes:     *)
(* errors it reads on after (a mismatch, a rejection, a payload without    *)
(* the root a typed reader expects, one of its own) neither                *)
(* lose, repeat nor invent a message, whatever a longer payload, a failed  *)
(* read or a shrink has left in the buffer.                                *)
(***************************************************************************)
DeliversExactly == Settled /\ ~derailed => Exactly(delivered, Wanted(pos))

(***************************************************************************)
(* With a checksum nothing but good frames is ever delivered, each at most *)
(* once and in order, also by a session that read on after an error that   *)
(* left it inside a frame, and that takes payload bytes for headers.       *)
(***************************************************************************)
OnlyGoodFrames ==
    sumLen > 0 =>
        /\ Range(delivered) \subseteq {AsMessage(i) : i \in Wanted(pos)}
        /\ InOrder(delivered)

(***************************************************************************)
(* The end of the stream is taken for clean only between frames, and what  *)
(* ends inside a header, a checksum or a payload is an error               *)
(* (docs/DESIGN_v2_7.md, "Clean EOF vs. torn frame").                      *)
(***************************************************************************)
CleanEndBetweenFrames == ~derailed /\ result = "None" => pos \in Boundaries

(***************************************************************************)
(* The same of every session, as docs/WIRE_FORMAT_SPEC.md has it: "Clean   *)
(* EOF may only occur between frames". A call that follows a failed one    *)
(* probes for a boundary wherever that one stopped.                        *)
(***************************************************************************)
EveryCleanEndBetweenFrames == result = "None" => pos \in Boundaries

(***************************************************************************)
(* An observer's callback is "invoked exactly once per frame, after inner  *)
(* deframing succeeds" (ObserverDeframer), with the payload of the frame,  *)
(* whatever the adapters around it then decide.                            *)
(***************************************************************************)
ObservesExactly ==
    Settled /\ ~derailed =>
        \A k \in 1..Len(Stack) :
            Stack[k] = "observe" => Exactly(observed[k], Passing(k - 1, pos))

(***************************************************************************)
(* Every session ends: no call waits for bytes that a closed source will   *)
(* never get, and the loop over the messages leaves at the end.            *)
(***************************************************************************)
SessionEnds == <>(pc = "over")

=============================================================================
