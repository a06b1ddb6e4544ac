----------------------------- MODULE WriteStack -----------------------------
(***************************************************************************)
(* A StreamWriter whose framer is wrapped in adapters, on a sink that      *)
(* may fail after any byte: a payload goes through the bounds, validators  *)
(* and observers from the outermost in, and what gets through is framed    *)
(* and written, slice by slice. The properties read the sink back with the *)
(* matching deframer.                                                      *)
(***************************************************************************)
EXTENDS Framing, Validation

CONSTANTS
    Formats,        \* formats of the innermost framer
    Stacks,         \* adapters around it, outermost first
    Payloads,       \* finished payloads the application writes
    ReaderLimits,   \* max_frame_len of the deframers that read the sink back
    MaxWrites,      \* bound: calls of write() and write_finished()
    MaxFaults       \* bound: writes in which the sink fails

\* What is put around a framer, outermost first.
IsAdapter(adapter) ==
    \/ adapter.kind = "bounded" /\ adapter.max \in Nat
    \/ adapter.kind = "validate" /\ IsValidator(adapter.validator)
    \/ adapter.kind = "observe"
IsFramer(framer) ==
    framer \in Seq(Range(framer)) /\ \A adapter \in Range(framer) : IsAdapter(adapter)

\* A payload, or a stream, with byte k changed.
Damage(bytes, k) == [bytes EXCEPT ![k] = (@ + 1) % Base]

ASSUME WriteStackAssumption ==
    /\ \A f \in Formats : IsFormat(f)
    /\ \A s \in Stacks : IsFramer(s)
    /\ Payloads \subseteq Seq(Byte)
    /\ \A f \in Formats, p \in Payloads \cup {<<>>} : Calculate(f.alg, p) \in 0..MaxU64
    /\ \A f \in Formats, p \in Payloads :
          \A k \in DOMAIN p : Calculate(f.alg, Damage(p, k)) \in 0..MaxU64
    /\ ReaderLimits \subseteq 0..MaxWireFrameLen
    /\ MaxWrites \in Nat
    /\ MaxFaults \in Nat

VARIABLES
    format,     \* the innermost framer
    stack,      \* the adapters of the writer
    sink,       \* the bytes the sink has accepted
    pc,         \* where the current call stands
    level,      \* adapters the payload has passed
    payload,    \* the payload of the call
    out,        \* what is left of the slices to write
    result,     \* what the last call returned
    calls,      \* calls so far
    faults,     \* failures of the sink so far
    attempts,   \* history: the payloads the framer was given
    accepted,   \* history: those whose call returned Ok
    kept,       \* history: how many of those came before the sink first failed
    observed    \* history: the payloads each observer of the stack was given

callVars    == <<pc, level, payload, out, result, calls>>
historyVars == <<attempts, accepted, kept, observed>>
vars == <<format, stack, sink, callVars, faults, historyVars>>

NoFault == -1
Ended(kind, by) == [kind |-> kind, by |-> by]

-----------------------------------------------------------------------------
(* FramerExt: each method puts an adapter around the framer built so far. *)

Bounded(framer, max) == << [kind |-> "bounded", max |-> max] >> \o framer
Observed(framer) == << [kind |-> "observe"] >> \o framer
WithValidator(framer, v) == << [kind |-> "validate", validator |-> v] >> \o framer

Adapter == stack[level + 1]
AtAdapter(kind) ==
    /\ pc = "stack"
    /\ level < Len(stack)
    /\ Adapter.kind = kind

-----------------------------------------------------------------------------

\* write() with an item that serializes, write_finished(), or a call of the framer.
StartWrite(p) ==
    /\ pc = "idle"
    /\ calls < MaxWrites
    /\ calls' = calls + 1
    /\ payload' = p
    /\ attempts' = Append(attempts, p)
    /\ level' = 0
    /\ pc' = "stack"
    /\ UNCHANGED <<format, stack, sink, out, result, faults, accepted, kept, observed>>

Return(kind, by) ==
    /\ result' = Ended(kind, by)
    /\ pc' = "idle"

\* write() with an item whose serialize returns Err: the framer is not reached.
SerializeFails ==
    /\ pc = "idle"
    /\ calls < MaxWrites
    /\ calls' = calls + 1
    /\ Return("Serialize", "")
    /\ UNCHANGED <<format, stack, sink, level, payload, out, faults, historyVars>>

\* BoundedFramer
Bound ==
    /\ AtAdapter("bounded")
    /\ IF Len(payload) > Adapter.max
       THEN Return("InvalidFrame", "") /\ UNCHANGED level
       ELSE level' = level + 1 /\ UNCHANGED <<pc, result>>
    /\ UNCHANGED <<format, stack, sink, payload, out, calls, faults, historyVars>>

\* ValidatingFramer
Validate ==
    /\ AtAdapter("validate")
    /\ LET verdict == Verdict(Adapter.validator, payload)
       IN  CASE verdict = "ok"    -> level' = level + 1 /\ UNCHANGED <<pc, result>>
             [] verdict = "panic" -> Return("panic", "") /\ UNCHANGED level
             [] OTHER             -> Return("ValidationFailed", verdict) /\ UNCHANGED level
    /\ UNCHANGED <<format, stack, sink, payload, out, calls, faults, historyVars>>

\* ObserverFramer calls back and then delegates.
SeenInside(p) == IF \E k \in (level + 1)..Len(stack) :  \* mutant
                       stack[k].kind = "bounded" /\ Len(p) > stack[k].max
                 THEN <<>> ELSE <<p>>
Seen(p) == <<p>>
Observe ==
    /\ AtAdapter("observe")
    /\ observed' = [observed EXCEPT ![level + 1] = @ \o Seen(payload)]
    /\ level' = level + 1
    /\ UNCHANGED <<format, stack, sink, pc, payload, out, result, calls, faults,
                   attempts, accepted, kept>>

\* The innermost framer: the slices of the frame, unless the length does not fit.
StartFrame ==
    /\ pc = "stack"
    /\ level = Len(stack)
    /\ IF Fits(payload)
       THEN /\ out' = Slices(format, payload)
            /\ pc' = "writing"
            /\ UNCHANGED result
       ELSE Return("InvalidFrame", "") /\ UNCHANGED out
    /\ UNCHANGED <<format, stack, sink, level, payload, calls, faults, historyVars>>

\* write_all of the next slice, however many pieces the sink takes it in.
Accept ==
    /\ pc = "writing"
    /\ out # <<>>
    /\ sink' = sink \o Head(out)
    /\ out' = Tail(out)
    /\ UNCHANGED <<format, stack, pc, level, payload, result, calls, faults, historyVars>>

FinishWrite ==
    /\ pc = "writing"
    /\ out = <<>>
    /\ accepted' = Append(accepted, payload)
    /\ Return("Ok", "")
    /\ UNCHANGED <<format, stack, sink, level, payload, out, calls, faults, attempts, kept,
                   observed>>

\* The sink fails, or takes nothing, after n bytes of a slice; the application may call
\* write() again.
SinkFails(n) ==
    /\ pc = "writing"
    /\ out # <<>>
    /\ n < Len(Head(out))
    /\ faults < MaxFaults
    /\ faults' = faults + 1
    /\ sink' = sink \o SubSeq(Head(out), 1, n)
    /\ out' = <<>>
    /\ kept' = IF kept = NoFault THEN Len(accepted) ELSE kept
    /\ Return("Io", "")
    /\ UNCHANGED <<format, stack, level, payload, calls, attempts, accepted, observed>>

-----------------------------------------------------------------------------

Init ==
    /\ format \in Formats
    /\ stack \in Stacks
    /\ sink = <<>>
    /\ pc = "idle"
    /\ level = 0
    /\ payload = <<>>
    /\ out = <<>>
    /\ result = Ended("none", "")
    /\ calls = 0
    /\ faults = 0
    /\ attempts = <<>>
    /\ accepted = <<>>
    /\ kept = NoFault
    /\ observed = [k \in DOMAIN stack |-> <<>>]

Next ==
    \/ \E p \in Payloads : StartWrite(p)
    \/ SerializeFails
    \/ Bound
    \/ Validate
    \/ Observe
    \/ StartFrame
    \/ Accept
    \/ FinishWrite
    \/ \E n \in 0..MaxU32 : SinkFails(n)

Spec == Init /\ [][Next]_vars

-----------------------------------------------------------------------------
(* Properties. *)

\* The type invariant; a call ends in one of the errors of the library and never panics.
TypeOK ==
    /\ format \in Formats
    /\ stack \in Stacks
    /\ sink \in Seq(Byte)
    /\ pc \in {"idle", "stack", "writing"}
    /\ level \in 0..Len(stack)
    /\ payload \in Payloads \cup {<<>>}
    /\ out \in Seq(Seq(Byte))
    /\ result.kind \in {"none", "Ok", "Serialize", "InvalidFrame", "ValidationFailed", "Io"}
    /\ calls \in 0..MaxWrites
    /\ faults \in 0..MaxFaults
    /\ attempts \in Seq(Payloads)
    /\ accepted \in Seq(Payloads)
    /\ kept \in {NoFault} \cup 0..MaxWrites
    /\ DOMAIN observed = DOMAIN stack

Clean == pc = "idle" /\ kept = NoFault

\* Where the frames of these payloads end.
HeaderOf(f) == Len(Frame(f, <<>>))
Ends(f, payloads) ==
    LET end[i \in 0..Len(payloads)] ==
            IF i = 0 THEN 0 ELSE end[i - 1] + HeaderOf(f) + Len(payloads[i])
    IN  end

HeaderLen == HeaderOf(format)
EndOf(i) == Ends(format, accepted)[i]
IndexMin(S) == CHOOSE i \in S : \A j \in S : i <= j
IndexMax(S) == CHOOSE i \in S : \A j \in S : i >= j

\* The lengths to which cuts inside the last frame shorten the stream; shorter ones it
\* had when fewer frames had been written.
Cuts == (IF accepted = <<>> THEN 0 ELSE EndOf(Len(accepted) - 1))..Len(sink)

\* What reading the first n bytes of the accepted frames must give a reader with
\* this limit: the whole frames up to the first that is too long for it.
Expected(n, max) ==
    LET whole   == IndexMax({i \in 0..Len(accepted) : EndOf(i) <= n})
        tooLong == IndexMin({i \in 1..Len(accepted) : Len(accepted[i]) > max}
                                \cup {Len(accepted) + 1})
        refused == tooLong <= Len(accepted) /\ EndOf(tooLong - 1) + HeaderLen <= n
        last    == IF refused THEN tooLong - 1 ELSE whole
    IN  [payloads |-> SubSeq(accepted, 1, last),
         end |-> CASE refused -> "InvalidFrame"
                   [] ~refused /\ EndOf(whole) = n -> "None"
                   [] OTHER -> "UnexpectedEof"]

(***************************************************************************)
(* What was written reads back, in every format: the payloads accepted,    *)
(* in order, with nothing of a rejected one between them; and of a stream  *)
(* cut anywhere, the frames before the cut, a clean end exactly between    *)
(* frames, and InvalidFrame for the first frame past the reader's limit.   *)
(***************************************************************************)
ReadsBack ==
    Clean =>
        \A n \in Cuts, max \in ReaderLimits :
            ProcessAll(format, SubSeq(sink, 1, n), max) = Expected(n, max)

(***************************************************************************)
(* At every moment, in the middle of a write and after a failed one that   *)
(* the application answered by writing on into the torn frame, a reader of *)
(* the sink is given the frames accepted before the failure first.         *)
(***************************************************************************)
AcceptedStaysReadable ==
    LET whole == IF kept = NoFault THEN accepted ELSE SubSeq(accepted, 1, kept)
    IN  IsPrefix(whole, ProcessAll(format, sink, MaxWireFrameLen).payloads)

Refuses(adapter, p) ==
    CASE adapter.kind = "bounded"  -> Len(p) > adapter.max
      [] adapter.kind = "validate" -> Verdict(adapter.validator, p) # "ok"
      [] adapter.kind = "observe"  -> FALSE

\* Those of the payloads that no adapter of the framer refuses, in order.
LetThrough(framer, payloads) ==
    LET upTo[i \in 0..Len(payloads)] ==
            IF i = 0 THEN <<>>
            ELSE IF \E j \in DOMAIN framer : Refuses(framer[j], payloads[i]) THEN upTo[i - 1]
            ELSE Append(upTo[i - 1], payloads[i])
    IN  upTo[Len(payloads)]

(***************************************************************************)
(* An observer is called once for each payload that the adapters around it *)
(* let through ("before delegating inner framing", ObserverFramer), in     *)
(* order, whatever the adapters inside it and the sink then do with it.    *)
(***************************************************************************)
ObserversSeeExactly ==
    pc = "idle" =>
        \A k \in DOMAIN stack :
            stack[k].kind = "observe" =>
                observed[k] = LetThrough(SubSeq(stack, 1, k - 1), attempts)

\* The validators a validator runs, in order.
Parts(v) == IF v.kind = "composite" THEN v.parts ELSE <<v>>

(***************************************************************************)
(* A refused payload is refused by the outermost adapter that objects to   *)
(* it, and a validation error names the first of its validators, in the    *)
(* order they were added, that does ("short-circuit on the first failure", *)
(* CompositeValidator); what no adapter refuses reaches the sink.          *)
(***************************************************************************)
BlamesFirst ==
    pc = "idle" /\ attempts # <<>> /\ result.kind # "Serialize" =>
        LET p       == attempts[Len(attempts)]
            refuser == {k \in DOMAIN stack : Refuses(stack[k], p)}
        IN  IF refuser = {}
            THEN result.kind \in IF Fits(p) THEN {"Ok", "Io"} ELSE {"InvalidFrame"}
            ELSE LET first == stack[IndexMin(refuser)]
                 IN  IF first.kind = "bounded"
                     THEN result = Ended("InvalidFrame", "")
                     ELSE \E i \in DOMAIN Parts(first.validator) :
                            /\ result = Ended("ValidationFailed", Parts(first.validator)[i].name)
                            /\ PartVerdict(Parts(first.validator)[i], p) # "ok"
                            /\ \A j \in 1..(i - 1) :
                                  PartVerdict(Parts(first.validator)[j], p) = "ok"

\* The stream with byte k changed.
Damaged(k) == Damage(sink, k)

(***************************************************************************)
(* For every checksum width from 1 to 8: a changed byte of the checksum    *)
(* field, or one of the payload that changes what the field can hold of    *)
(* the checksum, ends the read in ChecksumMismatch at that very frame.     *)
(***************************************************************************)
DamageDetected ==
    Clean /\ format.kind = "checksum" =>
        \A i \in 1..Len(accepted), max \in {MaxWireFrameLen} :
            LET alg   == format.alg
                start == EndOf(i - 1)
                found(k) == ProcessAll(format, Damaged(k), max)
                                = [payloads |-> SubSeq(accepted, 1, i - 1),
                                   end |-> "ChecksumMismatch"]
                after(k) == SubSeq(Damaged(k), start + HeaderLen + 1, EndOf(i))
            IN  /\ \A k \in (start + 5)..(start + HeaderLen) : found(k)
                /\ \A k \in (start + HeaderLen + 1)..EndOf(i) :
                      SumField(alg, after(k)) # SumField(alg, accepted[i]) => found(k)

(***************************************************************************)
(* A checksummed frame read through read_after_length, its length parsed   *)
(* by somebody else, gives what reading it in one piece gives, at every    *)
(* offset of every cut stream. Only where the stream ends inside the       *)
(* checksum field the split read may already object to the length.         *)
(***************************************************************************)
PathsAgree ==
    Clean /\ format.kind = "checksum" =>
        \A n \in Cuts, max \in ReaderLimits : \A p \in 0..n :
            LET bytes == SubSeq(sink, 1, n)
                whole == ReadAndDeframe(format, bytes, p, max)
                split == ReadByLength(format, bytes, p, max)
            IN  \/ whole = split
                \/ /\ whole.kind = "UnexpectedEof" /\ split.kind = "InvalidFrame"
                   /\ p + 4 <= n /\ n < p + HeaderLen

\* The checksum field and the magic number, if any, of an empty frame are zeros.
ZerosAreFrames ==
    /\ format.kind # "magic"
    /\ format.alg # NoChecksum =>
          \A k \in 1..SizeOf(format.alg) : SumField(format.alg, <<>>)[k] = 0

(***************************************************************************)
(* A tail of m zeros behind the frames (a hole a crash has left in a file) *)
(* reads as empty frames where an empty frame is all zeros: without a      *)
(* checksum, with CRC-32 and CRC-16. With XXH3, and any checksum that is   *)
(* not zero on an empty payload, no frame is ever read from it.            *)
(***************************************************************************)
ZeroTails ==
    Clean =>
        \A m \in {HeaderLen - 1, HeaderLen, 2 * HeaderLen + 1} :
            ProcessAll(format, sink \o [k \in 1..m |-> 0], MaxWireFrameLen).payloads
                = accepted \o IF ZerosAreFrames
                              THEN [k \in 1..(m \div HeaderLen) |-> <<>>]
                              ELSE <<>>

=============================================================================
