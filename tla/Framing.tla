------------------------------- MODULE Framing -------------------------------
(***************************************************************************)
(* The framers and deframers of the library, and the custom one of the     *)
(* examples, as operators on bytes: the slices a framer hands to the       *)
(* sink's write_all, and what a deframer makes of the bytes from an offset *)
(* to the end of the stream.                                               *)
(***************************************************************************)
EXTENDS Checksum

CONSTANT Magic          \* bytes of the custom framer's magic number, 0xABBA

ASSUME FramingAssumption == Magic \in Seq(Byte) /\ \E k \in DOMAIN Magic : Magic[k] # 0

\* A format: DefaultFramer, ChecksumFramer<alg>, MagicHeaderFramer.
Default == [kind |-> "default", alg |-> NoChecksum]
WithChecksum(alg) == [kind |-> "checksum", alg |-> alg]
MagicHeader == [kind |-> "magic", alg |-> NoChecksum]

\* ChecksumFramer::new takes no algorithm wider than the u64 it works in.
IsFormat(format) ==
    /\ format.kind \in {"default", "checksum", "magic"}
    /\ format.kind # "checksum" => format.alg = NoChecksum
    /\ SizeOf(format.alg) \in 0..8

\* The limits on the length of a payload: the default, half the range of the
\* length field (2 GiB), and the widest a deframer may be given.
MaxWireFrameLen == MaxU32
DefaultMaxFrameLen == (MaxU32 + 1) \div 2

\* A deframer of a format, with the adapters put around it, from the inside out.
NewDeframer(format) == [format |-> format, max |-> DefaultMaxFrameLen, adapters |-> <<>>]
WithMaxFrameLen(deframer, max) == [deframer EXCEPT !.max = max]

-----------------------------------------------------------------------------
(* Framer::frame_and_write *)

\* A payload the length field cannot express is refused.
Fits(payload) == Len(payload) <= MaxU32

LengthField(payload) == ToLeBytes(Len(payload), 4)
SumField(alg, payload) == WriteBytes(alg, Calculate(alg, payload))

\* The slices given to write_all, in order.
SumBeforeLength(format, payload) ==  \* mutant
    << SumField(format.alg, payload) \o LengthField(payload), payload >>
Slices(format, payload) ==
    CASE format.kind = "default"  -> << LengthField(payload), payload >>
      [] format.kind = "checksum" ->
            << LengthField(payload) \o SumField(format.alg, payload), payload >>
      [] format.kind = "magic"    -> << Magic, LengthField(payload), payload >>

\* The bytes of slices written one after the other, and of a frame.
Joined(slices) ==
    LET from[k \in 1..(Len(slices) + 1)] ==
            IF k > Len(slices) THEN << >> ELSE slices[k] \o from[k + 1]
    IN  from[1]
Frame(format, payload) == Joined(Slices(format, payload))

-----------------------------------------------------------------------------
(* Deframer::read_and_deframe, on the bytes from offset p on.              *)
(* A result: its kind, and with Some the payload and the offset behind it. *)

Result(kind) == [kind |-> kind, payload |-> <<>>, next |-> 0]
Some(payload, next) == [kind |-> "Some", payload |-> payload, next |-> next]

Slice(bytes, p, n) == SubSeq(bytes, p + 1, p + n)

\* read_header of n bytes: the probe tells a clean end from a torn header.
ShortHeaderIsEnd(bytes, p, n) == IF p + n > Len(bytes) THEN "None" ELSE "Some"  \* mutant
ReadHeader(bytes, p, n) ==
    CASE p = Len(bytes)     -> "None"
      [] p + n <= Len(bytes) -> "Some"
      [] OTHER              -> "UnexpectedEof"

ReadPayload(bytes, p, n) ==
    IF p + n > Len(bytes) THEN Result("UnexpectedEof") ELSE Some(Slice(bytes, p, n), p + n)

\* The payload of n bytes at p, verified against the checksum read before it.
ReadVerified(alg, expected, bytes, p, n) ==
    LET got == ReadPayload(bytes, p, n)
    IN  IF got.kind = "Some" /\ ~Verify(alg, expected, got.payload)
        THEN Result("ChecksumMismatch")
        ELSE got

\* read_after_length: the length n is parsed, p is the offset behind it.
SumThenPayload(alg, bytes, p, n) ==
    IF p + SizeOf(alg) > Len(bytes)
    THEN Result("UnexpectedEof")
    ELSE ReadVerified(alg, ReadBytes(alg, Slice(bytes, p, SizeOf(alg))),
                      bytes, p + SizeOf(alg), n)

UnboundedAfterLength(alg, bytes, p, n, max) == SumThenPayload(alg, bytes, p, n)  \* mutant
ChecksumReadAfterLength(alg, bytes, p, n, max) ==
    IF n > max THEN Result("InvalidFrame") ELSE SumThenPayload(alg, bytes, p, n)

LimitExcluded(format, bytes, p, n, max) ==  \* mutant
    IF n >= max THEN Result("InvalidFrame") ELSE ReadPayload(bytes, p, n)
ReadAfterLength(format, bytes, p, n, max) ==
    IF format.kind = "checksum"
    THEN ChecksumReadAfterLength(format.alg, bytes, p, n, max)
    ELSE IF n > max THEN Result("InvalidFrame") ELSE ReadPayload(bytes, p, n)

\* The length field at p.
DeclaredLen(bytes, p) == FromLeBytes(Slice(bytes, p, 4))

\* The trait's provided read_and_deframe: the length on its own, then the rest.
ReadByLength(format, bytes, p, max) ==
    LET header == ReadHeader(bytes, p, 4)
    IN  IF header = "Some"
        THEN ReadAfterLength(format, bytes, p + 4, DeclaredLen(bytes, p), max)
        ELSE Result(header)

\* ChecksumDeframer reads [len | checksum] as one header.
ReadChecksummed(alg, bytes, p, max) ==
    LET size   == SizeOf(alg)
        header == ReadHeader(bytes, p, 4 + size)
    IN  IF header # "Some"
        THEN Result(header)
        ELSE IF DeclaredLen(bytes, p) > max
        THEN Result("InvalidFrame")
        ELSE ReadVerified(alg, ReadBytes(alg, Slice(bytes, p + 4, size)),
                          bytes, p + 4 + size, DeclaredLen(bytes, p))

\* MagicHeaderDeframer reads [magic | len] as one header.
ReadMagic(bytes, p, max) ==
    LET size   == Len(Magic)
        header == ReadHeader(bytes, p, size + 4)
    IN  IF header # "Some"
        THEN Result(header)
        ELSE IF Slice(bytes, p, size) # Magic
        THEN Result("InvalidFrame")
        ELSE ReadAfterLength(MagicHeader, bytes, p + size + 4,
                             DeclaredLen(bytes, p + size), max)

ReadAndDeframe(format, bytes, p, max) ==
    CASE format.kind = "default"  -> ReadByLength(format, bytes, p, max)
      [] format.kind = "checksum" -> ReadChecksummed(format.alg, bytes, p, max)
      [] format.kind = "magic"    -> ReadMagic(bytes, p, max)

-----------------------------------------------------------------------------

\* StreamReader::process_all over the bytes: the payloads, and what ended the loop.
Gathered(got, from) ==
    IF got.kind # "Some"
    THEN [payloads |-> <<>>, end |-> got.kind]
    ELSE LET rest == from[got.next]
         IN  [payloads |-> <<got.payload>> \o rest.payloads, end |-> rest.end]
ProcessAll(format, bytes, max) ==
    LET from[p \in 0..Len(bytes)] == Gathered(ReadAndDeframe(format, bytes, p, max), from)
    IN  from[0]

=============================================================================
