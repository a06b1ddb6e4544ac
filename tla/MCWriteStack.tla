---------------------------- MODULE MCWriteStack ----------------------------
(***************************************************************************)
(* A small instance of WriteStack and Examples for TLC: bytes of one bit,  *)
(* so that the length field holds lengths up to 15 and a u64 has eight     *)
(* bits.                                                                   *)
(***************************************************************************)
EXTENDS Examples

\* "Wide" is an implementation of another crate whose calculate exceeds its SIZE.
Wide == Algorithm("Wide", 1)

\* Not the hash functions, but like them on an empty payload and in their range.
Mix(p) == FoldLeft(LAMBDA h, byte : (3 * h + 7 * byte + 5 * Len(p)) % 251, 0, p)
MCHash(alg, p) ==
    CASE alg = XxHash64 -> (173 + Mix(p)) % 256
      [] alg = Crc32    -> Mix(p) % 16
      [] alg = Crc16    -> Mix(p) % 4
      [] alg = Wide     -> (173 + Mix(p)) % 256

MCMagic == <<1, 0>>

MCFormats ==
    {Default, MagicHeader}
        \cup {WithChecksum(alg) : alg \in {XxHash64, Crc32, Crc16, NoChecksum, Wide}}

Table == <<0, 0, 1, 0>>
DeepTable == <<1, 0, 1, 1, 0>>
NoTable == <<1>>
TooLong == [k \in 1..16 |-> 1]
Alien == <<0, 1, 1, 0>>
Long == [k \in 1..9 |-> 0]  \* for a reader with the default limit
MCPayloads == {<<>>, NoTable, Table, Alien, DeepTable, Long, TooLong}

\* Table is an event, Alien a table of another type, DeepTable an event nested too deep
\* for the default limits.
MCShape(p) == [roots  |-> CASE p \in {Table, DeepTable} -> {"table", "event"}
                            [] p = Alien               -> {"table"}
                            [] OTHER                   -> {},
               depth  |-> IF p = DeepTable THEN 3 ELSE 1,
               tables |-> 1]
MCLimits == [depth |-> 2, tables |-> 2]
Lenient == [depth |-> 3, tables |-> 2]

\* DefaultFramer.with_validator(...).observed(...).bounded(4).observed(...) and others.
MCStacks ==
    { <<>>,
      Observed(Bounded(Observed(WithValidator(<<>>, TableRootValidator)), 4)),
      Bounded(Observed(WithValidator(<<>>,
          Add(Add(Add(EmptyComposite, SizeValidator(1, 15)), TableRootWithLimits(Lenient)),
              TypedNamed("Event", "event")))), 15) }

MCReaderLimits == {DefaultMaxFrameLen, 4, MaxWireFrameLen}

=============================================================================
