------------------------------ MODULE Checksum ------------------------------
(***************************************************************************)
(* The checksum field of a frame as operators: what a value of the u64 the *)
(* Checksum trait works in becomes on the wire, how it is parsed back and  *)
(* how it is compared. The hash functions themselves belong to other       *)
(* crates and are a parameter.                                             *)
(***************************************************************************)
EXTENDS Integers, Sequences, SequencesExt

CONSTANTS
    Base,               \* values a byte can take: 256; 2 keeps the instances small
    Hash(_, _)          \* the hash function an algorithm calls, on a payload: a u64

ASSUME ChecksumAssumption == Base \in Nat \ {0, 1}

Byte == 0..(Base - 1)

\* What the k-th byte of an integer counts for, and the integers of four and eight bytes.
Place[k \in 0..8] == IF k = 0 THEN 1 ELSE Base * Place[k - 1]
MaxU32 == Place[4] - 1
MaxU64 == Place[8] - 1

-----------------------------------------------------------------------------
(* The algorithms: the width of their field, C::SIZE, and what they compute. *)

Algorithm(name, size) == [name |-> name, size |-> size]
XxHash64 == Algorithm("XxHash64", 8)
Crc32 == Algorithm("Crc32", 4)
Crc16 == Algorithm("Crc16", 2)
NoChecksum == Algorithm("NoChecksum", 0)

SizeOf(alg) == alg.size
Calculate(alg, payload) == IF alg = NoChecksum THEN 0 ELSE Hash(alg, payload)

-----------------------------------------------------------------------------

\* to_le_bytes of an integer of w bytes, and from_le_bytes.
ToLeBytes(n, w) == [k \in 1..w |-> (n \div Place[k - 1]) % Base]
FromLeBytes(bytes) ==
    LET from[k \in 1..(Len(bytes) + 1)] ==
            IF k > Len(bytes) THEN 0 ELSE bytes[k] + Base * from[k + 1]
    IN  from[1]

\* The value mask a field of `size` bytes can carry, and `value & mask`.
MaskOneShort(size) == IF size >= 8 THEN MaxU64 ELSE Place[IF size = 0 THEN 0 ELSE size - 1] - 1  \* mutant
WidthMask(size) == IF size >= 8 THEN MaxU64 ELSE Place[size] - 1
And(value, mask) == value % (mask + 1)

\* The low SIZE bytes of a value, little-endian; and such bytes as a value again.
WriteBytes(alg, value) == SubSeq(ToLeBytes(value, 8), 1, SizeOf(alg))
ReadBytes(alg, bytes) ==
    FromLeBytes([k \in 1..8 |-> IF k <= SizeOf(alg) THEN bytes[k] ELSE 0])

\* Checksum::verify: equal as far as the width of the field goes; NoChecksum overrides it.
UnmaskedVerify(alg, expected, payload) == Calculate(alg, payload) = expected  \* mutant
ZeroMeansNone(alg, expected, payload) ==  \* mutant
    expected = 0 \/ UnmaskedVerify(alg, expected, payload)
Verify(alg, expected, payload) ==
    \/ alg = NoChecksum
    \/ And(Calculate(alg, payload), WidthMask(SizeOf(alg)))
           = And(expected, WidthMask(SizeOf(alg)))

=============================================================================
