-------------------------- MODULE WriteStackProofs --------------------------
(***************************************************************************)
(* Theorems about the framers and deframers on bytes, and about WriteStack *)
(* for every base of the bytes, every hash function, all formats,          *)
(* adapters, payloads and limits, and any number of writes and failures;   *)
(* about what the reading side makes of its streams, and about the example *)
(* programs.                                                               *)
(***************************************************************************)
EXTENDS Examples, Counting, SequenceTheorems, FiniteSetTheorems

-----------------------------------------------------------------------------
(* Integers and their bytes. *)

\* What a byte counts for.
LEMMA Places ==
    /\ Place[0] = 1
    /\ \A k \in 0..8 : Place[k] \in Nat \ {0}
    /\ \A k \in 1..8 : Place[k] = Base * Place[k - 1]
<1> DEFINE step == [k \in 1..8 |-> [v \in Nat |-> Base * v]]
           n == 8
           one == 1
<1>1. Base \in Nat \ {0, 1}
  BY ChecksumAssumption
<1>2. Steps(n, Nat, one, step)
  BY <1>1 DEF Steps
<1>3. PICK g \in [0..8 -> Nat] : g[0] = 1 /\ \A k \in 1..8 : g[k] = step[k][g[k - 1]]
  <2>1. \E g \in [0..n -> Nat] : g[0] = one /\ \A k \in 1..n : g[k] = step[k][g[k - 1]]
    <3>. HIDE DEF step, n, one
    <3>. QED BY <1>2, StepsUp
  <2>. QED BY <2>1
<1>4. g = [k \in 0..8 |-> IF k = 0 THEN 1 ELSE Base * g[k - 1]]
  <2>1. ASSUME NEW k \in 0..8 PROVE g[k] = IF k = 0 THEN 1 ELSE Base * g[k - 1]
    <3>1. k # 0 => k \in 1..8 /\ k - 1 \in 0..8
      OBVIOUS
    <3>. QED BY <1>3, <3>1
  <2>. QED BY <1>3, <2>1
<1>5. Place = [k \in 0..8 |-> IF k = 0 THEN 1 ELSE Base * Place[k - 1]]
  BY <1>4 DEF Place
<1>6. Place[0] = 1 /\ \A k \in 1..8 : Place[k] = Base * Place[k - 1]
  BY <1>5
<1> DEFINE S == {m \in Nat : m <= 8 => Place[m] \in Nat \ {0}}
<1>7. ASSUME NEW k \in 0..8 PROVE Place[k] \in Nat \ {0}
  <2>1. 0 \in S
    BY <1>6
  <2>2. ASSUME NEW m \in S, m < k PROVE m + 1 \in S
    <3>1. m \in Nat /\ m + 1 \in 1..8 /\ m <= 8 /\ (m + 1) - 1 = m
      BY <2>2
    <3>2. Place[m] \in Nat \ {0} /\ Place[m + 1] = Base * Place[m]
      BY <1>6, <3>1
    <3>3. Base * Place[m] \in Nat \ {0}
      BY <1>1, <3>2
    <3>. QED BY <3>1, <3>2, <3>3
  <2>3. k \in Nat /\ S \in SUBSET Nat
    OBVIOUS
  <2>4. k \in S
    <3>. HIDE DEF S
    <3>. QED BY <2>1, <2>2, <2>3, CountUp
  <2>. QED BY <2>4
<1>. QED BY <1>6, <1>7

\* The widest length, frame and checksum are numbers.
LEMMA Widths == MaxU32 \in Nat /\ MaxWireFrameLen \in Nat /\ MaxU64 \in Nat
<1>1. Place[4] \in Nat \ {0} /\ Place[8] \in Nat \ {0}
  BY Places
<1>2. MaxU32 \in Nat /\ MaxWireFrameLen \in Nat
  BY <1>1 DEF MaxU32, MaxWireFrameLen
<1>3. MaxU64 \in Nat
  BY <1>1 DEF MaxU64
<1>. QED BY <1>2, <1>3

\* Division with a remainder.
LEMMA Division ==
    ASSUME NEW n \in Nat, NEW b \in Nat \ {0}
    PROVE  /\ n \div b \in Nat /\ n % b \in Nat /\ n % b \in 0..(b - 1)
           /\ n = b * (n \div b) + (n % b)
OBVIOUS

\* Dividing by two numbers is dividing by their product.
LEMMA NestedDivision ==
    ASSUME NEW n \in Nat, NEW a \in Nat \ {0}, NEW b \in Nat \ {0}
    PROVE  n \div (b * a) = (n \div a) \div b
<1> DEFINE q == n \div a
           r == q \div b
           s == n % a
           t == q % b
<1>1. q \in Nat /\ s \in 0..(a - 1) /\ n = a * q + s
  OBVIOUS
<1>2. r \in Nat /\ t \in 0..(b - 1) /\ q = b * r + t
  BY <1>1
<1>. HIDE DEF q, r, s, t
<1> DEFINE u == a * t + s
<1>3. u \in Nat /\ u < b * a
  <2>1. a * t \in Nat /\ a * t <= a * (b - 1)
    BY <1>2
  <2>2. a * (b - 1) = b * a - a /\ b * a \in Nat
    OBVIOUS
  <2>. QED BY <1>1, <2>1, <2>2
<1>4. n = (b * a) * r + u
  <2>1. a * q = a * (b * r) + a * t
    BY <1>2
  <2>2. a * (b * r) = (b * a) * r
    BY <1>2
  <2>. QED BY <1>1, <1>2, <2>1, <2>2
<1>5. b * a \in Nat \ {0}
  OBVIOUS
<1>. HIDE DEF u
<1>6. \A m \in Nat \ {0} : n = m * r + u /\ u < m => n \div m = r
  BY <1>2, <1>3
<1>7. n \div (b * a) = r
  BY <1>3, <1>4, <1>5, <1>6
<1>. QED BY <1>7 DEF q, r

\* A place is a multiple of each lower one.
LEMMA PlaceDivides ==
    ASSUME NEW m \in 0..8, NEW k \in 0..m
    PROVE  \E r \in Nat \ {0} : Place[m] = Place[k] * r
<1> DEFINE S == {d \in Nat : k + d <= m => \E r \in Nat \ {0} : Place[k + d] = Place[k] * r}
<1>1. 0 \in S
  <2>1. Place[k + 0] = Place[k] * 1
    BY Places
  <2>. QED BY <2>1
<1>2. ASSUME NEW d \in S, d < m - k PROVE d + 1 \in S
  <2>1. d \in Nat /\ k + d \in 0..8 /\ k + (d + 1) \in 1..8 /\ (k + (d + 1)) - 1 = k + d
    BY <1>2
  <2>2. PICK r \in Nat \ {0} : Place[k + d] = Place[k] * r
    BY <1>2, <2>1
  <2>3. Place[k + (d + 1)] = Base * Place[k + d]
    BY <2>1, Places
  <2>4. Base * (Place[k] * r) = Place[k] * (Base * r) /\ Base * r \in Nat \ {0}
    BY ChecksumAssumption, Places
  <2>5. Place[k + (d + 1)] = Place[k] * (Base * r)
    BY <2>2, <2>3, <2>4
  <2>. QED BY <2>1, <2>4, <2>5
<1>3. m - k \in Nat /\ k + (m - k) = m /\ S \in SUBSET Nat
  OBVIOUS
<1>4. m - k \in S
  <2>. HIDE DEF S
  <2>. QED BY <1>1, <1>2, <1>3, CountUp
<1>. QED BY <1>3, <1>4

\* The low m bytes of v are those of v modulo the m-th place.
LEMMA LowDigits ==
    ASSUME NEW v \in Nat, NEW m \in 0..8, NEW k \in 1..m
    PROVE  ((v % Place[m]) \div Place[k - 1]) % Base = (v \div Place[k - 1]) % Base
<1> DEFINE a == Place[k - 1]
           P == Place[m]
           u == v % P
           q == v \div P
           x == u \div a
           s == u % a
<1>1. k \in 0..m /\ k - 1 \in 0..8 /\ k \in 1..8
  OBVIOUS
<1>2. PICK r \in Nat \ {0} : P = Place[k] * r
  BY <1>1, PlaceDivides
<1>3. a \in Nat \ {0} /\ P \in Nat \ {0} /\ Place[k] = Base * a /\ Base \in Nat \ {0}
  BY <1>1, Places, ChecksumAssumption
<1>. HIDE DEF a, P
<1>4. u \in Nat /\ q \in Nat /\ v = P * q + u
  BY <1>3, Division
<1>. HIDE DEF u, q
<1>5. x \in Nat /\ s \in 0..(a - 1) /\ u = a * x + s
  BY <1>3, <1>4, Division
<1>. HIDE DEF x, s
<1> DEFINE y == Base * (r * q) + x
<1>6. y \in Nat /\ v = a * y + s
  <2>1. r * q \in Nat /\ Base * (r * q) \in Nat
    BY <1>3, <1>4
  <2>2. P * q = a * (Base * (r * q))
    BY <1>2, <1>3, <1>4
  <2>3. a * (Base * (r * q) + x) = a * (Base * (r * q)) + a * x
    BY <1>3, <1>5, <2>1
  <2>. QED BY <1>3, <1>4, <1>5, <2>1, <2>2, <2>3
<1>7. v \div a = y
  <2>. HIDE DEF y
  <2>1. s \in Nat /\ s < a
    BY <1>3, <1>5
  <2>. QED BY <1>3, <1>6, <2>1
<1>8. y % Base = x % Base
  <2> DEFINE z == r * q
             c == x \div Base
             t == x % Base
  <2>1. z \in Nat /\ c \in Nat /\ t \in 0..(Base - 1) /\ x = Base * c + t
    BY <1>3, <1>4, <1>5
  <2>2. y = Base * z + x
    OBVIOUS
  <2>. HIDE DEF z, c, t, y
  <2>3. y = Base * (z + c) + t /\ z + c \in Nat /\ t \in Nat /\ t < Base
    BY <1>3, <2>1, <2>2
  <2>4. y % Base = t
    BY <1>3, <1>6, <2>3
  <2>. QED BY <2>4 DEF t
<1>. QED BY <1>7, <1>8 DEF a, u, P, x

\* Above the m-th place there is nothing of a number below it.
LEMMA NoHighDigits ==
    ASSUME NEW m \in 0..8, NEW u \in Nat, u < Place[m], NEW k \in m..8
    PROVE  u \div Place[k] = 0 /\ u < Place[k]
<1>1. PICK r \in Nat \ {0} : Place[k] = Place[m] * r
  BY PlaceDivides
<1>2. Place[m] \in Nat \ {0} /\ Place[k] \in Nat \ {0}
  BY Places
<1>3. Place[m] <= Place[k]
  <2>1. Place[m] * 1 <= Place[m] * r
    BY <1>2
  <2>. QED BY <1>1, <1>2, <2>1
<1>4. u < Place[k]
  BY <1>2, <1>3
<1>5. u = Place[k] * 0 + u
  BY <1>2
<1>. QED BY <1>2, <1>4, <1>5

\* The bytes of an integer.
LEMMA LeBytes ==
    ASSUME NEW n \in Nat, NEW w \in 0..8
    PROVE  ToLeBytes(n, w) \in [1..w -> Byte] /\ ToLeBytes(n, w) \in Seq(Byte)
           /\ Len(ToLeBytes(n, w)) = w
<1>1. ASSUME NEW k \in 1..w PROVE (n \div Place[k - 1]) % Base \in Byte
  <2>1. k - 1 \in 0..8 /\ Base \in Nat \ {0}
    BY ChecksumAssumption
  <2>2. n \div Place[k - 1] \in Nat
    BY <2>1, Places, Division
  <2>. QED BY <2>1, <2>2, Division DEF Byte
<1>2. ToLeBytes(n, w) \in [1..w -> Byte]
  BY <1>1 DEF ToLeBytes
<1>. QED BY <1>2, SeqDef

\* What the recursion of FromLeBytes gives.
FromBytes(bytes, g) ==
    /\ g \in [1..(Len(bytes) + 1) -> Nat] /\ g[Len(bytes) + 1] = 0
    /\ \A k \in 1..Len(bytes) : g[k] = bytes[k] + Base * g[k + 1]

\* FromLeBytes is the first value of such a function.
LEMMA FromLe ==
    ASSUME NEW bytes \in Seq(Byte)
    PROVE  FromLeBytes(bytes) \in Nat /\ \E g : FromBytes(bytes, g) /\ FromLeBytes(bytes) = g[1]
<1> DEFINE n == Len(bytes)
           zero == 0
           step == [k \in 1..n |-> [v \in Nat |-> bytes[k] + Base * v]]
           from == CHOOSE g : g = [k \in 1..(n + 1) |->
                                     IF k > n THEN 0 ELSE bytes[k] + Base * g[k + 1]]
<1>1. n \in Nat /\ Base \in Nat /\ \A k \in 1..n : bytes[k] \in Nat
  BY LenProperties, ElementOfSeq, ChecksumAssumption DEF Byte
<1>2. Steps(n, Nat, zero, step)
  <2>1. step \in [1..n -> [Nat -> Nat]]
    BY <1>1
  <2>. QED BY <1>1, <2>1 DEF Steps
<1>3. FromLeBytes(bytes) = from[1]
  BY DEF FromLeBytes
<1>. HIDE DEF n
<1>4. PICK g \in [1..(n + 1) -> Nat] :
        g[n + 1] = zero /\ \A k \in 1..n : g[k] = step[k][g[k + 1]]
  <2>. HIDE DEF zero, step
  <2>. QED BY <1>2, StepsDown
<1>5. g = [k \in 1..(n + 1) |-> IF k > n THEN 0 ELSE bytes[k] + Base * g[k + 1]]
  <2>1. ASSUME NEW k \in 1..(n + 1)
        PROVE  g[k] = IF k > n THEN 0 ELSE bytes[k] + Base * g[k + 1]
    <3>1. CASE k > n
      <4>1. k = n + 1
        BY <1>1, <3>1
      <4>. QED BY <1>4, <3>1, <4>1
    <3>2. CASE ~(k > n)
      <4>1. k \in 1..n /\ k + 1 \in 1..(n + 1)
        BY <1>1, <3>2
      <4>. QED BY <1>4, <3>2, <4>1
    <3>. QED BY <3>1, <3>2
  <2>. QED BY <1>4, <2>1
<1>6. from = [k \in 1..(n + 1) |-> IF k > n THEN 0 ELSE bytes[k] + Base * from[k + 1]]
  BY <1>5
<1>. HIDE DEF from
<1>7. from[n + 1] = 0 /\ \A k \in 1..n : from[k] = bytes[k] + Base * from[k + 1]
  BY <1>1, <1>6
<1>8. \A k \in 1..(n + 1) : from[k] \in Nat
  <2>1. \A k \in 1..n : from[k + 1] \in Nat => from[k] = step[k][from[k + 1]]
    BY <1>7
  <2>2. from[n + 1] = zero
    BY <1>7
  <2>. HIDE DEF zero, step
  <2>. QED BY <1>2, <2>1, <2>2, DownInRange
<1>9. from \in [1..(n + 1) -> Nat]
  BY <1>6, <1>8
<1>10. FromBytes(bytes, from)
  BY <1>7, <1>9 DEF FromBytes, n
<1>. QED BY <1>1, <1>3, <1>8, <1>10

\* Bytes that are the digits of u give u back.
LEMMA Digits ==
    ASSUME NEW bytes \in Seq(Byte), Len(bytes) \in 0..8, NEW u \in Nat, u < Place[Len(bytes)],
           \A k \in 1..Len(bytes) : bytes[k] = (u \div Place[k - 1]) % Base
    PROVE  FromLeBytes(bytes) = u
<1> DEFINE w == Len(bytes)
<1>1. PICK g : FromBytes(bytes, g) /\ FromLeBytes(bytes) = g[1]
  BY FromLe
<1>2. w \in 0..8 /\ w \in Nat
  OBVIOUS
<1>3. /\ g[w + 1] = 0 /\ \A k \in 1..w : g[k] = bytes[k] + Base * g[k + 1]
      /\ \A k \in 1..w : bytes[k] = (u \div Place[k - 1]) % Base
      /\ u < Place[w]
  BY <1>1 DEF FromBytes
<1>. HIDE DEF w
<1> DEFINE S == {d \in Nat : d <= w => g[w + 1 - d] = u \div Place[w - d]}
<1>4. 0 \in S
  <2>1. u \div Place[w] = 0
    <3>1. w \in w..8
      BY <1>2
    <3>. QED BY <1>2, <1>3, <3>1, NoHighDigits
  <2>. QED BY <1>2, <1>3, <2>1
<1>5. ASSUME NEW d \in S, d < w PROVE d + 1 \in S
  <2> DEFINE k == w - d
             x == u \div Place[k - 1]
  <2>1. /\ d \in Nat /\ k \in 1..w /\ k \in 1..8 /\ k - 1 \in 0..8 /\ k \in 0..8
        /\ w + 1 - d = k + 1 /\ w - d = k /\ w + 1 - (d + 1) = k /\ w - (d + 1) = k - 1
    BY <1>2, <1>5
  <2>2. g[k + 1] = u \div Place[k]
    <3>1. d <= w
      BY <1>2, <1>5, <2>1
    <3>2. g[w + 1 - d] = u \div Place[w - d]
      BY <1>5, <3>1
    <3>. QED BY <2>1, <3>2
  <2>3. Place[k] = Base * Place[k - 1] /\ Place[k - 1] \in Nat \ {0} /\ Base \in Nat \ {0}
    BY <2>1, Places, ChecksumAssumption
  <2>4. u \div Place[k] = x \div Base
    BY <2>3, NestedDivision
  <2>5. x \in Nat
    BY <2>3, Division
  <2>. HIDE DEF k, x
  <2>6. x = Base * (x \div Base) + (x % Base) /\ x \div Base \in Nat /\ x % Base \in Nat
    BY <2>3, <2>5, Division
  <2>7. g[k] = (x % Base) + Base * (x \div Base)
    BY <1>3, <2>1, <2>2, <2>4 DEF x
  <2>8. g[k] = x
    BY <2>3, <2>6, <2>7
  <2>. QED BY <2>1, <2>8 DEF x
<1>6. S \in SUBSET Nat
  OBVIOUS
<1>7. w \in S
  <2>. HIDE DEF S
  <2>. QED BY <1>2, <1>4, <1>5, <1>6, CountUp
<1>8. w + 1 - w = 1 /\ w - w = 0 /\ u \div Place[0] = u
  BY <1>2, Places
<1>9. g[w + 1 - w] = u \div Place[w - w]
  BY <1>2, <1>7
<1>. QED BY <1>1, <1>8, <1>9

-----------------------------------------------------------------------------
(* The fields of a frame, as they are read back. *)

\* A piece of the stream.
LEMMA Pieces ==
    ASSUME NEW bytes \in Seq(Byte), NEW p \in Nat, NEW n \in Nat, p + n <= Len(bytes)
    PROVE  /\ Slice(bytes, p, n) \in Seq(Byte) /\ Len(Slice(bytes, p, n)) = n
           /\ \A k \in 1..n : Slice(bytes, p, n)[k] = bytes[p + k]
<1>1. Len(bytes) \in Nat
  BY LenProperties
<1>2. \A k \in (p + 1)..(p + n) : k \in 1..Len(bytes)
  BY <1>1
<1>3. SubSeq(bytes, p + 1, p + n) = [k \in 1..n |-> bytes[p + k]]
  BY <1>1
<1>4. \A k \in 1..n : bytes[p + k] \in Byte
  <2>1. \A k \in 1..n : p + k \in 1..Len(bytes)
    BY <1>1
  <2>. QED BY <2>1, ElementOfSeq
<1>5. [k \in 1..n |-> bytes[p + k]] \in [1..n -> Byte]
  BY <1>4
<1> DEFINE piece == [k \in 1..n |-> bytes[p + k]]
<1>6. \A k \in 1..n : piece[k] = bytes[p + k]
  OBVIOUS
<1>7. Slice(bytes, p, n) = piece
  BY <1>3 DEF Slice
<1>8. piece \in [1..n -> Byte]
  BY <1>5
<1>. HIDE DEF piece
<1>9. piece \in Seq(Byte) /\ Len(piece) = n
  BY <1>8, SeqDef
<1>. QED BY <1>6, <1>7, <1>9

\* A length that the field can express is read back.
LEMMA LengthBack ==
    ASSUME NEW bytes \in Seq(Byte), NEW p \in Nat, p + 4 <= Len(bytes), NEW n \in 0..MaxU32,
           \A k \in 1..4 : bytes[p + k] = ToLeBytes(n, 4)[k]
    PROVE  DeclaredLen(bytes, p) = n
<1> DEFINE w == 4
           field == Slice(bytes, p, w)
<1>1. field \in Seq(Byte) /\ Len(field) = 4 /\ \A k \in 1..4 : field[k] = bytes[p + k]
  <2>1. w \in Nat /\ p + w <= Len(bytes)
    OBVIOUS
  <2>2. /\ Slice(bytes, p, w) \in Seq(Byte) /\ Len(Slice(bytes, p, w)) = w
        /\ \A k \in 1..w : Slice(bytes, p, w)[k] = bytes[p + k]
    <3>. HIDE DEF w
    <3>. QED BY <2>1, Pieces
  <2>. QED BY <2>2
<1>2. n \in Nat /\ n < Place[4]
  BY Places DEF MaxU32
<1>3. \A k \in 1..4 : field[k] = (n \div Place[k - 1]) % Base
  BY <1>1 DEF ToLeBytes
<1>. HIDE DEF field
<1>4. /\ Len(field) \in 0..8 /\ n < Place[Len(field)]
      /\ \A k \in 1..Len(field) : field[k] = (n \div Place[k - 1]) % Base
  BY <1>1, <1>2, <1>3
<1>5. FromLeBytes(field) = n
  BY <1>1, <1>2, <1>4, Digits
<1>. QED BY <1>5 DEF DeclaredLen, field

\* Any four bytes are a length.
LEMMA DeclaredNat ==
    ASSUME NEW bytes \in Seq(Byte), NEW p \in Nat, p + 4 <= Len(bytes)
    PROVE  DeclaredLen(bytes, p) \in Nat
BY Pieces, FromLe DEF DeclaredLen

\* The field of a checksum.
LEMMA SumBytes ==
    ASSUME NEW alg, SizeOf(alg) \in 0..8, NEW v \in Nat
    PROVE  /\ WriteBytes(alg, v) \in Seq(Byte) /\ Len(WriteBytes(alg, v)) = SizeOf(alg)
           /\ \A k \in 1..SizeOf(alg) :
                 WriteBytes(alg, v)[k] = (v \div Place[k - 1]) % Base
<1> DEFINE all == ToLeBytes(v, 8)
           size == SizeOf(alg)
           o == 0
<1>1. all \in Seq(Byte) /\ Len(all) = 8 /\ \A k \in 1..8 : all[k] = (v \div Place[k - 1]) % Base
  BY LeBytes DEF ToLeBytes
<1>2. size \in Nat /\ o \in Nat /\ o + size <= Len(all)
  BY <1>1
<1>3. WriteBytes(alg, v) = Slice(all, o, size)
  BY DEF WriteBytes, Slice
<1>5. \A k \in 1..size : k \in 1..8 /\ o + k = k
  OBVIOUS
<1>. HIDE DEF all, o
<1>4. /\ Slice(all, o, size) \in Seq(Byte) /\ Len(Slice(all, o, size)) = size
      /\ \A k \in 1..size : Slice(all, o, size)[k] = all[o + k]
  BY <1>1, <1>2, Pieces
<1>. QED BY <1>1, <1>3, <1>4, <1>5

\* What a field of a given size can hold of a checksum is read back.
LEMMA SumBack ==
    ASSUME NEW alg, SizeOf(alg) \in 0..8, NEW v \in 0..MaxU64,
           NEW field \in Seq(Byte), Len(field) = SizeOf(alg),
           \A k \in 1..SizeOf(alg) : field[k] = WriteBytes(alg, v)[k]
    PROVE  ReadBytes(alg, field) = v % Place[SizeOf(alg)]
<1> DEFINE size == SizeOf(alg)
           all == [k \in 1..8 |-> IF k <= size THEN field[k] ELSE 0]
           u == v % Place[size]
<1>1. v \in Nat /\ Place[size] \in Nat \ {0} /\ Base \in Nat \ {0, 1}
  <2>1. v \in Nat
    OBVIOUS
  <2>. QED BY <2>1, Places, ChecksumAssumption
<1>2. u \in Nat /\ u < Place[size]
  <2> DEFINE P == Place[size]
  <2>1. P \in Nat \ {0}
    BY <1>1
  <2>. HIDE DEF P
  <2>2. v % P \in Nat /\ v % P \in 0..(P - 1)
    BY <1>1, <2>1, Division
  <2>3. v % P < P
    BY <2>1, <2>2
  <2>. QED BY <2>2, <2>3 DEF P
<1>3. all \in Seq(Byte) /\ Len(all) = 8
  <2>1. \A k \in 1..size : field[k] \in Byte
    BY ElementOfSeq
  <2>2. 0 \in Byte
    BY <1>1 DEF Byte
  <2>3. all \in [1..8 -> Byte]
    BY <2>1, <2>2
  <2>. QED BY <2>3, SeqDef
<1>4. ASSUME NEW k \in 1..8 PROVE all[k] = (u \div Place[k - 1]) % Base
  <2>1. CASE k <= size
    <3>1. k \in 1..size
      BY <2>1
    <3>2. all[k] = (v \div Place[k - 1]) % Base
      BY <1>1, <2>1, <3>1, SumBytes
    <3>. QED BY <1>1, <3>1, <3>2, LowDigits
  <2>2. CASE ~(k <= size)
    <3>1. all[k] = 0 /\ k - 1 \in size..8
      BY <2>2
    <3>2. u \div Place[k - 1] = 0
      <4>. HIDE DEF u, size
      <4>1. size \in 0..8
        BY DEF size
      <4>. QED BY <1>2, <3>1, <4>1, NoHighDigits
    <3>3. 0 % Base = 0
      BY <1>1
    <3>. QED BY <3>1, <3>2, <3>3
  <2>. QED BY <2>1, <2>2
<1>5. u < Place[8]
  <2>. HIDE DEF u, size
  <2>1. size \in 0..8 /\ 8 \in size..8
    BY DEF size
  <2>. QED BY <1>2, <2>1, NoHighDigits
<1>6. ReadBytes(alg, field) = FromLeBytes(all)
  BY DEF ReadBytes
<1>. HIDE DEF all, u
<1>7. /\ Len(all) \in 0..8 /\ u < Place[Len(all)]
      /\ \A k \in 1..Len(all) : all[k] = (u \div Place[k - 1]) % Base
  BY <1>3, <1>4, <1>5
<1>8. FromLeBytes(all) = u
  BY <1>2, <1>3, <1>7, Digits
<1>. QED BY <1>6, <1>8 DEF u

\* The mask of a width keeps what the field can hold.
LEMMA Masks ==
    ASSUME NEW size \in 0..8, NEW v \in Nat
    PROVE  And(v, WidthMask(size)) = v % Place[size]
<1>1. Place[size] \in Nat \ {0} /\ Place[8] \in Nat \ {0}
  BY Places
<1>2. WidthMask(size) + 1 = Place[size]
  BY <1>1 DEF WidthMask, MaxU64
<1>. QED BY <1>2 DEF And

\* A payload verifies against the checksum its framer wrote.
LEMMA VerifyBack ==
    ASSUME NEW alg, SizeOf(alg) \in 0..8, NEW p, Calculate(alg, p) \in 0..MaxU64,
           NEW field \in Seq(Byte), Len(field) = SizeOf(alg),
           \A k \in 1..SizeOf(alg) : field[k] = SumField(alg, p)[k]
    PROVE  Verify(alg, ReadBytes(alg, field), p)
<1> DEFINE v == Calculate(alg, p)
           P == Place[SizeOf(alg)]
<1>1. ReadBytes(alg, field) = v % P
  BY SumBack DEF SumField
<1>2. v \in Nat /\ P \in Nat \ {0}
  <2>1. MaxU64 \in Nat
    BY Widths
  <2>2. P \in Nat \ {0}
    BY Places
  <2>. HIDE DEF P
  <2>. QED BY <2>1, <2>2
<1>. HIDE DEF v, P
<1>3. v % P \in Nat /\ v % P < P
  BY <1>2, Division
<1>4. (v % P) % P = v % P
  <2> DEFINE u == v % P
  <2>1. u \in Nat /\ u < P /\ u = P * 0 + u
    BY <1>2, <1>3
  <2>. HIDE DEF u
  <2>2. u % P = u
    BY <1>2, <2>1
  <2>. QED BY <2>2 DEF u
<1>5. And(v, WidthMask(SizeOf(alg))) = v % P /\ And(v % P, WidthMask(SizeOf(alg))) = (v % P) % P
  BY <1>2, <1>3, Masks DEF P
<1>. QED BY <1>1, <1>4, <1>5 DEF Verify, v

-----------------------------------------------------------------------------
(* Frames. *)

\* What the recursion of Joined gives.
JoinedBy(slices, g) ==
    /\ g \in [1..(Len(slices) + 1) -> Seq(Byte)] /\ g[Len(slices) + 1] = <<>>
    /\ \A k \in 1..Len(slices) : g[k] = slices[k] \o g[k + 1]

\* Joined is the first value of such a function.
LEMMA JoinedRecursion ==
    ASSUME NEW slices \in Seq(Seq(Byte))
    PROVE  \E g : JoinedBy(slices, g) /\ Joined(slices) = g[1]
<1> DEFINE n == Len(slices)
           V == Seq(Byte)
           none == << >>
           step == [k \in 1..n |-> [v \in V |-> slices[k] \o v]]
           from == CHOOSE g : g = [k \in 1..(n + 1) |->
                                     IF k > n THEN << >> ELSE slices[k] \o g[k + 1]]
<1>1. n \in Nat /\ \A k \in 1..n : slices[k] \in Seq(Byte)
  BY LenProperties, ElementOfSeq
<1>2. Steps(n, V, none, step)
  <2>1. \A k \in 1..n : \A v \in V : slices[k] \o v \in V
    BY <1>1, ConcatProperties
  <2>2. none \in V
    OBVIOUS
  <2>3. step \in [1..n -> [V -> V]]
    <3>. HIDE DEF V
    <3>. QED BY <2>1
  <2>. QED BY <1>1, <2>2, <2>3 DEF Steps
<1>3. Joined(slices) = from[1]
  BY DEF Joined
<1>. HIDE DEF n
<1>4. PICK g \in [1..(n + 1) -> V] :
        g[n + 1] = none /\ \A k \in 1..n : g[k] = step[k][g[k + 1]]
  <2>. HIDE DEF none, step, V
  <2>. QED BY <1>2, StepsDown
<1>5. g = [k \in 1..(n + 1) |-> IF k > n THEN << >> ELSE slices[k] \o g[k + 1]]
  <2>1. ASSUME NEW k \in 1..(n + 1)
        PROVE  g[k] = IF k > n THEN << >> ELSE slices[k] \o g[k + 1]
    <3>1. CASE k > n
      <4>1. k = n + 1
        BY <1>1, <3>1
      <4>. QED BY <1>4, <3>1, <4>1
    <3>2. CASE ~(k > n)
      <4>1. k \in 1..n /\ k + 1 \in 1..(n + 1)
        BY <1>1, <3>2
      <4>. QED BY <1>4, <3>2, <4>1
    <3>. QED BY <3>1, <3>2
  <2>. QED BY <1>4, <2>1
<1>6. from = [k \in 1..(n + 1) |-> IF k > n THEN << >> ELSE slices[k] \o from[k + 1]]
  BY <1>5
<1>. HIDE DEF from
<1>7. from[n + 1] = <<>> /\ \A k \in 1..n : from[k] = slices[k] \o from[k + 1]
  <2>1. n + 1 \in 1..(n + 1) /\ n + 1 > n
    BY <1>1
  <2>2. \A k \in 1..n : k \in 1..(n + 1) /\ ~(k > n)
    BY <1>1
  <2>. HIDE DEF V
  <2>. QED BY <1>6, <2>1, <2>2
<1>8. \A k \in 1..(n + 1) : from[k] \in V
  <2>1. \A k \in 1..n : from[k + 1] \in V => from[k] = step[k][from[k + 1]]
    BY <1>7
  <2>2. from[n + 1] = none
    BY <1>7
  <2>. HIDE DEF none, step, V
  <2>. QED BY <1>2, <2>1, <2>2, DownInRange
<1>9. from \in [1..(n + 1) -> V]
  BY <1>6, <1>8
<1>10. JoinedBy(slices, from)
  BY <1>7, <1>9 DEF JoinedBy, n
<1>. QED BY <1>3, <1>10

\* There is only one such function.
LEMMA JoinedOnce ==
    ASSUME NEW slices \in Seq(Seq(Byte)), NEW g, JoinedBy(slices, g), NEW h, JoinedBy(slices, h)
    PROVE  g[1] = h[1]
<1> DEFINE n == Len(slices)
           S == {m \in Nat : m <= n => g[n + 1 - m] = h[n + 1 - m]}
<1>1. n \in Nat /\ S \in SUBSET Nat
  BY LenProperties
<1>2. /\ g[n + 1] = <<>> /\ \A k \in 1..n : g[k] = slices[k] \o g[k + 1]
      /\ h[n + 1] = <<>> /\ \A k \in 1..n : h[k] = slices[k] \o h[k + 1]
  BY DEF JoinedBy
<1>. HIDE DEF n
<1>3. 0 \in S
  <2>1. n + 1 - 0 = n + 1
    BY <1>1
  <2>. QED BY <1>2, <2>1
<1>4. ASSUME NEW m \in S, m < n PROVE m + 1 \in S
  <2> DEFINE k == n - m
  <2>1. m \in Nat /\ k \in 1..n /\ m <= n /\ n + 1 - m = k + 1 /\ n + 1 - (m + 1) = k
    BY <1>1, <1>4
  <2>2. g[k + 1] = h[k + 1]
    BY <2>1
  <2>3. g[k] = h[k]
    BY <1>2, <2>1, <2>2
  <2>. QED BY <2>1, <2>3
<1>5. n \in S
  <2>. HIDE DEF S
  <2>. QED BY <1>1, <1>3, <1>4, CountUp
<1>6. n + 1 - n = 1
  BY <1>1
<1>. QED BY <1>1, <1>5, <1>6

\* The bytes of slices are those of the first and then those of the others.
LEMMA JoinedParts ==
    ASSUME NEW slices \in Seq(Seq(Byte))
    PROVE  /\ Joined(slices) \in Seq(Byte)
           /\ slices = <<>> => Joined(slices) = <<>>
           /\ slices # <<>> => Joined(slices) = Head(slices) \o Joined(Tail(slices))
<1>1. PICK g : JoinedBy(slices, g) /\ Joined(slices) = g[1]
  BY JoinedRecursion
<1>2. Len(slices) \in Nat
  BY LenProperties
<1>3. g[1] \in Seq(Byte)
  <2>1. 1 \in 1..(Len(slices) + 1)
    BY <1>2
  <2>. QED BY <1>1, <2>1 DEF JoinedBy
<1>4. ASSUME slices = <<>> PROVE g[1] = <<>>
  BY <1>1, <1>4 DEF JoinedBy
<1>5. ASSUME slices # <<>> PROVE g[1] = Head(slices) \o Joined(Tail(slices))
  <2> DEFINE rest == Tail(slices)
             n == Len(slices)
             h == [k \in 1..n |-> g[k + 1]]
  <2>1. /\ rest \in Seq(Seq(Byte)) /\ Len(rest) = n - 1 /\ n \in Nat \ {0}
        /\ \A k \in 1..(n - 1) : rest[k] = slices[k + 1]
        /\ Head(slices) = slices[1]
    BY <1>2, <1>5, HeadTailProperties
  <2>2. /\ g \in [1..(n + 1) -> Seq(Byte)] /\ g[n + 1] = <<>>
        /\ \A k \in 1..n : g[k] = slices[k] \o g[k + 1]
    BY <1>1 DEF JoinedBy
  <2>3. JoinedBy(rest, h)
    <3>. HIDE DEF rest, n
    <3>1. h \in [1..n -> Seq(Byte)] /\ n = Len(rest) + 1 /\ n \in 1..n
      BY <2>1, <2>2
    <3>2. h[n] = <<>>
      BY <2>2, <3>1
    <3>3. ASSUME NEW k \in 1..(n - 1) PROVE h[k] = rest[k] \o h[k + 1]
      <4>1. k + 1 \in 1..n /\ k \in 1..n
        BY <2>1
      <4>2. h[k] = g[k + 1] /\ h[k + 1] = g[(k + 1) + 1]
        BY <4>1
      <4>. QED BY <2>1, <2>2, <4>1, <4>2
    <3>. HIDE DEF h
    <3>. QED BY <2>1, <3>1, <3>2, <3>3 DEF JoinedBy
  <2>4. Joined(rest) = h[1]
    <3>. HIDE DEF rest, h
    <3>1. PICK i : JoinedBy(rest, i) /\ Joined(rest) = i[1]
      BY <2>1, JoinedRecursion
    <3>. QED BY <2>1, <2>3, <3>1, JoinedOnce
  <2>5. h[1] = g[2] /\ g[1] = slices[1] \o g[2]
    <3>. HIDE DEF rest, n
    <3>1. 1 \in 1..n /\ 1 + 1 = 2
      BY <2>1
    <3>. QED BY <2>2, <3>1
  <2>. QED BY <2>1, <2>4, <2>5
<1>. QED BY <1>1, <1>3, <1>4, <1>5

\* What a framer may be given: a payload with a checksum.
Framed(f, p) ==
    /\ IsFormat(f)
    /\ p \in Seq(Byte)
    /\ Calculate(f.alg, p) \in 0..MaxU64

\* The fields in front of the payload, as the format has them.
Header(f, p) ==
    CASE f.kind = "default"  -> LengthField(p)
      [] f.kind = "checksum" -> LengthField(p) \o SumField(f.alg, p)
      [] f.kind = "magic"    -> Magic \o LengthField(p)
HeaderSize(f) ==
    CASE f.kind = "default"  -> 4
      [] f.kind = "checksum" -> 4 + SizeOf(f.alg)
      [] f.kind = "magic"    -> Len(Magic) + 4

\* Two pieces one after the other.
LEMMA Glued ==
    ASSUME NEW a \in Seq(Byte), NEW b \in Seq(Byte)
    PROVE  a \o b \in Seq(Byte) /\ Len(a \o b) = Len(a) + Len(b)
OBVIOUS

\* The fields of a frame.
LEMMA Fields ==
    ASSUME NEW f, NEW p, Framed(f, p)
    PROVE  /\ LengthField(p) \in Seq(Byte) /\ Len(LengthField(p)) = 4
           /\ SumField(f.alg, p) \in Seq(Byte) /\ Len(SumField(f.alg, p)) = SizeOf(f.alg)
           /\ Magic \in Seq(Byte) /\ Len(Magic) \in Nat \ {0}
           /\ SizeOf(f.alg) \in 0..8
           /\ Slices(f, p) \in Seq(Seq(Byte))
           /\ Header(f, p) \in Seq(Byte) /\ Len(Header(f, p)) = HeaderSize(f)
           /\ HeaderSize(f) \in Nat /\ HeaderSize(f) >= 4
<1>1. f.kind \in {"default", "checksum", "magic"} /\ SizeOf(f.alg) \in 0..8 /\ p \in Seq(Byte)
  BY DEF Framed, IsFormat
<1>2. LengthField(p) \in Seq(Byte) /\ Len(LengthField(p)) = 4
  <2> DEFINE n == Len(p)
             w == 4
  <2>1. n \in Nat /\ w \in 0..8
    BY <1>1, LenProperties
  <2>2. ToLeBytes(n, w) \in Seq(Byte) /\ Len(ToLeBytes(n, w)) = w
    <3>. HIDE DEF n, w
    <3>. QED BY <2>1, LeBytes
  <2>. QED BY <2>2 DEF LengthField
<1>3. SumField(f.alg, p) \in Seq(Byte) /\ Len(SumField(f.alg, p)) = SizeOf(f.alg)
  <2>1. Calculate(f.alg, p) \in Nat
    BY Places DEF Framed, MaxU64
  <2>. QED BY <1>1, <2>1, SumBytes DEF SumField
<1>4. Magic \in Seq(Byte) /\ Len(Magic) \in Nat \ {0}
  BY FramingAssumption, EmptySeq, LenProperties
<1>5. Slices(f, p) \in Seq(Seq(Byte))
  <2>1. CASE f.kind = "default"
    <3>1. Slices(f, p) = << LengthField(p), p >>
      BY <2>1 DEF Slices
    <3>. QED BY <1>1, <1>2, <3>1
  <2>2. CASE f.kind = "checksum"
    <3>1. Slices(f, p) = << LengthField(p) \o SumField(f.alg, p), p >>
      BY <2>2 DEF Slices
    <3>2. LengthField(p) \o SumField(f.alg, p) \in Seq(Byte)
      BY <1>2, <1>3, ConcatProperties
    <3>. QED BY <1>1, <3>1, <3>2
  <2>3. CASE f.kind = "magic"
    <3>1. Slices(f, p) = << Magic, LengthField(p), p >>
      BY <2>3 DEF Slices
    <3>. QED BY <1>1, <1>2, <1>4, <3>1
  <2>. QED BY <1>1, <2>1, <2>2, <2>3
<1>6. Header(f, p) \in Seq(Byte) /\ Len(Header(f, p)) = HeaderSize(f)
      /\ HeaderSize(f) \in Nat /\ HeaderSize(f) >= 4
  <2>1. CASE f.kind = "default"
    BY <1>2, <2>1 DEF Header, HeaderSize
  <2>2. CASE f.kind = "checksum"
    <3>1. /\ Header(f, p) = LengthField(p) \o SumField(f.alg, p)
          /\ HeaderSize(f) = 4 + SizeOf(f.alg)
      BY <2>2 DEF Header, HeaderSize
    <3>2. /\ LengthField(p) \o SumField(f.alg, p) \in Seq(Byte)
          /\ Len(LengthField(p) \o SumField(f.alg, p)) = 4 + SizeOf(f.alg)
      BY <1>2, <1>3, Glued
    <3>3. SizeOf(f.alg) \in Nat
      BY <1>1
    <3>. QED BY <3>1, <3>2, <3>3
  <2>3. CASE f.kind = "magic"
    <3>1. Header(f, p) = Magic \o LengthField(p) /\ HeaderSize(f) = Len(Magic) + 4
      BY <2>3 DEF Header, HeaderSize
    <3>2. /\ Magic \o LengthField(p) \in Seq(Byte)
          /\ Len(Magic \o LengthField(p)) = Len(Magic) + 4
      BY <1>2, <1>4, Glued
    <3>3. Len(Magic) \in Nat
      BY <1>4
    <3>. QED BY <3>1, <3>2, <3>3
  <2>. QED BY <1>1, <2>1, <2>2, <2>3
<1>. QED BY <1>1, <1>2, <1>3, <1>4, <1>5, <1>6

\* Two and three slices.
LEMMA JoinedTwo ==
    ASSUME NEW a \in Seq(Byte), NEW b \in Seq(Byte)
    PROVE  Joined(<<a, b>>) = a \o b
<1>1. /\ <<a, b>> \in Seq(Seq(Byte)) /\ <<a, b>> # <<>>
      /\ Head(<<a, b>>) = a /\ Tail(<<a, b>>) = <<b>>
      /\ <<b>> \in Seq(Seq(Byte)) /\ <<b>> # <<>> /\ Head(<<b>>) = b /\ Tail(<<b>>) = <<>>
      /\ <<>> \in Seq(Seq(Byte))
  OBVIOUS
<1>2. Joined(<<b>>) = b \o Joined(<<>>) /\ Joined(<<>>) = <<>>
  BY <1>1, JoinedParts
<1>3. b \o <<>> = b
  OBVIOUS
<1>. QED BY <1>1, <1>2, <1>3, JoinedParts

\* Three slices, of a frame with a magic number.
LEMMA JoinedThree ==
    ASSUME NEW a \in Seq(Byte), NEW b \in Seq(Byte), NEW c \in Seq(Byte)
    PROVE  Joined(<<a, b, c>>) = (a \o b) \o c
<1>1. /\ <<a, b, c>> \in Seq(Seq(Byte)) /\ <<a, b, c>> # <<>>
      /\ Head(<<a, b, c>>) = a /\ Tail(<<a, b, c>>) = <<b, c>>
  OBVIOUS
<1>2. Joined(<<a, b, c>>) = a \o Joined(<<b, c>>)
  BY <1>1, JoinedParts
<1>3. a \o (b \o c) = (a \o b) \o c
  OBVIOUS
<1>. QED BY <1>2, <1>3, JoinedTwo

\* A frame is its header and its payload.
LEMMA FrameShape ==
    ASSUME NEW f, NEW p, Framed(f, p)
    PROVE  /\ Frame(f, p) = Header(f, p) \o p
           /\ Frame(f, p) \in Seq(Byte) /\ Len(Frame(f, p)) = HeaderSize(f) + Len(p)
<1>1. f.kind \in {"default", "checksum", "magic"} /\ p \in Seq(Byte)
  BY DEF Framed, IsFormat
<1>2. /\ LengthField(p) \in Seq(Byte) /\ SumField(f.alg, p) \in Seq(Byte)
      /\ Magic \in Seq(Byte)
      /\ LengthField(p) \o SumField(f.alg, p) \in Seq(Byte)
      /\ Header(f, p) \in Seq(Byte) /\ Len(Header(f, p)) = HeaderSize(f)
  BY Fields, ConcatProperties
<1>3. Frame(f, p) = Header(f, p) \o p
  <2>1. CASE f.kind = "default"
    <3>1. Slices(f, p) = << LengthField(p), p >> /\ Header(f, p) = LengthField(p)
      BY <2>1 DEF Slices, Header
    <3>. QED BY <1>1, <1>2, <3>1, JoinedTwo DEF Frame
  <2>2. CASE f.kind = "checksum"
    <3>1. /\ Slices(f, p) = << LengthField(p) \o SumField(f.alg, p), p >>
          /\ Header(f, p) = LengthField(p) \o SumField(f.alg, p)
      BY <2>2 DEF Slices, Header
    <3>. QED BY <1>1, <1>2, <3>1, JoinedTwo DEF Frame
  <2>3. CASE f.kind = "magic"
    <3>1. /\ Slices(f, p) = << Magic, LengthField(p), p >>
          /\ Header(f, p) = Magic \o LengthField(p)
      BY <2>3 DEF Slices, Header
    <3>2. Joined(<< Magic, LengthField(p), p >>) = (Magic \o LengthField(p)) \o p
      BY <1>1, <1>2, JoinedThree
    <3>. QED BY <3>1, <3>2 DEF Frame
  <2>. QED BY <1>1, <2>1, <2>2, <2>3
<1>. DEFINE h == Header(f, p)
<1>4. h \in Seq(Byte) /\ Len(h) = HeaderSize(f)
  BY <1>2
<1>. HIDE DEF h
<1>5. h \o p \in Seq(Byte) /\ Len(h \o p) = HeaderSize(f) + Len(p)
  BY <1>1, <1>4, Glued
<1>. QED BY <1>3, <1>5 DEF h

\* So the header of the format is as long as an empty frame.
LEMMA HeaderLength ==
    ASSUME NEW f, Framed(f, <<>>)
    PROVE  HeaderOf(f) = HeaderSize(f)
BY FrameShape, Fields DEF HeaderOf

\* Where the bytes of two pieces are.
LEMMA GluedBytes ==
    ASSUME NEW a \in Seq(Byte), NEW b \in Seq(Byte)
    PROVE  /\ \A k \in 1..Len(a) : (a \o b)[k] = a[k]
           /\ \A k \in 1..Len(b) : (a \o b)[Len(a) + k] = b[k]
OBVIOUS

\* Where the fields and the payload of a frame are.
LEMMA FrameBytes ==
    ASSUME NEW f, NEW p, Framed(f, p)
    PROVE  /\ f.kind # "magic" => \A k \in 1..4 : Frame(f, p)[k] = LengthField(p)[k]
           /\ f.kind = "checksum" =>
                 \A k \in 1..SizeOf(f.alg) : Frame(f, p)[4 + k] = SumField(f.alg, p)[k]
           /\ f.kind = "magic" =>
                 /\ \A k \in 1..Len(Magic) : Frame(f, p)[k] = Magic[k]
                 /\ \A k \in 1..4 : Frame(f, p)[Len(Magic) + k] = LengthField(p)[k]
           /\ \A k \in 1..Len(p) : Frame(f, p)[HeaderSize(f) + k] = p[k]
<1> DEFINE h == Header(f, p)
           x == LengthField(p)
           s == SumField(f.alg, p)
<1>1. f.kind \in {"default", "checksum", "magic"} /\ p \in Seq(Byte)
  BY DEF Framed, IsFormat
<1>2. /\ x \in Seq(Byte) /\ Len(x) = 4 /\ s \in Seq(Byte) /\ Len(s) = SizeOf(f.alg)
      /\ SizeOf(f.alg) \in 0..8
      /\ Magic \in Seq(Byte) /\ Len(Magic) \in Nat
      /\ h \in Seq(Byte) /\ Len(h) = HeaderSize(f) /\ HeaderSize(f) \in Nat /\ HeaderSize(f) >= 4
  BY Fields
<1>3. /\ \A k \in 1..HeaderSize(f) : Frame(f, p)[k] = h[k]
      /\ \A k \in 1..Len(p) : Frame(f, p)[HeaderSize(f) + k] = p[k]
  <2>. HIDE DEF h
  <2>1. Frame(f, p) = h \o p
    BY FrameShape DEF h
  <2>2. /\ \A k \in 1..Len(h) : (h \o p)[k] = h[k]
        /\ \A k \in 1..Len(p) : (h \o p)[Len(h) + k] = p[k]
    BY <1>1, <1>2, GluedBytes
  <2>. QED BY <1>2, <2>1, <2>2
<1>4. CASE f.kind = "default"
  <2>1. h = x
    BY <1>4 DEF Header
  <2>. HIDE DEF h, x, s
  <2>2. \A k \in 1..4 : k \in 1..HeaderSize(f)
    BY <1>2
  <2>. QED BY <1>3, <1>4, <2>1, <2>2 DEF x
<1>5. CASE f.kind = "checksum"
  <2>1. h = x \o s /\ HeaderSize(f) = 4 + SizeOf(f.alg)
    BY <1>5 DEF Header, HeaderSize
  <2>. HIDE DEF h, x, s
  <2>2. /\ \A k \in 1..4 : k \in 1..HeaderSize(f)
        /\ \A k \in 1..SizeOf(f.alg) : 4 + k \in 1..HeaderSize(f)
    BY <1>2, <2>1
  <2>3. /\ \A k \in 1..4 : h[k] = x[k]
        /\ \A k \in 1..SizeOf(f.alg) : h[4 + k] = s[k]
    BY <1>2, <2>1, GluedBytes
  <2>. QED BY <1>3, <1>5, <2>2, <2>3 DEF x, s
<1>6. CASE f.kind = "magic"
  <2>1. h = Magic \o x /\ HeaderSize(f) = Len(Magic) + 4
    BY <1>6 DEF Header, HeaderSize
  <2>. HIDE DEF h, x, s
  <2>2. /\ \A k \in 1..Len(Magic) : k \in 1..HeaderSize(f)
        /\ \A k \in 1..4 : Len(Magic) + k \in 1..HeaderSize(f)
    BY <1>2, <2>1
  <2>3. /\ \A k \in 1..Len(Magic) : h[k] = Magic[k]
        /\ \A k \in 1..4 : h[Len(Magic) + k] = x[k]
    BY <1>2, <2>1, GluedBytes
  <2>. QED BY <1>3, <1>6, <2>2, <2>3 DEF x
<1>. QED BY <1>1, <1>4, <1>5, <1>6

-----------------------------------------------------------------------------
(* What one call of a deframer gives. *)

\* Behind start the stream goes on like a frame, as far as it goes.
Agrees(bytes, start, frame) ==
    \A k \in 1..Len(frame) : start + k <= Len(bytes) => bytes[start + k] = frame[k]

\* A piece that equals another, byte by byte.
LEMMA SamePiece ==
    ASSUME NEW bytes \in Seq(Byte), NEW q \in Nat, NEW s \in Seq(Byte), q + Len(s) <= Len(bytes),
           \A k \in 1..Len(s) : bytes[q + k] = s[k]
    PROVE  Slice(bytes, q, Len(s)) = s
<1> DEFINE n == Len(s)
           piece == Slice(bytes, q, n)
<1>1. n \in Nat
  BY LenProperties
<1>2. piece \in Seq(Byte) /\ Len(piece) = n /\ \A k \in 1..n : piece[k] = bytes[q + k]
  <2>. HIDE DEF n
  <2>1. q + n <= Len(bytes)
    BY DEF n
  <2>. QED BY <1>1, <2>1, Pieces
<1>. HIDE DEF piece
<1>3. piece = s
  BY <1>2, SeqEqual
<1>. QED BY <1>3 DEF piece

\* The fields of a frame that are all there.
LEMMA HeaderAt ==
    ASSUME NEW f, NEW p, Framed(f, p), Fits(p),
           NEW bytes \in Seq(Byte), NEW start \in Nat, Agrees(bytes, start, Frame(f, p)),
           start + HeaderSize(f) <= Len(bytes)
    PROVE  /\ f.kind # "magic" => DeclaredLen(bytes, start) = Len(p)
           /\ f.kind = "checksum" =>
                 Verify(f.alg, ReadBytes(f.alg, Slice(bytes, start + 4, SizeOf(f.alg))), p)
           /\ f.kind = "magic" =>
                 /\ Slice(bytes, start, Len(Magic)) = Magic
                 /\ DeclaredLen(bytes, start + Len(Magic)) = Len(p)
<1>1. f.kind \in {"default", "checksum", "magic"} /\ p \in Seq(Byte)
  BY DEF Framed, IsFormat
<1>2. /\ SizeOf(f.alg) \in 0..8 /\ Magic \in Seq(Byte) /\ Len(Magic) \in Nat
      /\ HeaderSize(f) \in Nat /\ HeaderSize(f) >= 4
      /\ SumField(f.alg, p) \in Seq(Byte) /\ Len(SumField(f.alg, p)) = SizeOf(f.alg)
  BY Fields
<1>3. Len(bytes) \in Nat /\ Len(p) \in 0..MaxU32 /\ Len(p) \in Nat
  <2>1. Len(p) \in Nat /\ MaxU32 \in Nat
    BY <1>1, LenProperties, Widths
  <2>. QED BY <2>1, LenProperties DEF Fits
<1>4. \A k \in 1..HeaderSize(f) : bytes[start + k] = Frame(f, p)[k]
  <2>1. Len(Frame(f, p)) = HeaderSize(f) + Len(p)
    BY FrameShape
  <2>2. \A k \in 1..HeaderSize(f) : k \in 1..Len(Frame(f, p)) /\ start + k <= Len(bytes)
    BY <1>2, <1>3, <2>1
  <2>. QED BY <2>2 DEF Agrees
<1>5. ASSUME f.kind # "magic" PROVE DeclaredLen(bytes, start) = Len(p)
  <2>1. \A k \in 1..4 : k \in 1..HeaderSize(f) /\ start + 4 <= Len(bytes)
    BY <1>2, <1>3
  <2>2. \A k \in 1..4 : bytes[start + k] = ToLeBytes(Len(p), 4)[k]
    BY <1>4, <1>5, <2>1, FrameBytes DEF LengthField
  <2>3. start + 4 <= Len(bytes)
    BY <1>2, <1>3
  <2>. QED BY <1>3, <2>2, <2>3, LengthBack
<1>6. ASSUME f.kind = "checksum"
      PROVE  Verify(f.alg, ReadBytes(f.alg, Slice(bytes, start + 4, SizeOf(f.alg))), p)
  <2> DEFINE size == SizeOf(f.alg)
             q == start + 4
             field == Slice(bytes, q, size)
  <2>1. HeaderSize(f) = 4 + size
    BY <1>6 DEF HeaderSize
  <2>2. \A k \in 1..size : 4 + k \in 1..HeaderSize(f) /\ q + k = start + (4 + k)
    BY <1>2, <2>1
  <2>3. \A k \in 1..size : bytes[q + k] = SumField(f.alg, p)[k]
    BY <1>4, <1>6, <2>2, FrameBytes
  <2>4. size \in Nat /\ q \in Nat /\ q + size <= Len(bytes)
    BY <1>2, <1>3, <2>1
  <2>5. field \in Seq(Byte) /\ Len(field) = size /\ \A k \in 1..size : field[k] = bytes[q + k]
    <3>. HIDE DEF size, q
    <3>. QED BY <2>4, Pieces
  <2>6. \A k \in 1..SizeOf(f.alg) : field[k] = SumField(f.alg, p)[k]
    BY <2>3, <2>5
  <2>7. Calculate(f.alg, p) \in 0..MaxU64
    BY DEF Framed
  <2>. HIDE DEF field
  <2>8. Verify(f.alg, ReadBytes(f.alg, field), p)
    BY <1>2, <2>5, <2>6, <2>7, VerifyBack
  <2>. QED BY <2>8 DEF field
<1>7. ASSUME f.kind = "magic"
      PROVE  /\ Slice(bytes, start, Len(Magic)) = Magic
             /\ DeclaredLen(bytes, start + Len(Magic)) = Len(p)
  <2> DEFINE m == Len(Magic)
             q == start + m
  <2>1. HeaderSize(f) = m + 4
    BY <1>7 DEF HeaderSize
  <2>2. /\ \A k \in 1..m : k \in 1..HeaderSize(f)
        /\ \A k \in 1..4 : m + k \in 1..HeaderSize(f) /\ q + k = start + (m + k)
        /\ start + m <= Len(bytes) /\ q \in Nat /\ q + 4 <= Len(bytes)
    BY <1>2, <1>3, <2>1
  <2>3. /\ \A k \in 1..m : bytes[start + k] = Magic[k]
        /\ \A k \in 1..4 : bytes[q + k] = ToLeBytes(Len(p), 4)[k]
    <3> DEFINE frame == Frame(f, p)
    <3>1. \A k \in 1..m : frame[k] = Magic[k]
      BY <1>7, FrameBytes
    <3>2. \A k \in 1..4 : frame[m + k] = ToLeBytes(Len(p), 4)[k]
      BY <1>7, FrameBytes DEF LengthField
    <3>3. \A k \in 1..HeaderSize(f) : bytes[start + k] = frame[k]
      BY <1>4
    <3>. HIDE DEF frame, m, q
    <3>. QED BY <2>2, <3>1, <3>2, <3>3
  <2>4. Slice(bytes, start, Len(Magic)) = Magic
    BY <1>2, <2>2, <2>3, SamePiece
  <2>. HIDE DEF q
  <2>5. DeclaredLen(bytes, q) = Len(p)
    BY <1>3, <2>2, <2>3, LengthBack
  <2>. QED BY <2>4, <2>5 DEF q
<1>. QED BY <1>5, <1>6, <1>7

\* The payload of a frame that is all there.
LEMMA PayloadAt ==
    ASSUME NEW f, NEW p, Framed(f, p),
           NEW bytes \in Seq(Byte), NEW start \in Nat, Agrees(bytes, start, Frame(f, p)),
           start + HeaderSize(f) + Len(p) <= Len(bytes)
    PROVE  Slice(bytes, start + HeaderSize(f), Len(p)) = p
<1> DEFINE q == start + HeaderSize(f)
<1>1. p \in Seq(Byte) /\ Len(p) \in Nat /\ HeaderSize(f) \in Nat /\ Len(bytes) \in Nat
  BY Fields, LenProperties DEF Framed
<1>2. Len(Frame(f, p)) = HeaderSize(f) + Len(p)
  BY FrameShape
<1>3. \A k \in 1..Len(p) : /\ HeaderSize(f) + k \in 1..Len(Frame(f, p))
                           /\ start + (HeaderSize(f) + k) <= Len(bytes)
                           /\ q + k = start + (HeaderSize(f) + k)
  BY <1>1, <1>2
<1>4. \A k \in 1..Len(p) : bytes[q + k] = p[k]
  BY <1>3, FrameBytes DEF Agrees
<1>5. q \in Nat /\ q + Len(p) <= Len(bytes)
  BY <1>1
<1>. HIDE DEF q
<1>6. Slice(bytes, q, Len(p)) = p
  BY <1>1, <1>4, <1>5, SamePiece
<1>. QED BY <1>6 DEF q

\* At a frame a deframer finds the end of the stream, a torn frame, a frame that is too
\* long for it, or the payload.
LEMMA ReadOne ==
    ASSUME NEW f, NEW p, Framed(f, p), Fits(p),
           NEW bytes \in Seq(Byte), NEW start \in 0..Len(bytes),
           Agrees(bytes, start, Frame(f, p)), NEW max \in Nat
    PROVE  LET got == ReadAndDeframe(f, bytes, start, max)
               body == start + HeaderSize(f)
           IN  /\ start = Len(bytes) => got = Result("None")
               /\ start < Len(bytes) /\ Len(bytes) < body => got = Result("UnexpectedEof")
               /\ body <= Len(bytes) /\ Len(p) > max => got = Result("InvalidFrame")
               /\ body <= Len(bytes) /\ Len(bytes) < body + Len(p) /\ Len(p) <= max
                    => got = Result("UnexpectedEof")
               /\ body + Len(p) <= Len(bytes) /\ Len(p) <= max => got = Some(p, body + Len(p))
<1> DEFINE got == ReadAndDeframe(f, bytes, start, max)
           x == HeaderSize(f)
           body == start + x
           n == Len(p)
           rest == IF n > max THEN Result("InvalidFrame")
                   ELSE IF body + n > Len(bytes) THEN Result("UnexpectedEof")
                   ELSE Some(p, body + n)
<1>1. f.kind \in {"default", "checksum", "magic"} /\ p \in Seq(Byte)
  BY DEF Framed, IsFormat
<1>2. /\ Len(bytes) \in Nat /\ start \in Nat /\ start <= Len(bytes) /\ n \in Nat
      /\ x \in Nat /\ x >= 4 /\ body \in Nat
      /\ SizeOf(f.alg) \in 0..8 /\ Len(Magic) \in Nat
  BY <1>1, Fields, LenProperties
<1>3. /\ start = Len(bytes) => ReadHeader(bytes, start, x) = "None"
      /\ start < Len(bytes) /\ Len(bytes) < body => ReadHeader(bytes, start, x) = "UnexpectedEof"
      /\ body <= Len(bytes) => ReadHeader(bytes, start, x) = "Some"
  <2>. HIDE DEF x
  <2>. QED BY <1>2 DEF ReadHeader
<1>4. ReadPayload(bytes, body, n) = IF body + n > Len(bytes) THEN Result("UnexpectedEof")
                                    ELSE Some(p, body + n)
  <2>1. ASSUME body + n <= Len(bytes) PROVE Slice(bytes, body, n) = p
    BY <1>2, <2>1, PayloadAt
  <2>. HIDE DEF body, n
  <2>. QED BY <1>2, <2>1 DEF ReadPayload
<1>5. ASSUME body <= Len(bytes)
      PROVE  /\ f.kind # "magic" => DeclaredLen(bytes, start) = n
             /\ f.kind = "checksum" =>
                   Verify(f.alg, ReadBytes(f.alg, Slice(bytes, start + 4, SizeOf(f.alg))), p)
             /\ f.kind = "magic" =>
                   /\ Slice(bytes, start, Len(Magic)) = Magic
                   /\ DeclaredLen(bytes, start + Len(Magic)) = n
  BY <1>2, <1>5, HeaderAt
<1>6. got = IF ReadHeader(bytes, start, x) # "Some"
            THEN Result(ReadHeader(bytes, start, x)) ELSE rest
  <2> DEFINE header == ReadHeader(bytes, start, x)
  <2>1. header = "Some" => body <= Len(bytes)
    BY <1>2, <1>3
  <2>2. CASE f.kind = "default"
    <3>1. /\ x = 4
          /\ got = IF header = "Some"
                   THEN IF DeclaredLen(bytes, start) > max THEN Result("InvalidFrame")
                        ELSE ReadPayload(bytes, start + 4, DeclaredLen(bytes, start))
                   ELSE Result(header)
      BY <2>2 DEF HeaderSize, ReadAndDeframe, ReadByLength, ReadAfterLength
    <3>2. header = "Some" => DeclaredLen(bytes, start) = n
      BY <1>5, <2>1, <2>2
    <3>. HIDE DEF got, header, n
    <3>. QED BY <1>4, <3>1, <3>2 DEF header
  <2>3. CASE f.kind = "checksum"
    <3> DEFINE sum == ReadBytes(f.alg, Slice(bytes, start + 4, SizeOf(f.alg)))
    <3>1. /\ x = 4 + SizeOf(f.alg) /\ body = start + 4 + SizeOf(f.alg)
          /\ got = IF header # "Some" THEN Result(header)
                   ELSE IF DeclaredLen(bytes, start) > max THEN Result("InvalidFrame")
                   ELSE ReadVerified(f.alg, sum, bytes, start + 4 + SizeOf(f.alg),
                                     DeclaredLen(bytes, start))
      <4>1. x = 4 + SizeOf(f.alg)
        BY <2>3 DEF HeaderSize
      <4>2. body = start + 4 + SizeOf(f.alg)
        <5> DEFINE size == SizeOf(f.alg)
        <5>1. size \in Nat /\ start \in Nat
          BY <1>2
        <5>2. body = start + (4 + size)
          BY <4>1
        <5>. HIDE DEF size, body
        <5>. QED BY <5>1, <5>2 DEF size
      <4>3. got = ReadChecksummed(f.alg, bytes, start, max)
        BY <2>3 DEF ReadAndDeframe
      <4>. HIDE DEF got
      <4>. QED BY <4>1, <4>2, <4>3 DEF ReadChecksummed
    <3>2. header = "Some" => DeclaredLen(bytes, start) = n /\ Verify(f.alg, sum, p)
      BY <1>5, <2>1, <2>3
    <3>3. header = "Some" =>
            ReadVerified(f.alg, sum, bytes, body, n) = ReadPayload(bytes, body, n)
      <4>. HIDE DEF sum, header, body, n
      <4>1. Some(p, body + n).payload = p /\ Result("UnexpectedEof").kind # "Some"
        BY DEF Some, Result
      <4>. QED BY <1>4, <3>2, <4>1 DEF ReadVerified
    <3>. HIDE DEF got, header, n, sum, body
    <3>4. header = "Some" =>
            got = IF n > max THEN Result("InvalidFrame") ELSE ReadPayload(bytes, body, n)
      BY <3>1, <3>2, <3>3
    <3>. QED BY <1>4, <3>1, <3>4 DEF header
  <2>4. CASE f.kind = "magic"
    <3> DEFINE m == Len(Magic)
               at == start + m
    <3>1. /\ x = m + 4 /\ body = start + m + 4
          /\ got = IF header # "Some" THEN Result(header)
                   ELSE IF Slice(bytes, start, m) # Magic THEN Result("InvalidFrame")
                   ELSE IF DeclaredLen(bytes, at) > max THEN Result("InvalidFrame")
                   ELSE ReadPayload(bytes, start + m + 4, DeclaredLen(bytes, at))
      <4>1. x = m + 4
        BY <2>4 DEF HeaderSize
      <4>2. body = start + m + 4
        BY <1>2, <4>1
      <4>3. got = ReadMagic(bytes, start, max)
        BY <2>4 DEF ReadAndDeframe
      <4>. HIDE DEF got
      <4>. QED BY <4>1, <4>2, <4>3 DEF ReadMagic, ReadAfterLength, MagicHeader
    <3>2. header = "Some" => Slice(bytes, start, m) = Magic /\ DeclaredLen(bytes, at) = n
      BY <1>5, <2>1, <2>4
    <3>. HIDE DEF got, header, n, body, m, at
    <3>3. header = "Some" =>
            got = IF n > max THEN Result("InvalidFrame") ELSE ReadPayload(bytes, body, n)
      BY <3>1, <3>2
    <3>. QED BY <1>4, <3>1, <3>3 DEF header
  <2>. QED BY <1>1, <2>2, <2>3, <2>4
<1>7. /\ start = Len(bytes) => got = Result("None")
      /\ start < Len(bytes) /\ Len(bytes) < body => got = Result("UnexpectedEof")
      /\ body <= Len(bytes) => got = rest
  <2>. HIDE DEF got, rest, body, x
  <2>. QED BY <1>3, <1>6
<1>8. /\ n > max => rest = Result("InvalidFrame")
      /\ n <= max /\ Len(bytes) < body + n => rest = Result("UnexpectedEof")
      /\ n <= max /\ body + n <= Len(bytes) => rest = Some(p, body + n) /\ body <= Len(bytes)
  <2>. HIDE DEF body, n
  <2>. QED BY <1>2
<1>. HIDE DEF got, rest, n, x
<1>9. /\ start = Len(bytes) => got = Result("None")
      /\ start < Len(bytes) /\ Len(bytes) < body => got = Result("UnexpectedEof")
      /\ body <= Len(bytes) /\ n > max => got = Result("InvalidFrame")
      /\ body <= Len(bytes) /\ Len(bytes) < body + n /\ n <= max => got = Result("UnexpectedEof")
      /\ body + n <= Len(bytes) /\ n <= max => got = Some(p, body + n)
  <2>. HIDE DEF body
  <2>. QED BY <1>7, <1>8
<1>. QED BY <1>9 DEF got, n, x

\* Whatever the bytes are, a call ends in one of these ways, and a payload takes bytes.
Kinds == {"None", "Some", "UnexpectedEof", "InvalidFrame", "ChecksumMismatch"}
Sound(got, bytes, start) ==
    /\ got.kind \in Kinds
    /\ got.kind = "Some" => got.payload \in Seq(Byte) /\ got.next \in (start + 1)..Len(bytes)

\* A deframer returns one of five kinds, and moves forward when it returns a payload.
LEMMA ReadSound ==
    ASSUME NEW f, IsFormat(f), NEW bytes \in Seq(Byte), NEW start \in 0..Len(bytes), NEW max \in Nat
    PROVE  Sound(ReadAndDeframe(f, bytes, start, max), bytes, start)
<1>1. /\ f.kind \in {"default", "checksum", "magic"} /\ SizeOf(f.alg) \in 0..8
      /\ Len(bytes) \in Nat /\ start \in Nat /\ start <= Len(bytes)
      /\ Len(Magic) \in Nat
  BY FramingAssumption, LenProperties DEF IsFormat
<1>2. ASSUME NEW kind \in Kinds \ {"Some"} PROVE Sound(Result(kind), bytes, start)
  BY <1>2 DEF Sound, Result
<1>3. ASSUME NEW q \in (start + 1)..Len(bytes), NEW n \in Nat
      PROVE  /\ Sound(ReadPayload(bytes, q, n), bytes, start)
             /\ \A alg, sum : Sound(ReadVerified(alg, sum, bytes, q, n), bytes, start)
  <2> DEFINE got == ReadPayload(bytes, q, n)
  <2>1. q \in Nat
    BY <1>1
  <2>2. Sound(got, bytes, start)
    <3>1. CASE q + n > Len(bytes)
      <4>1. got = Result("UnexpectedEof")
        BY <3>1 DEF ReadPayload
      <4>2. "UnexpectedEof" \in Kinds \ {"Some"}
        BY DEF Kinds
      <4>. QED BY <1>2, <4>1, <4>2
    <3>2. CASE ~(q + n > Len(bytes))
      <4>1. got = Some(Slice(bytes, q, n), q + n)
        BY <3>2 DEF ReadPayload
      <4>2. q + n <= Len(bytes) /\ q + n \in (start + 1)..Len(bytes)
        BY <1>1, <2>1, <3>2
      <4>3. Slice(bytes, q, n) \in Seq(Byte)
        BY <2>1, <4>2, Pieces
      <4>. QED BY <4>1, <4>2, <4>3 DEF Sound, Some, Kinds
    <3>. QED BY <3>1, <3>2
  <2>3. ASSUME NEW alg, NEW sum PROVE Sound(ReadVerified(alg, sum, bytes, q, n), bytes, start)
    <3>1. \/ ReadVerified(alg, sum, bytes, q, n) = Result("ChecksumMismatch")
          \/ ReadVerified(alg, sum, bytes, q, n) = got
      BY DEF ReadVerified
    <3>2. "ChecksumMismatch" \in Kinds \ {"Some"}
      BY DEF Kinds
    <3>. HIDE DEF got
    <3>. QED BY <1>2, <2>2, <3>1, <3>2
  <2>. QED BY <2>2, <2>3
<1>4. ASSUME NEW n \in Nat
      PROVE  /\ ReadHeader(bytes, start, n) \in {"None", "Some", "UnexpectedEof"}
             /\ ReadHeader(bytes, start, n) = "Some" => start + n <= Len(bytes)
  BY <1>1 DEF ReadHeader
<1>5. \A kind \in {"None", "UnexpectedEof", "InvalidFrame"} :
         Sound(Result(kind), bytes, start)
  BY <1>2 DEF Kinds
<1>6. CASE f.kind = "default"
  <2> DEFINE header == ReadHeader(bytes, start, 4)
             n == DeclaredLen(bytes, start)
  <2>1. ReadAndDeframe(f, bytes, start, max) =
          IF header = "Some" THEN IF n > max THEN Result("InvalidFrame")
                                  ELSE ReadPayload(bytes, start + 4, n)
          ELSE Result(header)
    BY <1>6 DEF ReadAndDeframe, ReadByLength, ReadAfterLength
  <2>2. header \in {"None", "Some", "UnexpectedEof"} /\ (header = "Some" => start + 4 <= Len(bytes))
    BY <1>4
  <2>3. header = "Some" => n \in Nat /\ start + 4 \in (start + 1)..Len(bytes)
    BY <1>1, <2>2, DeclaredNat
  <2>. HIDE DEF header, n
  <2>. QED BY <1>3, <1>5, <2>1, <2>2, <2>3
<1>7. CASE f.kind = "checksum"
  <2> DEFINE size == SizeOf(f.alg)
             header == ReadHeader(bytes, start, 4 + size)
             n == DeclaredLen(bytes, start)
             sum == ReadBytes(f.alg, Slice(bytes, start + 4, size))
  <2>1. ReadAndDeframe(f, bytes, start, max) =
          IF header # "Some" THEN Result(header)
          ELSE IF n > max THEN Result("InvalidFrame")
          ELSE ReadVerified(f.alg, sum, bytes, start + 4 + size, n)
    BY <1>7 DEF ReadAndDeframe, ReadChecksummed
  <2>2. /\ header \in {"None", "Some", "UnexpectedEof"}
        /\ header = "Some" => start + (4 + size) <= Len(bytes)
    BY <1>1, <1>4
  <2>3. header = "Some" => n \in Nat /\ start + 4 + size \in (start + 1)..Len(bytes)
    BY <1>1, <2>2, DeclaredNat
  <2>. HIDE DEF header, n, size, sum
  <2>. QED BY <1>3, <1>5, <2>1, <2>2, <2>3
<1>8. CASE f.kind = "magic"
  <2> DEFINE m == Len(Magic)
             header == ReadHeader(bytes, start, m + 4)
             n == DeclaredLen(bytes, start + m)
             seen == Slice(bytes, start, m)
  <2>1. ReadAndDeframe(f, bytes, start, max) =
          IF header # "Some" THEN Result(header)
          ELSE IF seen # Magic THEN Result("InvalidFrame")
          ELSE IF n > max THEN Result("InvalidFrame")
          ELSE ReadPayload(bytes, start + m + 4, n)
    BY <1>8 DEF ReadAndDeframe, ReadMagic, ReadAfterLength, MagicHeader
  <2>2. /\ header \in {"None", "Some", "UnexpectedEof"}
        /\ header = "Some" => start + (m + 4) <= Len(bytes)
    BY <1>1, <1>4
  <2>3. header = "Some" => n \in Nat /\ start + m + 4 \in (start + 1)..Len(bytes)
    <3>1. header = "Some" => start + m \in Nat /\ (start + m) + 4 <= Len(bytes)
      BY <1>1, <2>2
    <3>. QED BY <1>1, <3>1, DeclaredNat
  <2>. HIDE DEF header, n, m, seen
  <2>. QED BY <1>3, <1>5, <2>1, <2>2, <2>3
<1>. QED BY <1>1, <1>6, <1>7, <1>8

\* The two ways of reading a checksummed frame.
LEMMA SplitRead ==
    ASSUME NEW f, f.kind = "checksum", IsFormat(f),
           NEW bytes \in Seq(Byte), NEW p \in 0..Len(bytes), NEW max \in Nat
    PROVE  LET whole == ReadAndDeframe(f, bytes, p, max)
               split == ReadByLength(f, bytes, p, max)
           IN  \/ whole = split
               \/ /\ whole.kind = "UnexpectedEof" /\ split.kind = "InvalidFrame"
                  /\ p + 4 <= Len(bytes) /\ Len(bytes) < p + (4 + SizeOf(f.alg))
<1> DEFINE whole == ReadAndDeframe(f, bytes, p, max)
           split == ReadByLength(f, bytes, p, max)
           size == SizeOf(f.alg)
           n == DeclaredLen(bytes, p)
           sum == ReadBytes(f.alg, Slice(bytes, p + 4, size))
           last == ReadVerified(f.alg, sum, bytes, p + 4 + size, n)
<1>1. size \in 0..8 /\ Len(bytes) \in Nat /\ p \in Nat /\ p <= Len(bytes)
  BY LenProperties DEF IsFormat
<1>2. whole = IF ReadHeader(bytes, p, 4 + size) # "Some"
              THEN Result(ReadHeader(bytes, p, 4 + size))
              ELSE IF n > max THEN Result("InvalidFrame") ELSE last
  BY DEF ReadAndDeframe, ReadChecksummed
<1>3. split = IF ReadHeader(bytes, p, 4) = "Some"
              THEN IF n > max THEN Result("InvalidFrame")
                   ELSE IF p + 4 + size > Len(bytes) THEN Result("UnexpectedEof") ELSE last
              ELSE Result(ReadHeader(bytes, p, 4))
  BY DEF ReadByLength, ReadAfterLength, ChecksumReadAfterLength, SumThenPayload
<1>. HIDE DEF whole, split, n, last, size
<1>4. CASE p = Len(bytes)
  BY <1>1, <1>2, <1>3, <1>4 DEF ReadHeader, whole, split, size
<1>5. CASE p # Len(bytes) /\ p + 4 > Len(bytes)
  <2>1. ReadHeader(bytes, p, 4) = "UnexpectedEof" /\ ReadHeader(bytes, p, 4 + size) = "UnexpectedEof"
    BY <1>1, <1>5 DEF ReadHeader
  <2>2. whole = split
    BY <1>2, <1>3, <2>1
  <2>. QED BY <2>2 DEF whole, split
<1>6. CASE p # Len(bytes) /\ p + 4 <= Len(bytes) /\ p + 4 + size > Len(bytes)
  <2>1. ReadHeader(bytes, p, 4) = "Some" /\ ReadHeader(bytes, p, 4 + size) = "UnexpectedEof"
    BY <1>1, <1>6 DEF ReadHeader
  <2>2. whole = Result("UnexpectedEof") /\ split \in {whole, Result("InvalidFrame")}
    BY <1>2, <1>3, <1>6, <2>1
  <2>3. whole.kind = "UnexpectedEof" /\ (split = whole \/ split.kind = "InvalidFrame")
    BY <2>2 DEF Result
  <2>4. p + 4 <= Len(bytes) /\ Len(bytes) < p + (4 + size)
    BY <1>1, <1>6
  <2>. QED BY <2>3, <2>4 DEF whole, split, size
<1>7. CASE p # Len(bytes) /\ p + 4 + size <= Len(bytes)
  <2>1. ReadHeader(bytes, p, 4) = "Some" /\ ReadHeader(bytes, p, 4 + size) = "Some"
    BY <1>1, <1>7 DEF ReadHeader
  <2>2. whole = split
    BY <1>1, <1>2, <1>3, <1>7, <2>1
  <2>. QED BY <2>2 DEF whole, split
<1>8. \/ p = Len(bytes)
      \/ p + 4 > Len(bytes)
      \/ p + 4 <= Len(bytes) /\ p + 4 + size > Len(bytes)
      \/ p + 4 + size <= Len(bytes)
  BY <1>1
<1>. QED BY <1>4, <1>5, <1>6, <1>7, <1>8

-----------------------------------------------------------------------------
(* process_all. *)

Readings == [payloads : Seq(Seq(Byte)), end : Kinds]
Reading(f, bytes, max) ==
    IsFormat(f) /\ bytes \in Seq(Byte) /\ max \in Nat

\* What the recursion of ProcessAll gives, from every offset.
Gathers(f, bytes, max, g) ==
    /\ g \in [0..Len(bytes) -> Readings]
    /\ \A q \in 0..Len(bytes) : g[q] = Gathered(ReadAndDeframe(f, bytes, q, max), g)

\* The recursion of process_all has a solution, as every frame moves the reader forward.
LEMMA GatherExists ==
    ASSUME NEW f, NEW bytes, NEW max, Reading(f, bytes, max)
    PROVE  \E g : Gathers(f, bytes, max, g)
<1> DEFINE top == Len(bytes)
           D == 0..top
           got(q) == ReadAndDeframe(f, bytes, q, max)
           measure == [q \in D |-> top - q]
           stop == {q \in D : got(q).kind # "Some"}
           base == [q \in D |-> [payloads |-> <<>>, end |-> got(q).kind]]
           next == [q \in D |-> IF q \in stop THEN q ELSE got(q).next]
           over(q, v) == [payloads |-> <<got(q).payload>> \o v.payloads, end |-> v.end]
           step == [q \in D |-> [v \in Readings |-> IF q \in stop THEN v ELSE over(q, v)]]
<1>1. IsFormat(f) /\ bytes \in Seq(Byte) /\ max \in Nat /\ top \in Nat
  BY LenProperties DEF Reading
<1>2. \A q \in D : Sound(got(q), bytes, q)
  BY <1>1, ReadSound
<1>. HIDE DEF got
<1>3. /\ \A q \in D : got(q).kind \in Kinds
      /\ \A q \in D \ stop : got(q).payload \in Seq(Byte) /\ got(q).next \in (q + 1)..top
  BY <1>2 DEF Sound
<1>. HIDE DEF top
<1>4. base \in [D -> Readings]
  <2>1. \A q \in D : [payloads |-> <<>>, end |-> got(q).kind] \in Readings
    BY <1>3 DEF Readings
  <2>. QED BY <2>1
<1>5. next \in [D -> D] /\ measure \in [D -> 0..top]
      /\ \A q \in D \ stop : measure[next[q]] < measure[q]
  <2>1. ASSUME NEW q \in D \ stop
        PROVE  got(q).next \in D /\ top - got(q).next < top - q /\ next[q] = got(q).next
    BY <1>1, <1>3
  <2>2. \A q \in D : next[q] \in D
    <3>. HIDE DEF D, stop
    <3>. QED BY <2>1
  <2>3. next \in [D -> D]
    <3>1. next = [q \in D |-> next[q]]
      OBVIOUS
    <3>. HIDE DEF next, D
    <3>. QED BY <2>2, <3>1
  <2>4. measure \in [D -> 0..top]
    BY <1>1
  <2>5. ASSUME NEW q \in D \ stop PROVE measure[next[q]] < measure[q]
    BY <2>1
  <2>. QED BY <2>3, <2>4, <2>5
<1>6. step \in [D -> [Readings -> Readings]]
  <2>1. ASSUME NEW q \in D, NEW v \in Readings
        PROVE  (IF q \in stop THEN v ELSE over(q, v)) \in Readings
    <3>1. CASE q \in stop
      BY <3>1
    <3>2. CASE q \notin stop
      <4>1. got(q).payload \in Seq(Byte) /\ v.payloads \in Seq(Seq(Byte)) /\ v.end \in Kinds
        BY <1>3, <3>2 DEF Readings
      <4>2. <<got(q).payload>> \o v.payloads \in Seq(Seq(Byte))
        BY <4>1
      <4>3. over(q, v) \in Readings
        BY <4>1, <4>2 DEF Readings
      <4>. QED BY <3>2, <4>3
    <3>. QED BY <3>1, <3>2
  <2>. HIDE DEF D, stop, over
  <2>. QED BY <2>1
<1>7. Recursive(D, Readings, top, measure, stop, base, next, step)
  <2>1. stop \in SUBSET D
    OBVIOUS
  <2>. HIDE DEF D, measure, stop, base, next, step
  <2>. QED BY <1>1, <1>4, <1>5, <1>6, <2>1 DEF Recursive
<1>8. PICK g \in [D -> Readings] :
        \A q \in D : g[q] = IF q \in stop THEN base[q] ELSE step[q][g[next[q]]]
  <2>. HIDE DEF D, measure, stop, base, next, step
  <2>. QED BY <1>7, Recursion
<1>9. ASSUME NEW q \in D PROVE g[q] = Gathered(got(q), g)
  <2>1. CASE q \in stop
    <3>1. g[q] = [payloads |-> <<>>, end |-> got(q).kind] /\ got(q).kind # "Some"
      BY <1>8, <2>1
    <3>. QED BY <3>1 DEF Gathered
  <2>2. CASE q \notin stop
    <3>1. next[q] = got(q).next /\ got(q).kind = "Some" /\ g[got(q).next] \in Readings
      BY <1>3, <1>5, <1>8, <2>2
    <3>2. g[q] = over(q, g[got(q).next])
      BY <1>8, <2>2, <3>1
    <3>. QED BY <3>1, <3>2 DEF Gathered
  <2>. QED BY <2>1, <2>2
<1>. QED BY <1>8, <1>9 DEF Gathers, got, top

\* It is what ProcessAll chooses.
LEMMA Gathering ==
    ASSUME NEW f, NEW bytes, NEW max, Reading(f, bytes, max)
    PROVE  \E g : Gathers(f, bytes, max, g) /\ ProcessAll(f, bytes, max) = g[0]
<1> DEFINE top == Len(bytes)
           got(q) == ReadAndDeframe(f, bytes, q, max)
           h == CHOOSE h : h = [q \in 0..top |-> Gathered(got(q), h)]
<1>1. IsFormat(f) /\ bytes \in Seq(Byte) /\ max \in Nat /\ top \in Nat
  BY LenProperties DEF Reading
<1>2. PICK g : Gathers(f, bytes, max, g)
  BY GatherExists
<1>3. \A q \in 0..top : Sound(got(q), bytes, q)
  BY <1>1, ReadSound
<1>4. g \in [0..top -> Readings] /\ \A q \in 0..top : g[q] = Gathered(got(q), g)
  BY <1>2 DEF Gathers
<1>5. ProcessAll(f, bytes, max) = h[0]
  BY DEF ProcessAll
<1>. HIDE DEF got, top
<1>6. g = [q \in 0..top |-> Gathered(got(q), g)]
  BY <1>4
<1>7. h = [q \in 0..top |-> Gathered(got(q), h)]
  BY <1>6
<1>. HIDE DEF h
<1> DEFINE S == {m \in Nat : m <= top => \A q \in 0..top : q >= top - m => h[q] = g[q]}
<1>8. ASSUME NEW q \in 0..top, \A r \in (q + 1)..top : h[r] = g[r] PROVE h[q] = g[q]
  <2>1. got(q).kind = "Some" => got(q).next \in (q + 1)..top
    BY <1>3 DEF Sound, top
  <2>2. h[q] = Gathered(got(q), h) /\ g[q] = Gathered(got(q), g)
    BY <1>4, <1>7
  <2>3. got(q).kind = "Some" => h[got(q).next] = g[got(q).next]
    BY <1>8, <2>1
  <2>. QED BY <2>2, <2>3 DEF Gathered
<1>9. 0 \in S
  <2>1. \A q \in 0..top : q >= top - 0 => q = top
    BY <1>1
  <2>2. \A r \in (top + 1)..top : h[r] = g[r]
    BY <1>1
  <2>3. top \in 0..top
    BY <1>1
  <2>. QED BY <1>8, <2>1, <2>2, <2>3
<1>10. ASSUME NEW m \in S, m < top PROVE m + 1 \in S
  <2>1. m \in Nat /\ \A q \in 0..top : q >= top - m => h[q] = g[q]
    BY <1>1, <1>10
  <2>2. ASSUME NEW q \in 0..top, q >= top - (m + 1) PROVE h[q] = g[q]
    <3>1. \A r \in (q + 1)..top : r \in 0..top /\ r >= top - m
      BY <1>1, <2>1, <2>2
    <3>. QED BY <1>8, <2>1, <3>1
  <2>. QED BY <2>1, <2>2
<1>11. top \in S
  <2>1. S \in SUBSET Nat
    OBVIOUS
  <2>. HIDE DEF S
  <2>. QED BY <1>1, <1>9, <1>10, <2>1, CountUp
<1>12. h[0] = g[0]
  <2>1. 0 \in 0..top /\ 0 >= top - top /\ top <= top
    BY <1>1
  <2>. QED BY <1>11, <2>1
<1>. QED BY <1>2, <1>5, <1>12

-----------------------------------------------------------------------------
(* Frames one after the other. *)

\* Payloads a format can frame.
Run(f, run) ==
    /\ Framed(f, <<>>)
    /\ run \in Seq(Seq(Byte))
    /\ \A i \in 1..Len(run) : Framed(f, run[i]) /\ Fits(run[i])

\* Where their frames end.
LEMMA EndsOf ==
    ASSUME NEW f, NEW run, Run(f, run)
    PROVE  /\ Ends(f, run) \in [0..Len(run) -> Nat] /\ Ends(f, run)[0] = 0
           /\ \A i \in 1..Len(run) : Ends(f, run)[i] = Ends(f, run)[i - 1] + Len(Frame(f, run[i]))
<1> DEFINE n == Len(run)
           h == HeaderOf(f)
           zero == 0
           step == [i \in 1..n |-> [v \in Nat |-> v + h + Len(run[i])]]
           end == CHOOSE g : g = [i \in 0..n |-> IF i = 0 THEN 0 ELSE g[i - 1] + h + Len(run[i])]
<1>1. /\ Framed(f, <<>>) /\ run \in Seq(Seq(Byte)) /\ n \in Nat
      /\ \A i \in 1..n : run[i] \in Seq(Byte) /\ Len(run[i]) \in Nat /\ Framed(f, run[i])
  <2>1. run \in Seq(Seq(Byte)) /\ n \in Nat
    BY LenProperties DEF Run
  <2>2. \A i \in 1..n : run[i] \in Seq(Byte)
    BY <2>1, ElementOfSeq
  <2>. QED BY <2>1, <2>2, LenProperties DEF Run
<1>2. h \in Nat /\ h = HeaderSize(f)
  BY <1>1, HeaderLength, Fields
<1>3. Ends(f, run) = end
  BY DEF Ends
<1>. HIDE DEF h, n
<1>4. Steps(n, Nat, zero, step)
  <2>1. step \in [1..n -> [Nat -> Nat]]
    BY <1>1, <1>2
  <2>. QED BY <1>1, <2>1 DEF Steps
<1>5. PICK g \in [0..n -> Nat] : g[0] = zero /\ \A i \in 1..n : g[i] = step[i][g[i - 1]]
  <2>. HIDE DEF step, zero
  <2>. QED BY <1>4, StepsUp
<1>6. g = [i \in 0..n |-> IF i = 0 THEN 0 ELSE g[i - 1] + h + Len(run[i])]
  <2>1. ASSUME NEW i \in 0..n PROVE g[i] = IF i = 0 THEN 0 ELSE g[i - 1] + h + Len(run[i])
    <3>1. i # 0 => i \in 1..n /\ i - 1 \in 0..n
      BY <1>1
    <3>. QED BY <1>5, <3>1
  <2>. QED BY <1>5, <2>1
<1>7. end = [i \in 0..n |-> IF i = 0 THEN 0 ELSE end[i - 1] + h + Len(run[i])]
  BY <1>6
<1>. HIDE DEF end
<1>8. end[0] = zero /\ \A i \in 1..n : end[i] = end[i - 1] + h + Len(run[i])
  <2>1. 0 \in 0..n /\ \A i \in 1..n : i \in 0..n /\ i # 0
    BY <1>1
  <2>. QED BY <1>7, <2>1
<1>9. \A i \in 0..n : end[i] \in Nat
  <2>1. \A i \in 1..n : end[i - 1] \in Nat => end[i] = step[i][end[i - 1]]
    BY <1>8
  <2>2. end[0] = zero
    BY <1>8
  <2>. HIDE DEF step, zero
  <2>. QED BY <1>4, <2>1, <2>2, UpInRange
<1>10. end \in [0..n -> Nat]
  BY <1>7, <1>9
<1>11. ASSUME NEW i \in 1..n PROVE end[i] = end[i - 1] + Len(Frame(f, run[i]))
  <2>1. Len(Frame(f, run[i])) = h + Len(run[i])
    BY <1>1, <1>2, FrameShape
  <2> DEFINE a == end[i - 1]
             b == Len(run[i])
  <2>2. i - 1 \in 0..n /\ a \in Nat /\ b \in Nat /\ end[i] = a + h + b
    BY <1>1, <1>8, <1>9
  <2>3. Len(Frame(f, run[i])) = h + b
    BY <2>1
  <2>. HIDE DEF a, b
  <2>4. end[i] = a + Len(Frame(f, run[i]))
    BY <1>2, <2>2, <2>3
  <2>. QED BY <2>4 DEF a
<1>. QED BY <1>3, <1>8, <1>10, <1>11 DEF n

\* Every frame moves the end on.
LEMMA EndsGrow ==
    ASSUME NEW f, NEW run, Run(f, run), NEW j \in 0..Len(run), NEW i \in 0..j
    PROVE  /\ Ends(f, run)[i] \in Nat /\ Ends(f, run)[i] <= Ends(f, run)[j]
           /\ i < j => Ends(f, run)[i] + HeaderSize(f) + Len(run[i + 1]) <= Ends(f, run)[j]
<1> DEFINE E == Ends(f, run)
           n == Len(run)
<1>1. /\ n \in Nat /\ E \in [0..n -> Nat]
      /\ \A k \in 1..n : E[k] = E[k - 1] + Len(Frame(f, run[k]))
      /\ \A k \in 1..n : Len(Frame(f, run[k])) = HeaderSize(f) + Len(run[k]) /\ Len(run[k]) \in Nat
      /\ HeaderSize(f) \in Nat
  <2>1. /\ n \in Nat /\ \A k \in 1..n : Framed(f, run[k]) /\ run[k] \in Seq(Byte)
        /\ Framed(f, <<>>)
    BY LenProperties, ElementOfSeq DEF Run
  <2>2. E \in [0..n -> Nat] /\ \A k \in 1..n : E[k] = E[k - 1] + Len(Frame(f, run[k]))
    BY EndsOf
  <2>3. HeaderSize(f) \in Nat
    BY <2>1, Fields
  <2>4. ASSUME NEW k \in 1..n
        PROVE  Len(Frame(f, run[k])) = HeaderSize(f) + Len(run[k]) /\ Len(run[k]) \in Nat
    BY <2>1, FrameShape, LenProperties
  <2>. HIDE DEF E, n
  <2>. QED BY <2>1, <2>2, <2>3, <2>4
<1>. HIDE DEF E, n
<1> DEFINE S == {m \in Nat : i + m <= j => E[i] <= E[i + m]
                                /\ (m > 0 => E[i] + HeaderSize(f) + Len(run[i + 1]) <= E[i + m])}
<1>2. i \in Nat /\ j \in Nat /\ j \in 0..n /\ i <= j /\ i \in 0..n
  BY <1>1 DEF n
<1>3. 0 \in S
  <2>1. i + 0 = i /\ E[i] \in Nat
    BY <1>1, <1>2
  <2>. QED BY <2>1
<1>4. ASSUME NEW m \in S, m < j - i PROVE m + 1 \in S
  <2>1. /\ m \in Nat /\ i + m \in 0..n /\ i + (m + 1) \in 1..n /\ i + m <= j
        /\ (i + (m + 1)) - 1 = i + m
    BY <1>1, <1>2, <1>4
  <2>2. /\ E[i] <= E[i + m]
        /\ m > 0 => E[i] + HeaderSize(f) + Len(run[i + 1]) <= E[i + m]
    BY <2>1
  <2>3. /\ E[i + (m + 1)] = E[i + m] + (HeaderSize(f) + Len(run[i + (m + 1)]))
        /\ Len(run[i + (m + 1)]) \in Nat /\ E[i + m] \in Nat /\ E[i] \in Nat
    BY <1>1, <1>2, <2>1
  <2>4. i + 1 \in 1..n /\ Len(run[i + 1]) \in Nat
    <3>1. m \in Nat /\ m < j - i
      BY <1>4
    <3>2. i + 1 \in 1..n
      BY <1>1, <1>2, <3>1
    <3>. QED BY <1>1, <3>2
  <2>5. CASE m = 0
    <3>1. i + (m + 1) = i + 1 /\ i + m = i
      BY <1>2, <2>5
    <3> DEFINE a == E[i]
               b == Len(run[i + 1])
               c == E[i + (m + 1)]
    <3>2. a \in Nat /\ b \in Nat /\ c = a + (HeaderSize(f) + b)
      BY <2>3, <2>4, <3>1
    <3>. HIDE DEF a, b, c
    <3>3. a <= c /\ a + HeaderSize(f) + b <= c
      BY <1>1, <3>2
    <3>. QED BY <2>1, <3>3 DEF a, b, c
  <2>6. CASE m > 0
    <3> DEFINE a == E[i]
               b == Len(run[i + 1])
               c == E[i + (m + 1)]
               d == E[i + m]
               e == Len(run[i + (m + 1)])
    <3>1. /\ a \in Nat /\ b \in Nat /\ d \in Nat /\ e \in Nat /\ c = d + (HeaderSize(f) + e)
          /\ a <= d /\ a + HeaderSize(f) + b <= d
      BY <2>2, <2>3, <2>4, <2>6
    <3>. HIDE DEF a, b, c, d, e
    <3>2. a <= c /\ a + HeaderSize(f) + b <= c
      BY <1>1, <3>1
    <3>. QED BY <2>1, <3>2 DEF a, b, c
  <2>7. m = 0 \/ m > 0
    BY <2>1
  <2>. QED BY <2>5, <2>6, <2>7
<1>5. S \in SUBSET Nat /\ j - i \in Nat /\ i + (j - i) = j
  BY <1>2
<1>6. j - i \in S
  <2>. HIDE DEF S
  <2>. QED BY <1>3, <1>4, <1>5, CountUp
<1>7. E[i] <= E[j] /\ (j - i > 0 => E[i] + HeaderSize(f) + Len(run[i + 1]) <= E[j])
  BY <1>2, <1>5, <1>6
<1>. QED BY <1>1, <1>2, <1>7 DEF E

\* A run with more frames behind it.
LEMMA EndsAppend ==
    ASSUME NEW f, NEW run, Run(f, run), NEW more, Run(f, more), NEW n \in 0..Len(run), n <= Len(more),
           \A i \in 1..n : more[i] = run[i]
    PROVE  \A i \in 0..n : Ends(f, more)[i] = Ends(f, run)[i]
<1>. SUFFICES ASSUME NEW j \in 0..n PROVE Ends(f, more)[j] = Ends(f, run)[j]
  OBVIOUS
<1> DEFINE E == Ends(f, run)
           F == Ends(f, more)
<1>1. /\ n \in Nat /\ j \in Nat /\ Len(run) \in Nat /\ Len(more) \in Nat
      /\ \A i \in 1..n : i \in 1..Len(run) /\ i \in 1..Len(more)
  BY LenProperties DEF Run
<1>2. /\ E[0] = 0 /\ F[0] = 0
      /\ \A i \in 1..n : /\ E[i] = E[i - 1] + Len(Frame(f, run[i]))
                         /\ F[i] = F[i - 1] + Len(Frame(f, more[i]))
  BY <1>1, EndsOf
<1>. HIDE DEF E, F
<1> DEFINE S == {m \in Nat : m <= n => F[m] = E[m]}
<1>3. 0 \in S /\ S \in SUBSET Nat
  BY <1>2
<1>4. ASSUME NEW m \in S, m < j PROVE m + 1 \in S
  <2>1. m \in Nat /\ m + 1 \in 1..n /\ m <= n /\ (m + 1) - 1 = m
    BY <1>1, <1>4
  <2>2. F[m] = E[m]
    BY <2>1
  <2>. QED BY <1>2, <2>1, <2>2
<1>5. j \in S
  <2>. HIDE DEF S
  <2>. QED BY <1>1, <1>3, <1>4, CountUp
<1>. QED BY <1>1, <1>5 DEF E, F

\* The bytes begin with the frames of a run; they are these frames and nothing else.
Holds(f, run, bytes) ==
    /\ Ends(f, run)[Len(run)] <= Len(bytes)
    /\ \A i \in 1..Len(run) : \A k \in 1..Len(Frame(f, run[i])) :
          bytes[Ends(f, run)[i - 1] + k] = Frame(f, run[i])[k]
Exactly(f, run, bytes) ==
    Holds(f, run, bytes) /\ Len(bytes) = Ends(f, run)[Len(run)]

\* The bytes of the frames lie in the part of the stream that the frames take.
LEMMA FrameWithin ==
    ASSUME NEW f, NEW run, Run(f, run), NEW i \in 1..Len(run), NEW k \in 1..Len(Frame(f, run[i]))
    PROVE  /\ Ends(f, run)[i - 1] + k \in 1..Ends(f, run)[i]
           /\ Ends(f, run)[i] <= Ends(f, run)[Len(run)]
           /\ Ends(f, run)[i - 1] \in Nat /\ Ends(f, run)[i] \in Nat /\ Ends(f, run)[Len(run)] \in Nat
<1>1. Len(run) \in Nat /\ i \in 0..Len(run) /\ i - 1 \in 0..Len(run) /\ Len(run) \in 0..Len(run)
  BY LenProperties DEF Run
<1>2. Ends(f, run)[i] = Ends(f, run)[i - 1] + Len(Frame(f, run[i]))
  BY EndsOf
<1>3. /\ Ends(f, run)[i - 1] \in Nat /\ Ends(f, run)[i] \in Nat /\ Ends(f, run)[Len(run)] \in Nat
      /\ Ends(f, run)[i] <= Ends(f, run)[Len(run)]
  BY <1>1, EndsOf, EndsGrow
<1>4. Len(Frame(f, run[i])) \in Nat
  BY FrameShape, LenProperties DEF Run
<1> DEFINE a == Ends(f, run)[i - 1]
           b == Ends(f, run)[i]
           c == Len(Frame(f, run[i]))
<1>5. a \in Nat /\ b = a + c /\ c \in Nat /\ k \in 1..c
  BY <1>2, <1>3, <1>4
<1>. HIDE DEF a, b, c
<1>6. a + k \in 1..b
  BY <1>5
<1>. QED BY <1>3, <1>6 DEF a, b

\* More bytes behind them change nothing.
LEMMA HoldsOn ==
    ASSUME NEW f, NEW run, Run(f, run), NEW bytes \in Seq(Byte), NEW more \in Seq(Byte),
           Holds(f, run, bytes)
    PROVE  Holds(f, run, bytes \o more)
<1> DEFINE all == bytes \o more
           e == Ends(f, run)[Len(run)]
<1>1. e \in Nat /\ Len(bytes) \in Nat /\ Len(more) \in Nat /\ e <= Len(bytes)
      /\ Len(all) = Len(bytes) + Len(more)
  <2>1. Len(run) \in Nat /\ Len(run) \in 0..Len(run)
    BY LenProperties DEF Run
  <2>. QED BY <2>1, EndsOf, LenProperties, Glued DEF Holds
<1>2. \A k \in 1..Len(bytes) : all[k] = bytes[k]
  BY GluedBytes
<1>3. ASSUME NEW i \in 1..Len(run), NEW k \in 1..Len(Frame(f, run[i]))
      PROVE  all[Ends(f, run)[i - 1] + k] = Frame(f, run[i])[k]
  <2> DEFINE at == Ends(f, run)[i - 1] + k
  <2>1. at \in 1..Ends(f, run)[i] /\ Ends(f, run)[i] \in Nat /\ Ends(f, run)[i] <= e
    BY FrameWithin
  <2>2. bytes[at] = Frame(f, run[i])[k]
    BY DEF Holds
  <2>. HIDE DEF at, all, e
  <2>3. at \in 1..Len(bytes)
    BY <1>1, <2>1
  <2>4. all[at] = Frame(f, run[i])[k]
    BY <1>2, <2>2, <2>3
  <2>. QED BY <2>4 DEF at
<1>4. e <= Len(all)
  <2>. HIDE DEF e, all
  <2>. QED BY <1>1
<1>. QED BY <1>3, <1>4 DEF Holds

\* The first frames of a run.
LEMMA HoldsFewer ==
    ASSUME NEW f, NEW run, Run(f, run), NEW bytes \in Seq(Byte), Holds(f, run, bytes),
           NEW n \in 0..Len(run), NEW less, Run(f, less), Len(less) = n,
           \A i \in 1..n : less[i] = run[i]
    PROVE  Holds(f, less, bytes)
<1>1. Len(run) \in Nat /\ n \in Nat /\ n <= Len(run) /\ Len(bytes) \in Nat
      /\ \A i \in 1..n : i \in 1..Len(run) /\ run[i] = less[i] /\ i - 1 \in 0..n
  BY LenProperties DEF Run
<1>2. \A i \in 0..n : Ends(f, less)[i] = Ends(f, run)[i]
  <2>1. n <= Len(less)
    BY <1>1
  <2>. QED BY <2>1, EndsAppend
<1>3. Ends(f, less)[n] <= Len(bytes)
  <2> DEFINE a == Ends(f, run)[n]
             b == Ends(f, run)[Len(run)]
  <2>1. a \in Nat /\ a <= b
    <3>1. Len(run) \in 0..Len(run) /\ n \in 0..Len(run)
      BY <1>1
    <3>. QED BY <3>1, EndsGrow
  <2>2. b \in Nat /\ b <= Len(bytes)
    <3>1. Len(run) \in 0..Len(run)
      BY <1>1
    <3>. QED BY <3>1, EndsOf DEF Holds
  <2>3. Ends(f, less)[n] = a
    BY <1>1, <1>2
  <2>. HIDE DEF a, b
  <2>. QED BY <1>1, <2>1, <2>2, <2>3
<1>4. ASSUME NEW i \in 1..n, NEW k \in 1..Len(Frame(f, less[i]))
      PROVE  bytes[Ends(f, less)[i - 1] + k] = Frame(f, less[i])[k]
  BY <1>1, <1>2, <1>4 DEF Holds
<1>. QED BY <1>3, <1>4 DEF Holds

\* One more frame behind exactly these.
LEMMA HoldsNext ==
    ASSUME NEW f, NEW run, Run(f, run), NEW bytes \in Seq(Byte), Exactly(f, run, bytes),
           NEW p, Framed(f, p), NEW more, Run(f, more), Len(more) = Len(run) + 1,
           more[Len(run) + 1] = p, \A i \in 1..Len(run) : more[i] = run[i]
    PROVE  Exactly(f, more, bytes \o Frame(f, p))
<1> DEFINE n == Len(run)
           all == bytes \o Frame(f, p)
           e == Ends(f, run)[n]
<1>1. /\ run \in Seq(Seq(Byte)) /\ p \in Seq(Byte) /\ n \in Nat
      /\ Frame(f, p) \in Seq(Byte) /\ Len(Frame(f, p)) \in Nat
      /\ Len(bytes) \in Nat /\ Len(bytes) = e
  BY FrameShape, LenProperties DEF Run, Framed, Exactly
<1>2. Len(more) = n + 1 /\ more[n + 1] = p /\ \A i \in 1..n : more[i] = run[i]
  OBVIOUS
<1>3. \A i \in 0..n : Ends(f, more)[i] = Ends(f, run)[i]
  <2>1. n \in 0..Len(run) /\ n <= Len(more)
    BY <1>1, <1>2
  <2>. QED BY <1>2, <2>1, EndsAppend
<1>4. Ends(f, more)[n + 1] = e + Len(Frame(f, p)) /\ Ends(f, more)[n] = e
  <2>1. n + 1 \in 1..Len(more) /\ (n + 1) - 1 = n /\ n \in 0..n
    BY <1>1, <1>2
  <2>2. Ends(f, more)[n + 1] = Ends(f, more)[n] + Len(Frame(f, more[n + 1]))
    <3> DEFINE j == n + 1
    <3>1. j \in 1..Len(more) /\ j - 1 = n
      BY <2>1
    <3>. HIDE DEF j
    <3>2. \A i \in 1..Len(more) : Ends(f, more)[i] = Ends(f, more)[i - 1] + Len(Frame(f, more[i]))
      BY EndsOf
    <3>3. Ends(f, more)[j] = Ends(f, more)[j - 1] + Len(Frame(f, more[j]))
      BY <3>1, <3>2
    <3>. QED BY <3>1, <3>3 DEF j
  <2>. QED BY <1>2, <1>3, <2>1, <2>2
<1>5. /\ Len(all) = e + Len(Frame(f, p))
      /\ \A k \in 1..Len(Frame(f, p)) : all[e + k] = Frame(f, p)[k]
  <2> DEFINE b == Frame(f, p)
  <2>. HIDE DEF b, e
  <2>1. b \in Seq(Byte) /\ Len(bytes) = e
    BY <1>1 DEF b
  <2>2. Len(bytes \o b) = Len(bytes) + Len(b) /\ \A k \in 1..Len(b) : (bytes \o b)[Len(bytes) + k] = b[k]
    BY <2>1, Glued, GluedBytes
  <2>. QED BY <2>1, <2>2 DEF b
<1>6. Holds(f, run, all)
  BY <1>1, HoldsOn DEF Exactly
<1>7. ASSUME NEW i \in 1..(n + 1), NEW k \in 1..Len(Frame(f, more[i]))
      PROVE  all[Ends(f, more)[i - 1] + k] = Frame(f, more[i])[k]
  <2>1. CASE i = n + 1
    <3>1. i - 1 = n
      BY <1>1, <2>1
    <3>. HIDE DEF all, e
    <3>. QED BY <1>2, <1>4, <1>5, <1>7, <2>1, <3>1
  <2>2. CASE i # n + 1
    <3>1. i \in 1..n /\ i - 1 \in 0..n
      <4>1. n \in Nat
        BY <1>1
      <4>. HIDE DEF n
      <4>. QED BY <2>2, <4>1
    <3>2. more[i] = run[i] /\ Ends(f, more)[i - 1] = Ends(f, run)[i - 1]
      BY <1>2, <1>3, <3>1
    <3>. HIDE DEF all
    <3>3. all[Ends(f, run)[i - 1] + k] = Frame(f, run[i])[k]
      <4>1. k \in 1..Len(Frame(f, run[i]))
        BY <3>2
      <4>. QED BY <1>6, <3>1, <4>1 DEF Holds
    <3>. QED BY <3>2, <3>3
  <2>. QED BY <2>1, <2>2
<1>8. Len(all) \in Nat
  BY <1>1, Glued, LenProperties
<1>. HIDE DEF all, n, e
<1>9. Len(all) = Ends(f, more)[Len(more)]
  BY <1>2, <1>4, <1>5
<1>10. Ends(f, more)[Len(more)] <= Len(all)
  BY <1>8, <1>9
<1>. QED BY <1>2, <1>7, <1>9, <1>10 DEF Exactly, Holds, all

\* Of a stream cut anywhere each frame is there as far as the stream goes.
LEMMA CutAgrees ==
    ASSUME NEW f, NEW run, Run(f, run), NEW bytes \in Seq(Byte), Holds(f, run, bytes),
           NEW n \in 0..Len(bytes), NEW i \in 1..Len(run)
    PROVE  Agrees(SubSeq(bytes, 1, n), Ends(f, run)[i - 1], Frame(f, run[i]))
<1> DEFINE cut == SubSeq(bytes, 1, n)
<1>1. Len(bytes) \in Nat /\ n \in Nat /\ n <= Len(bytes)
  BY LenProperties
<1>2. Len(cut) = n /\ \A k \in 1..n : cut[k] = bytes[k]
  BY <1>1
<1>3. ASSUME NEW k \in 1..Len(Frame(f, run[i])), Ends(f, run)[i - 1] + k <= Len(cut)
      PROVE  cut[Ends(f, run)[i - 1] + k] = Frame(f, run[i])[k]
  <2> DEFINE at == Ends(f, run)[i - 1] + k
  <2>1. at \in Nat /\ at >= 1 /\ at <= n
    <3>1. at \in 1..Ends(f, run)[i] /\ Ends(f, run)[i] \in Nat
      BY FrameWithin
    <3>. HIDE DEF at
    <3>2. at <= Len(cut)
      BY <1>3 DEF at
    <3>. QED BY <1>2, <3>1, <3>2
  <2>2. bytes[at] = Frame(f, run[i])[k]
    BY DEF Holds
  <2>. HIDE DEF at, cut
  <2>3. cut[at] = bytes[at]
    BY <1>1, <1>2, <2>1
  <2>. QED BY <2>2, <2>3 DEF at
<1>. QED BY <1>3 DEF Agrees

-----------------------------------------------------------------------------
(* Reading a run of frames. *)

Laid(f, run, bytes) ==
    \A i \in 1..Len(run) : Agrees(bytes, Ends(f, run)[i - 1], Frame(f, run[i]))

\* What is read is these payloads first and then the rest.
Follows(whole, first, rest) ==
    whole = [payloads |-> first \o rest.payloads, end |-> rest.end]

\* Three runs of payloads one after the other.
LEMMA RunsAssociative ==
    ASSUME NEW x \in Seq(Seq(Byte)), NEW y \in Seq(Seq(Byte)), NEW s \in Seq(Seq(Byte))
    PROVE  (x \o y) \o s = x \o (y \o s)
OBVIOUS

\* Two runs of payloads one after the other.
LEMMA FollowsOn ==
    ASSUME NEW a, NEW b, NEW c \in Readings, NEW x \in Seq(Seq(Byte)), NEW y \in Seq(Seq(Byte)),
           Follows(a, x, b), Follows(b, y, c)
    PROVE  Follows(a, x \o y, c)
<1> DEFINE s == c.payloads
<1>1. s \in Seq(Seq(Byte))
  BY DEF Readings
<1>2. a = [payloads |-> x \o b.payloads, end |-> b.end] /\ b = [payloads |-> y \o s, end |-> c.end]
  BY DEF Follows
<1>. HIDE DEF s
<1>3. (x \o y) \o s = x \o (y \o s)
  BY <1>1, RunsAssociative
<1>4. b.payloads = y \o s /\ b.end = c.end
  BY <1>2
<1>5. a = [payloads |-> (x \o y) \o s, end |-> c.end]
  BY <1>2, <1>3, <1>4
<1>. QED BY <1>5 DEF Follows, s

\* No payload at all.
LEMMA FollowsNone ==
    ASSUME NEW a \in Readings
    PROVE  Follows(a, <<>>, a)
<1>1. a.payloads \in Seq(Seq(Byte)) /\ a = [payloads |-> a.payloads, end |-> a.end]
  BY DEF Readings
<1>2. <<>> \o a.payloads = a.payloads
  BY <1>1
<1>. QED BY <1>1, <1>2 DEF Follows

\* The first n frames of the run are all there, and no payload in them is too long.
Legible(f, run, bytes, max, n) ==
    /\ Run(f, run) /\ Reading(f, bytes, max) /\ Laid(f, run, bytes)
    /\ n \in 0..Len(run) /\ Ends(f, run)[n] <= Len(bytes)
    /\ \A i \in 1..n : Len(run[i]) <= max

\* Then a reader is given these payloads, and goes on behind them.
LEMMA RunRead ==
    ASSUME NEW f, NEW run, NEW bytes, NEW max, NEW n, Legible(f, run, bytes, max, n),
           NEW g, Gathers(f, bytes, max, g)
    PROVE  /\ Ends(f, run)[n] \in 0..Len(bytes)
           /\ Follows(g[0], SubSeq(run, 1, n), g[Ends(f, run)[n]])
<1> DEFINE E == Ends(f, run)
           top == Len(bytes)
           S == {m \in Nat : m <= n => Follows(g[0], SubSeq(run, 1, m), g[E[m]])}
<1>0. /\ Run(f, run) /\ Reading(f, bytes, max) /\ Laid(f, run, bytes)
      /\ n \in 0..Len(run) /\ Ends(f, run)[n] <= Len(bytes)
      /\ \A i \in 1..n : Len(run[i]) <= max
  BY DEF Legible
<1>. USE <1>0
<1>1. /\ IsFormat(f) /\ bytes \in Seq(Byte) /\ max \in Nat /\ top \in Nat
      /\ run \in Seq(Seq(Byte)) /\ Len(run) \in Nat /\ n \in Nat /\ n <= Len(run)
  BY LenProperties DEF Reading, Run
<1>2. \A i \in 0..n : E[i] \in 0..top
  <2>1. ASSUME NEW i \in 0..n PROVE E[i] \in Nat /\ E[i] <= E[n] /\ E[n] \in Nat
    <3>1. n \in 0..n
      BY <1>1
    <3>. QED BY <3>1, EndsGrow
  <2>. HIDE DEF E
  <2>2. E[n] <= top
    BY DEF E
  <2>. QED BY <1>1, <2>1, <2>2
<1>3. g \in [0..top -> Readings] /\ \A q \in 0..top : g[q] = Gathered(ReadAndDeframe(f, bytes, q, max), g)
  BY DEF Gathers
<1>4. E[0] = 0
  BY EndsOf
<1>5. 0 \in S
  <2>. HIDE DEF E, top
  <2>1. g[0] \in Readings
    <3>1. 0 \in 0..top
      BY <1>1
    <3>. QED BY <1>3, <3>1
  <2>2. SubSeq(run, 1, 0) = <<>>
    BY <1>1
  <2>3. Follows(g[0], SubSeq(run, 1, 0), g[0])
    BY <2>1, <2>2, FollowsNone
  <2>. QED BY <1>4, <2>3
<1>6. ASSUME NEW m \in S, m < n PROVE m + 1 \in S
  <2> DEFINE i == m + 1
             p == run[i]
             got == ReadAndDeframe(f, bytes, E[m], max)
  <2>1. m \in Nat /\ m <= n /\ m \in 0..n /\ i \in 1..n /\ i \in 0..n /\ i \in 1..Len(run) /\ i - 1 = m
    BY <1>1, <1>6
  <2>2. Follows(g[0], SubSeq(run, 1, m), g[E[m]])
    BY <2>1
  <2>3. /\ Framed(f, p) /\ Fits(p) /\ Len(p) <= max
        /\ E[m] \in 0..top /\ E[i] \in 0..top
        /\ Agrees(bytes, E[m], Frame(f, p))
        /\ E[i] = E[m] + Len(Frame(f, p))
    <3>. HIDE DEF i
    <3>1. Ends(f, run)[i] = Ends(f, run)[i - 1] + Len(Frame(f, run[i]))
      BY <2>1, EndsOf
    <3>. QED BY <1>2, <2>1, <3>1 DEF Run, Laid
  <2>4. /\ E[i] = E[m] + HeaderSize(f) + Len(p) /\ HeaderSize(f) \in Nat /\ Len(p) \in Nat
    <3> DEFINE a == E[m]
               b == HeaderSize(f)
               c == Len(p)
    <3>1. p \in Seq(Byte) /\ c \in Nat
      BY <2>3, LenProperties DEF Framed
    <3>2. Len(Frame(f, p)) = b + c /\ b \in Nat
      BY <2>3, FrameShape, Fields
    <3>3. a \in Nat /\ E[i] = a + (b + c)
      BY <1>1, <2>3, <3>2
    <3>. HIDE DEF a, b, c
    <3>4. E[i] = a + b + c
      BY <3>1, <3>2, <3>3
    <3>. QED BY <3>1, <3>2, <3>4 DEF a, b, c
  <2>5. got = Some(p, E[i])
    <3> DEFINE a == E[m]
    <3>. HIDE DEF p, i, a, E, top
    <3>1. a \in 0..Len(bytes) /\ Agrees(bytes, a, Frame(f, p)) /\ a + HeaderSize(f) + Len(p) <= Len(bytes)
      BY <1>1, <2>3, <2>4 DEF a, top
    <3>2. ReadAndDeframe(f, bytes, a, max) = Some(p, a + HeaderSize(f) + Len(p))
      BY <1>1, <2>3, <3>1, ReadOne
    <3>. QED BY <2>4, <3>2 DEF a
  <2>6. Follows(g[E[m]], <<p>>, g[E[i]])
    <3>. HIDE DEF E, i, p
    <3>1. g[E[m]] = Gathered(Some(p, E[i]), g)
      BY <1>3, <2>3, <2>5
    <3>. QED BY <3>1 DEF Gathered, Some, Follows
  <2>7. SubSeq(run, 1, i) = SubSeq(run, 1, m) \o <<p>> /\ SubSeq(run, 1, m) \in Seq(Seq(Byte))
        /\ <<p>> \in Seq(Seq(Byte)) /\ g[E[i]] \in Readings
    <3>1. p \in Seq(Byte) /\ g[E[i]] \in Readings
      BY <1>3, <2>3 DEF Framed
    <3>. QED BY <1>1, <2>1, <3>1
  <2>8. Follows(g[0], SubSeq(run, 1, i), g[E[i]])
    <3> DEFINE x == SubSeq(run, 1, m)
               y == <<p>>
    <3>. HIDE DEF E, i, p, x, y
    <3>1. Follows(g[0], x \o y, g[E[i]])
      BY <2>2, <2>6, <2>7, FollowsOn DEF x, y
    <3>. QED BY <2>7, <3>1 DEF x, y
  <2>. HIDE DEF E
  <2>. QED BY <2>1, <2>8
<1>7. n \in S
  <2>1. S \in SUBSET Nat
    OBVIOUS
  <2>. HIDE DEF S
  <2>. QED BY <1>1, <1>5, <1>6, <2>1, CountUp
<1>8. E[n] \in 0..top /\ Follows(g[0], SubSeq(run, 1, n), g[E[n]])
  <2>1. n \in 0..n /\ n <= n
    BY <1>1
  <2>. HIDE DEF E, top
  <2>. QED BY <1>2, <1>7, <2>1
<1>. QED BY <1>8 DEF E, top

\* If there is nothing to be had behind them, they are all.
LEMMA RunEnds ==
    ASSUME NEW f, NEW run, NEW bytes, NEW max, NEW n, Legible(f, run, bytes, max, n),
           NEW kind, kind # "Some", ReadAndDeframe(f, bytes, Ends(f, run)[n], max) = Result(kind)
    PROVE  ProcessAll(f, bytes, max) = [payloads |-> SubSeq(run, 1, n), end |-> kind]
<1> DEFINE e == Ends(f, run)[n]
<1>1. PICK g : Gathers(f, bytes, max, g) /\ ProcessAll(f, bytes, max) = g[0]
  BY Gathering DEF Legible
<1>2. e \in 0..Len(bytes) /\ Follows(g[0], SubSeq(run, 1, n), g[e])
  BY <1>1, RunRead
<1>3. ReadAndDeframe(f, bytes, e, max) = Result(kind)
  OBVIOUS
<1>. HIDE DEF e
<1>4. g[e] = [payloads |-> <<>>, end |-> kind]
  <2>1. g[e] = Gathered(Result(kind), g)
    BY <1>1, <1>2, <1>3 DEF Gathers
  <2>. QED BY <2>1 DEF Gathered, Result
<1>5. SubSeq(run, 1, n) \o <<>> = SubSeq(run, 1, n)
  BY DEF Run, Legible
<1>. QED BY <1>1, <1>2, <1>4, <1>5 DEF Follows

\* Whatever is behind them, they come first.
LEMMA RunFirst ==
    ASSUME NEW f, NEW run, NEW bytes, NEW max, Legible(f, run, bytes, max, Len(run))
    PROVE  IsPrefix(run, ProcessAll(f, bytes, max).payloads)
<1> DEFINE e == Ends(f, run)[Len(run)]
<1>1. PICK g : Gathers(f, bytes, max, g) /\ ProcessAll(f, bytes, max) = g[0]
  BY Gathering DEF Legible
<1>2. run \in Seq(Seq(Byte)) /\ Len(run) \in Nat
  BY LenProperties DEF Run, Legible
<1>3. e \in 0..Len(bytes) /\ Follows(g[0], SubSeq(run, 1, Len(run)), g[e])
  BY <1>1, RunRead
<1>. HIDE DEF e
<1> DEFINE s == g[e].payloads
<1>4. s \in Seq(Seq(Byte))
  <2>1. g[e] \in Readings
    BY <1>1, <1>3 DEF Gathers
  <2>. QED BY <2>1 DEF Readings
<1>5. g[0].payloads = run \o s
  <2>1. SubSeq(run, 1, Len(run)) = run
    BY <1>2, SubSeqFull
  <2>2. Follows(g[0], run, g[e])
    BY <1>3, <2>1
  <2>. QED BY <2>2 DEF Follows
<1>. HIDE DEF s
<1>6. IsPrefix(run, run \o s)
  BY <1>2, <1>4 DEF IsPrefix
<1>. QED BY <1>1, <1>5, <1>6

-----------------------------------------------------------------------------
(* Validators. *)

\* A validator says "ok" or its name.
LEMMA PartVerdicts ==
    ASSUME NEW v, IsPart(v), NEW p
    PROVE  /\ PartVerdict(v, p) \in {"ok", v.name}
           /\ v.name # "ok" /\ v.name # "panic"
<1>1. v.kind \in {"none", "size", "root", "typed"} /\ v.name # "ok" /\ v.name # "panic"
  BY DEF IsPart
<1>2. PartVerdict(v, p) \in {"ok", v.name}
  <2>1. CASE v.kind = "none"
    BY <2>1 DEF PartVerdict
  <2>2. CASE v.kind = "size"
    <3>1. PartVerdict(v, p) = SizeVerdict(v, p)
      BY <2>2 DEF PartVerdict
    <3>. QED BY <3>1 DEF SizeVerdict, Fails
  <2>3. CASE v.kind = "root"
    <3>1. PartVerdict(v, p) = RootVerdict(v, p)
      BY <2>3 DEF PartVerdict
    <3>. QED BY <3>1 DEF RootVerdict, Fails
  <2>4. CASE v.kind = "typed"
    <3>1. PartVerdict(v, p) = TypedVerdict(v, p)
      BY <2>4 DEF PartVerdict
    <3>. QED BY <3>1 DEF TypedVerdict, Fails
  <2>. QED BY <1>1, <2>1, <2>2, <2>3, <2>4
<1>. QED BY <1>1, <1>2

\* A verdict is that of the first of n parts that objects, if one does.
FromFirst(parts, p, n, verdict) ==
    \/ verdict = "ok" /\ \A i \in 1..n : PartVerdict(parts[i], p) = "ok"
    \/ \E i \in 1..n : /\ verdict = PartVerdict(parts[i], p) /\ verdict # "ok"
                       /\ \A j \in 1..(i - 1) : PartVerdict(parts[j], p) = "ok"

\* CompositeValidator runs its parts in order up to the first that fails.
LEMMA FirstFailureIs ==
    ASSUME NEW parts, Len(parts) \in Nat, NEW p
    PROVE  FromFirst(parts, p, Len(parts), FirstFailure(parts, p))
<1> DEFINE n == Len(parts)
           of(i) == PartVerdict(parts[i], p)
           V == {"ok"} \cup {of(i) : i \in 1..n}
           ok == "ok"
           step == [i \in 1..n |-> [v \in V |-> IF v = "ok" THEN of(i) ELSE v]]
           after == CHOOSE g : g = [i \in 0..n |->
                                      IF i = 0 THEN "ok"
                                      ELSE IF g[i - 1] = "ok" THEN PartVerdict(parts[i], p)
                                      ELSE g[i - 1]]
<1>1. n \in Nat
  OBVIOUS
<1>2. FirstFailure(parts, p) = after[n]
  BY DEF FirstFailure
<1>. HIDE DEF n
<1>3. Steps(n, V, ok, step)
  <2>1. \A i \in 1..n : \A v \in V : (IF v = "ok" THEN of(i) ELSE v) \in V
    OBVIOUS
  <2>2. ok \in V
    OBVIOUS
  <2>3. step \in [1..n -> [V -> V]]
    <3>. HIDE DEF V, of
    <3>. QED BY <2>1
  <2>. QED BY <1>1, <2>2, <2>3 DEF Steps
<1>4. PICK g \in [0..n -> V] : g[0] = ok /\ \A i \in 1..n : g[i] = step[i][g[i - 1]]
  <2>. HIDE DEF step, ok, V
  <2>. QED BY <1>3, StepsUp
<1>5. \A i \in 1..n : g[i] = IF g[i - 1] = "ok" THEN of(i) ELSE g[i - 1]
  <2>1. ASSUME NEW i \in 1..n PROVE g[i] = IF g[i - 1] = "ok" THEN of(i) ELSE g[i - 1]
    <3>1. i - 1 \in 0..n
      BY <1>1
    <3>2. g[i - 1] \in V
      BY <1>4, <3>1
    <3>. HIDE DEF V, of
    <3>. QED BY <1>4, <3>2
  <2>. QED BY <2>1
<1>6. g = [i \in 0..n |-> IF i = 0 THEN "ok"
                          ELSE IF g[i - 1] = "ok" THEN PartVerdict(parts[i], p) ELSE g[i - 1]]
  <2>1. ASSUME NEW i \in 0..n
        PROVE  g[i] = IF i = 0 THEN "ok"
                      ELSE IF g[i - 1] = "ok" THEN PartVerdict(parts[i], p) ELSE g[i - 1]
    <3>1. i # 0 => i \in 1..n
      BY <1>1
    <3>. QED BY <1>4, <1>5, <3>1
  <2>. HIDE DEF V
  <2>. QED BY <1>4, <2>1
<1>7. after = [i \in 0..n |-> IF i = 0 THEN "ok"
                              ELSE IF after[i - 1] = "ok" THEN PartVerdict(parts[i], p)
                              ELSE after[i - 1]]
  BY <1>6
<1>. HIDE DEF after
<1>8. after[0] = "ok" /\ \A i \in 1..n : after[i] = IF after[i - 1] = "ok" THEN of(i) ELSE after[i - 1]
  <2>1. 0 \in 0..n /\ \A i \in 1..n : i \in 0..n /\ i # 0
    BY <1>1
  <2>. QED BY <1>7, <2>1
<1> DEFINE S == {m \in Nat : m <= n => FromFirst(parts, p, m, after[m])}
<1>9. 0 \in S
  BY <1>8 DEF FromFirst
<1>10. ASSUME NEW m \in S, m < n PROVE m + 1 \in S
  <2>1. m \in Nat /\ m + 1 \in 1..n /\ m <= n /\ (m + 1) - 1 = m
    BY <1>1, <1>10
  <2>2. FromFirst(parts, p, m, after[m])
    BY <2>1
  <2>3. after[m + 1] = IF after[m] = "ok" THEN of(m + 1) ELSE after[m]
    BY <1>8, <2>1
  <2>4. FromFirst(parts, p, m + 1, after[m + 1])
    <3>1. CASE after[m] = "ok"
      <4>1. \A i \in 1..m : PartVerdict(parts[i], p) = "ok"
        BY <2>2, <3>1 DEF FromFirst
      <4>2. after[m + 1] = PartVerdict(parts[m + 1], p)
        BY <2>3, <3>1
      <4>3. \A i \in 1..(m + 1) : i \in 1..m \/ i = m + 1
        BY <2>1
      <4>4. m + 1 \in 1..(m + 1)
        BY <2>1
      <4>. QED BY <2>1, <4>1, <4>2, <4>3, <4>4 DEF FromFirst
    <3>2. CASE after[m] # "ok"
      <4>1. after[m + 1] = after[m]
        BY <2>3, <3>2
      <4>2. \A i \in 1..m : i \in 1..(m + 1)
        BY <2>1
      <4>. QED BY <2>2, <3>2, <4>1, <4>2 DEF FromFirst
    <3>. QED BY <3>1, <3>2
  <2>. QED BY <2>1, <2>4
<1>11. n \in S
  <2>1. S \in SUBSET Nat
    OBVIOUS
  <2>. HIDE DEF S
  <2>. QED BY <1>1, <1>9, <1>10, <2>1, CountUp
<1>. QED BY <1>1, <1>2, <1>11 DEF n

\* What refuses a payload, in a validator: the first of its parts that objects.
FirstPart(v, p, verdict) ==
    \E i \in DOMAIN Parts(v) :
        /\ verdict = Parts(v)[i].name
        /\ PartVerdict(Parts(v)[i], p) # "ok"
        /\ \A j \in 1..(i - 1) : PartVerdict(Parts(v)[j], p) = "ok"

\* A validator never panics, and a failure is that of the first part that fails.
LEMMA Verdicts ==
    ASSUME NEW v, IsValidator(v), NEW p
    PROVE  /\ Verdict(v, p) # "panic"
           /\ Verdict(v, p) = "ok" \/ FirstPart(v, p, Verdict(v, p))
<1>1. CASE v.kind = "composite"
  <2> DEFINE parts == v.parts
             verdict == Verdict(v, p)
  <2>1. /\ parts \in Seq(Range(parts)) /\ \A part \in Range(parts) : IsPart(part)
    BY <1>1 DEF IsValidator, IsPart
  <2>2. Len(parts) \in Nat /\ DOMAIN parts = 1..Len(parts)
        /\ \A i \in 1..Len(parts) : IsPart(parts[i])
    <3>1. Len(parts) \in Nat /\ DOMAIN parts = 1..Len(parts)
      BY <2>1, LenProperties
    <3>2. \A i \in 1..Len(parts) : parts[i] \in Range(parts)
      BY <2>1, ElementOfSeq
    <3>. QED BY <2>1, <3>1, <3>2
  <2>3. verdict = FirstFailure(parts, p) /\ Parts(v) = parts
    BY <1>1 DEF Verdict, Parts
  <2>. HIDE DEF parts, verdict
  <2>4. FromFirst(parts, p, Len(parts), verdict)
    BY <2>2, <2>3, FirstFailureIs
  <2>5. ASSUME NEW i \in 1..Len(parts), verdict = PartVerdict(parts[i], p), verdict # "ok",
               \A j \in 1..(i - 1) : PartVerdict(parts[j], p) = "ok"
        PROVE  verdict # "panic" /\ FirstPart(v, p, verdict)
    <3>1. verdict = parts[i].name /\ verdict # "panic"
      BY <2>2, <2>5, PartVerdicts
    <3>. QED BY <2>2, <2>3, <2>5, <3>1 DEF FirstPart
  <2>6. \/ verdict = "ok"
        \/ verdict # "panic" /\ FirstPart(v, p, verdict)
    BY <2>4, <2>5 DEF FromFirst
  <2>. QED BY <2>6 DEF verdict
<1>2. CASE v.kind # "composite"
  <2>1. IsPart(v) /\ Verdict(v, p) = PartVerdict(v, p) /\ Parts(v) = <<v>>
    BY <1>2 DEF IsValidator, Verdict, Parts
  <2>2. PartVerdict(v, p) \in {"ok", v.name} /\ v.name # "panic" /\ v.name # "ok"
    BY <2>1, PartVerdicts
  <2>3. 1 \in DOMAIN <<v>> /\ <<v>>[1] = v /\ \A j \in 1..(1 - 1) : FALSE
    OBVIOUS
  <2>. QED BY <2>1, <2>2, <2>3 DEF FirstPart
<1>. QED BY <1>1, <1>2

-----------------------------------------------------------------------------
(* The type invariant. *)

Fitting == {p \in Payloads : Fits(p)}

\* What a call has in hand, and how far the histories have come.
InHand ==
    /\ pc # "idle" => /\ payload \in Payloads
                      /\ attempts # <<>> /\ payload = attempts[Len(attempts)]
    /\ pc = "writing" => Fits(payload)
    /\ pc # "writing" => out = <<>>
Counts ==
    /\ Len(accepted) <= calls
    /\ pc # "idle" => Len(accepted) < calls
    /\ kept # NoFault => kept <= Len(accepted)
Typed ==
    /\ TypeOK
    /\ observed \in [DOMAIN stack -> Seq(Payloads)]
    /\ accepted \in Seq(Fitting)
    /\ InHand
    /\ Counts

\* What the assumptions say of the format and the framer of a state.
LEMMA Given ==
    ASSUME Typed
    PROVE  /\ IsFormat(format)
           /\ stack \in Seq(Range(stack)) /\ \A k \in 1..Len(stack) : IsAdapter(stack[k])
           /\ Len(stack) \in Nat /\ DOMAIN stack = 1..Len(stack)
           /\ \A p \in Payloads \cup {<<>>} : Framed(format, p)
           /\ Payloads \subseteq Seq(Byte)
           /\ MaxWrites \in Nat /\ MaxFaults \in Nat
<1>1. format \in Formats /\ stack \in Stacks
  BY DEF Typed, TypeOK
<1>2. IsFormat(format) /\ IsFramer(stack) /\ MaxWrites \in Nat /\ MaxFaults \in Nat
      /\ Payloads \subseteq Seq(Byte)
      /\ \A p \in Payloads \cup {<<>>} : Calculate(format.alg, p) \in 0..MaxU64
  BY <1>1, WriteStackAssumption
<1>3. stack \in Seq(Range(stack)) /\ \A adapter \in Range(stack) : IsAdapter(adapter)
  BY <1>2 DEF IsFramer
<1>4. Len(stack) \in Nat /\ DOMAIN stack = 1..Len(stack)
      /\ \A k \in 1..Len(stack) : stack[k] \in Range(stack)
  BY <1>3, LenProperties, ElementOfSeq
<1>5. <<>> \in Seq(Byte)
  OBVIOUS
<1>. QED BY <1>2, <1>3, <1>4, <1>5 DEF Framed

\* What a call returns.
LEMMA EndedKind ==
    ASSUME NEW kind, NEW by
    PROVE  Ended(kind, by).kind = kind /\ Ended(kind, by).by = by
BY DEF Ended

\* The kinds of the results that a call may end with.
LEMMA EndedKinds ==
    /\ Ended("Ok", "").kind = "Ok"
    /\ Ended("Io", "").kind = "Io"
    /\ Ended("Serialize", "").kind = "Serialize"
    /\ Ended("InvalidFrame", "").kind = "InvalidFrame"
    /\ \A by : Ended("ValidationFailed", by).kind = "ValidationFailed"
BY EndedKind

\* The inductive type invariant holds at the start.
LEMMA TypesInit == Init => Typed
<1>. SUFFICES ASSUME Init PROVE Typed
  OBVIOUS
<1>1. MaxWrites \in Nat /\ MaxFaults \in Nat /\ IsFramer(stack)
  BY WriteStackAssumption DEF Init
<1>2. Len(stack) \in Nat
  BY <1>1, LenProperties DEF IsFramer
<1>3. /\ <<>> \in Seq(Byte) /\ <<>> \in Seq(Seq(Byte)) /\ <<>> \in Seq(Payloads)
      /\ <<>> \in Seq(Fitting) /\ Len(<<>>) = 0
  OBVIOUS
<1>4. /\ sink = <<>> /\ out = <<>> /\ attempts = <<>> /\ accepted = <<>> /\ payload = <<>>
      /\ pc = "idle" /\ level = 0 /\ calls = 0 /\ faults = 0 /\ kept = NoFault
      /\ result.kind = "none" /\ format \in Formats /\ stack \in Stacks
      /\ observed = [k \in DOMAIN stack |-> <<>>]
  BY DEF Init, Ended
<1>5. observed \in [DOMAIN stack -> Seq(Payloads)] /\ DOMAIN observed = DOMAIN stack
  BY <1>3, <1>4
<1>6. TypeOK
  BY <1>1, <1>2, <1>3, <1>4, <1>5 DEF TypeOK
<1>7. InHand /\ Counts
  BY <1>3, <1>4 DEF InHand, Counts
<1>. QED BY <1>3, <1>4, <1>5, <1>6, <1>7 DEF Typed

\* One step per action.
LEMMA TypesNext == Typed /\ [Next]_vars => Typed'
<1>. SUFFICES ASSUME Typed, [Next]_vars PROVE Typed'
  OBVIOUS
<1>1. /\ format \in Formats /\ stack \in Stacks /\ sink \in Seq(Byte)
      /\ pc \in {"idle", "stack", "writing"}
      /\ level \in 0..Len(stack) /\ payload \in Payloads \cup {<<>>} /\ out \in Seq(Seq(Byte))
      /\ result.kind \in {"none", "Ok", "Serialize", "InvalidFrame", "ValidationFailed", "Io"}
      /\ calls \in 0..MaxWrites /\ faults \in 0..MaxFaults
      /\ attempts \in Seq(Payloads) /\ accepted \in Seq(Payloads)
      /\ kept \in {NoFault} \cup 0..MaxWrites /\ DOMAIN observed = DOMAIN stack
      /\ observed \in [DOMAIN stack -> Seq(Payloads)] /\ accepted \in Seq(Fitting)
  BY DEF Typed, TypeOK
<1>2. /\ IsFormat(format) /\ \A k \in 1..Len(stack) : IsAdapter(stack[k])
      /\ Len(stack) \in Nat /\ DOMAIN stack = 1..Len(stack)
      /\ \A p \in Payloads \cup {<<>>} : Framed(format, p)
      /\ Payloads \subseteq Seq(Byte) /\ MaxWrites \in Nat /\ MaxFaults \in Nat
  BY Given
<1>3. InHand /\ Counts /\ Len(accepted) \in Nat
  BY <1>1, LenProperties DEF Typed
<1>4. CASE UNCHANGED vars
  <2>1. TypeOK'
    BY <1>1, <1>4 DEF TypeOK, vars, callVars, historyVars
  <2>2. InHand' /\ Counts'
    BY <1>3, <1>4 DEF InHand, Counts, vars, callVars, historyVars
  <2>. QED BY <1>1, <1>4, <2>1, <2>2 DEF Typed, Fitting, Fits, vars, callVars, historyVars
<1>5. ASSUME NEW p \in Payloads, StartWrite(p) PROVE Typed'
  <2>1. attempts' \in Seq(Payloads) /\ attempts' # <<>> /\ attempts'[Len(attempts')] = p
    <3>1. attempts' = Append(attempts, p) /\ attempts \in Seq(Payloads) /\ Len(attempts) \in Nat
      BY <1>1, <1>5, LenProperties DEF StartWrite
    <3>. QED BY <3>1, AppendProperties
  <2>2. calls' \in 0..MaxWrites /\ calls' = calls + 1 /\ calls \in Nat
    BY <1>1, <1>2, <1>5 DEF StartWrite
  <2>3. TypeOK'
    BY <1>1, <1>2, <1>5, <2>1, <2>2 DEF TypeOK, StartWrite
  <2>4. InHand'
    BY <1>3, <1>5, <2>1 DEF InHand, StartWrite
  <2>5. Counts'
    BY <1>3, <1>5, <2>2 DEF Counts, StartWrite
  <2>. QED BY <1>1, <1>5, <2>3, <2>4, <2>5 DEF Typed, StartWrite, Fitting, Fits
<1>6. CASE SerializeFails
  <2>2. calls' \in 0..MaxWrites /\ calls' = calls + 1 /\ calls \in Nat
    <3>1. calls < MaxWrites /\ calls' = calls + 1 /\ calls \in 0..MaxWrites
      BY <1>1, <1>6 DEF SerializeFails
    <3>. QED BY <1>2, <3>1
  <2>3. TypeOK'
    <3>1. result'.kind = "Serialize"
      BY <1>6, EndedKinds DEF SerializeFails, Return
    <3>2. pc' = "idle" /\ UNCHANGED <<format, stack, sink, level, payload, out, faults, historyVars>>
      BY <1>6 DEF SerializeFails, Return
    <3>. QED BY <1>1, <2>2, <3>1, <3>2 DEF TypeOK, historyVars
  <2>4. InHand'
    BY <1>3, <1>6 DEF InHand, SerializeFails, Return, historyVars
  <2>5. Counts'
    <3>1. UNCHANGED <<accepted, kept>> /\ pc' = "idle"
      BY <1>6 DEF SerializeFails, Return, historyVars
    <3>. QED BY <1>3, <2>2, <3>1 DEF Counts
  <2>. QED BY <1>1, <1>6, <2>3, <2>4, <2>5 DEF Typed, SerializeFails, Fitting, Fits, historyVars
<1>7. ASSUME pc = "stack", level' \in 0..Len(stack), pc' \in {"stack", "idle"},
             result'.kind \in {"none", "Ok", "Serialize", "InvalidFrame", "ValidationFailed", "Io"},
             UNCHANGED <<format, stack, sink, payload, out, calls, faults, historyVars>>
      PROVE  Typed'
  <2>1. TypeOK'
    BY <1>1, <1>2, <1>7 DEF TypeOK, historyVars
  <2>2. InHand' /\ Counts'
    BY <1>3, <1>7 DEF InHand, Counts, historyVars
  <2>. QED BY <1>1, <1>7, <2>1, <2>2 DEF Typed, Fitting, Fits, historyVars
<1>8. CASE Bound
  <2>1. /\ pc = "stack" /\ level < Len(stack)
        /\ \/ level' = level + 1 /\ UNCHANGED <<pc, result>>
           \/ result' = Ended("InvalidFrame", "") /\ pc' = "idle" /\ UNCHANGED level
        /\ UNCHANGED <<format, stack, sink, payload, out, calls, faults, historyVars>>
    BY <1>8 DEF Bound, AtAdapter, Return
  <2>2. level' \in 0..Len(stack)
    <3>1. level \in 0..Len(stack) /\ level < Len(stack) /\ (level' = level \/ level' = level + 1)
      BY <1>1, <2>1
    <3>. QED BY <1>2, <3>1
  <2>3. pc' \in {"stack", "idle"}
        /\ result'.kind \in {"none", "Ok", "Serialize", "InvalidFrame", "ValidationFailed", "Io"}
    <3>1. result' = result \/ result' = Ended("InvalidFrame", "")
      BY <2>1
    <3>2. result' = result => result'.kind = result.kind
      OBVIOUS
    <3>3. result' = Ended("InvalidFrame", "") => result'.kind = "InvalidFrame"
      BY EndedKinds
    <3>4. pc' = pc \/ pc' = "idle"
      BY <2>1
    <3>5. pc = "stack"
      BY <2>1
    <3>. QED BY <1>1, <3>1, <3>2, <3>3, <3>4, <3>5
  <2>. QED BY <1>7, <2>1, <2>2, <2>3
<1>9. CASE Validate
  <2>0. /\ pc = "stack" /\ level < Len(stack) /\ Adapter.kind = "validate"
        /\ UNCHANGED <<format, stack, sink, payload, out, calls, faults, historyVars>>
    BY <1>9 DEF Validate, AtAdapter
  <2>1. /\ pc = "stack" /\ level + 1 \in 1..Len(stack) /\ Adapter.kind = "validate"
        /\ UNCHANGED <<format, stack, sink, payload, out, calls, faults, historyVars>>
    BY <1>1, <1>2, <2>0
  <2>2. IsValidator(Adapter.validator)
    <3>1. IsAdapter(Adapter)
      BY <1>2, <2>1 DEF Adapter
    <3>. QED BY <2>1, <3>1 DEF IsAdapter
  <2> DEFINE verdict == Verdict(Adapter.validator, payload)
  <2>3. verdict # "panic"
    BY <2>2, Verdicts
  <2>4. \/ verdict = "ok" /\ level' = level + 1 /\ UNCHANGED <<pc, result>>
        \/ Return("ValidationFailed", verdict) /\ UNCHANGED level
    BY <1>9, <2>3 DEF Validate
  <2>. HIDE DEF verdict
  <2>5. level' \in 0..Len(stack) /\ pc' \in {"stack", "idle"}
        /\ result'.kind \in {"none", "Ok", "Serialize", "InvalidFrame", "ValidationFailed", "Io"}
    <3>1. CASE level' = level + 1 /\ UNCHANGED <<pc, result>>
      BY <1>1, <1>2, <2>1, <3>1
    <3>2. CASE Return("ValidationFailed", verdict) /\ UNCHANGED level
      <4>1. result'.kind = "ValidationFailed" /\ pc' = "idle" /\ level' = level
        BY <3>2, EndedKinds DEF Return
      <4>. QED BY <1>1, <4>1
    <3>. QED BY <2>4, <3>1, <3>2
  <2>. QED BY <1>7, <2>1, <2>5
<1>10. CASE Observe
  <2>1. pc = "stack" /\ level \in Nat /\ level + 1 \in 1..Len(stack) /\ payload \in Payloads
    BY <1>1, <1>2, <1>3, <1>10 DEF Observe, AtAdapter, InHand
  <2>2. observed' = [observed EXCEPT ![level + 1] = @ \o <<payload>>]
    BY <1>10 DEF Observe, Seen
  <2>3. observed[level + 1] \o <<payload>> \in Seq(Payloads)
    <3>1. observed[level + 1] \in Seq(Payloads)
      BY <1>1, <1>2, <2>1
    <3>2. <<payload>> \in Seq(Payloads)
      BY <2>1
    <3>. QED BY <3>1, <3>2, ConcatProperties
  <2>4. observed' \in [DOMAIN stack -> Seq(Payloads)]
    BY <1>1, <2>2, <2>3
  <2>5. DOMAIN observed' = DOMAIN stack'
    BY <1>1, <1>10, <2>2 DEF Observe
  <2>6. TypeOK'
    BY <1>1, <1>2, <1>10, <2>1, <2>5 DEF TypeOK, Observe
  <2>7. InHand' /\ Counts'
    BY <1>3, <1>10 DEF InHand, Counts, Observe
  <2>. QED BY <1>1, <1>10, <2>4, <2>6, <2>7 DEF Typed, Observe, Fitting, Fits
<1>11. CASE StartFrame
  <2>1. payload \in Payloads /\ Slices(format, payload) \in Seq(Seq(Byte))
    BY <1>2, <1>3, <1>11, Fields DEF StartFrame, InHand
  <2>2. pc = "stack" /\ UNCHANGED <<format, stack, sink, level, payload, calls, faults, historyVars>>
    BY <1>11 DEF StartFrame
  <2>3. \/ Fits(payload) /\ out' = Slices(format, payload) /\ pc' = "writing" /\ UNCHANGED result
        \/ result' = Ended("InvalidFrame", "") /\ pc' = "idle" /\ UNCHANGED out
    BY <1>11 DEF StartFrame, Return
  <2>4. TypeOK'
    <3>1. out' \in Seq(Seq(Byte)) /\ pc' \in {"idle", "writing"}
      BY <1>1, <2>1, <2>3
    <3>2. result'.kind \in {"none", "Ok", "Serialize", "InvalidFrame", "ValidationFailed", "Io"}
      <4>1. result' = result \/ result' = Ended("InvalidFrame", "")
        BY <2>3
      <4>2. result' = result => result'.kind = result.kind
        OBVIOUS
      <4>3. result' = Ended("InvalidFrame", "") => result'.kind = "InvalidFrame"
        BY EndedKinds
      <4>. QED BY <1>1, <4>1, <4>2, <4>3
    <3>. QED BY <1>1, <2>2, <3>1, <3>2 DEF TypeOK, historyVars
  <2>5. InHand'
    BY <1>3, <2>2, <2>3 DEF InHand, Fits, historyVars
  <2>6. Counts'
    BY <1>3, <2>2, <2>3 DEF Counts, historyVars
  <2>. QED BY <1>1, <2>2, <2>4, <2>5, <2>6 DEF Typed, Fitting, Fits, historyVars
<1>12. CASE Accept
  <2>1. pc = "writing" /\ out # <<>> /\ sink' = sink \o Head(out) /\ out' = Tail(out)
        /\ UNCHANGED <<format, stack, pc, level, payload, result, calls, faults, historyVars>>
    BY <1>12 DEF Accept
  <2>2. Head(out) \in Seq(Byte) /\ Tail(out) \in Seq(Seq(Byte))
    BY <1>1, <2>1, HeadTailProperties
  <2>3. sink' \in Seq(Byte)
    BY <1>1, <2>1, <2>2, Glued
  <2>4. TypeOK'
    BY <1>1, <2>1, <2>2, <2>3 DEF TypeOK, historyVars
  <2>5. InHand' /\ Counts'
    BY <1>3, <2>1 DEF InHand, Counts, Fits, historyVars
  <2>. QED BY <1>1, <2>1, <2>4, <2>5 DEF Typed, Fitting, Fits, historyVars
<1>13. CASE FinishWrite
  <2>1. /\ pc = "writing" /\ out = <<>> /\ accepted' = Append(accepted, payload)
        /\ result' = Ended("Ok", "") /\ pc' = "idle"
        /\ UNCHANGED <<format, stack, sink, level, payload, out, calls, faults, attempts, kept,
                       observed>>
    BY <1>13 DEF FinishWrite, Return
  <2>2. payload \in Fitting
    BY <1>3, <2>1 DEF InHand, Fitting
  <2>3. accepted' \in Seq(Fitting) /\ accepted' \in Seq(Payloads) /\ Len(accepted') = Len(accepted) + 1
    <3>1. accepted \in Seq(Fitting) /\ accepted \in Seq(Payloads) /\ payload \in Payloads
      BY <1>1, <2>2 DEF Fitting
    <3>2. Append(accepted, payload) \in Seq(Fitting)
      BY <2>2, <3>1, AppendProperties
    <3>3. /\ Append(accepted, payload) \in Seq(Payloads)
          /\ Len(Append(accepted, payload)) = Len(accepted) + 1
      BY <3>1, AppendProperties
    <3>. QED BY <2>1, <3>2, <3>3
  <2>4. TypeOK'
    <3>1. result'.kind = "Ok"
      BY <2>1, EndedKinds
    <3>. QED BY <1>1, <2>1, <2>3, <3>1 DEF TypeOK
  <2>5. InHand'
    BY <1>3, <2>1 DEF InHand
  <2>6. Counts'
    <3>1. Len(accepted) < calls /\ calls \in Nat /\ (kept # NoFault => kept <= Len(accepted))
          /\ (kept # NoFault => kept \in Nat)
      <4>1. Len(accepted) < calls /\ (kept # NoFault => kept <= Len(accepted))
        BY <1>3, <2>1 DEF Counts
      <4>2. calls \in 0..MaxWrites /\ (kept # NoFault => kept \in 0..MaxWrites)
        BY <1>1
      <4>. QED BY <1>2, <4>1, <4>2
    <3>2. Len(accepted) + 1 <= calls /\ (kept # NoFault => kept <= Len(accepted) + 1)
      BY <1>3, <3>1
    <3>. QED BY <2>1, <2>3, <3>2 DEF Counts
  <2>. QED BY <1>1, <2>1, <2>3, <2>4, <2>5, <2>6 DEF Typed, Fitting, Fits
<1>14. ASSUME NEW n \in 0..MaxU32, SinkFails(n) PROVE Typed'
  <2>1. /\ pc = "writing" /\ out # <<>> /\ n < Len(Head(out)) /\ faults < MaxFaults
        /\ faults' = faults + 1 /\ sink' = sink \o SubSeq(Head(out), 1, n) /\ out' = <<>>
        /\ kept' = (IF kept = NoFault THEN Len(accepted) ELSE kept)
        /\ result' = Ended("Io", "") /\ pc' = "idle"
        /\ UNCHANGED <<format, stack, level, payload, calls, attempts, accepted, observed>>
    BY <1>14 DEF SinkFails, Return
  <2>2. SubSeq(Head(out), 1, n) \in Seq(Byte)
    <3> DEFINE slice == Head(out)
    <3>1. slice \in Seq(Byte)
      BY <1>1, <2>1, HeadTailProperties
    <3>2. n \in Nat
      BY Places DEF MaxU32
    <3>3. n < Len(slice) /\ Len(slice) \in Nat
      BY <2>1, <3>1, LenProperties
    <3>. HIDE DEF slice
    <3>4. SubSeq(slice, 1, n) \in Seq(Byte)
      BY <3>1, <3>2, <3>3
    <3>. QED BY <3>4 DEF slice
  <2>3. sink' \in Seq(Byte)
    BY <1>1, <2>1, <2>2, Glued
  <2>4. Len(accepted) \in 0..MaxWrites /\ Len(accepted) \in Nat
    BY <1>1, <1>2, <1>3 DEF Counts
  <2>5. TypeOK'
    <3>1. faults \in 0..MaxFaults /\ faults < MaxFaults /\ faults' = faults + 1
      BY <1>1, <2>1
    <3>2. faults' \in 0..MaxFaults
      BY <1>2, <3>1
    <3>3. kept' \in {NoFault} \cup 0..MaxWrites
      BY <1>1, <2>1, <2>4
    <3>4. <<>> \in Seq(Seq(Byte)) /\ result'.kind = "Io"
      <4>1. result' = Ended("Io", "")
        BY <2>1
      <4>2. result'.kind = "Io"
        BY <4>1, EndedKinds
      <4>3. <<>> \in Seq(Seq(Byte))
        OBVIOUS
      <4>. QED BY <4>2, <4>3
    <3>. QED BY <1>1, <2>1, <2>3, <3>2, <3>3, <3>4 DEF TypeOK
  <2>6. InHand'
    BY <1>3, <2>1 DEF InHand
  <2>7. Counts'
    <3>1. /\ Len(accepted) < calls /\ Len(accepted) <= calls
          /\ kept # NoFault => kept <= Len(accepted)
      BY <1>3, <2>1 DEF Counts
    <3>2. kept' <= Len(accepted)
      <4>1. kept' = (IF kept = NoFault THEN Len(accepted) ELSE kept)
        BY <2>1
      <4>2. Len(accepted) <= Len(accepted)
        BY <2>4
      <4>. QED BY <3>1, <4>1, <4>2
    <3>. QED BY <2>1, <3>1, <3>2 DEF Counts
  <2>. QED BY <1>1, <2>1, <2>5, <2>6, <2>7 DEF Typed, Fitting, Fits
<1>. QED BY <1>4, <1>5, <1>6, <1>8, <1>9, <1>10, <1>11, <1>12, <1>13, <1>14 DEF Next

\* And always.
LEMMA AlwaysTypes == Spec => []Typed
<1>. QED BY TypesInit, TypesNext, PTL DEF Spec

(***************************************************************************)
(* The types of the state; and no call ever panics, whatever validators    *)
(* are put around the framer: each says "ok" or its name.                  *)
(***************************************************************************)
THEOREM TypeCorrect == Spec => []TypeOK
<1>1. Typed => TypeOK
  BY DEF Typed
<1>. QED BY <1>1, AlwaysTypes, PTL

-----------------------------------------------------------------------------
(* What lies in the sink. *)

\* The payloads whose frames a reader must be able to read; and, before the sink first
\* fails, all of those whose frames are in the sink or on their way to it.
Whole == IF kept = NoFault THEN accepted ELSE SubSeq(accepted, 1, kept)
Begun == IF pc = "writing" THEN Append(accepted, payload) ELSE accepted
Layout ==
    /\ Holds(format, Whole, sink)
    /\ kept = NoFault => Exactly(format, Begun, sink \o Joined(out))

\* The format can frame what its framer has been given.
LEMMA FittingRun ==
    ASSUME Typed, NEW run \in Seq(Fitting)
    PROVE  Run(format, run)
<1>1. /\ Payloads \subseteq Seq(Byte) /\ Framed(format, <<>>)
      /\ \A p \in Payloads : Framed(format, p)
  BY Given
<1>2. \A i \in 1..Len(run) : run[i] \in Fitting
  BY ElementOfSeq
<1>3. run \in Seq(Seq(Byte))
  <2>1. Fitting \subseteq Seq(Byte)
    BY <1>1 DEF Fitting
  <2> DEFINE T == Seq(Byte)
  <2>. HIDE DEF T
  <2>2. run \in Seq(T)
    BY <2>1 DEF T
  <2>. QED BY <2>2 DEF T
<1>. QED BY <1>1, <1>2, <1>3 DEF Run, Fitting

\* The accepted payloads and the one being written, as runs of the format.
LEMMA Runs ==
    ASSUME Typed
    PROVE  /\ Whole \in Seq(Fitting) /\ Begun \in Seq(Fitting) /\ accepted \in Seq(Fitting)
           /\ Run(format, Whole) /\ Run(format, Begun) /\ Run(format, accepted)
           /\ sink \in Seq(Byte) /\ out \in Seq(Seq(Byte)) /\ Joined(out) \in Seq(Byte)
           /\ Len(accepted) \in Nat /\ (kept # NoFault => kept \in 0..Len(accepted))
<1>1. /\ accepted \in Seq(Fitting) /\ sink \in Seq(Byte) /\ out \in Seq(Seq(Byte))
      /\ Len(accepted) \in Nat
  BY LenProperties DEF Typed, TypeOK
<1>2. kept # NoFault => kept \in 0..Len(accepted)
  <2>1. kept \in {NoFault} \cup 0..MaxWrites /\ (kept # NoFault => kept <= Len(accepted))
    BY DEF Typed, TypeOK, Counts
  <2>2. MaxWrites \in Nat
    BY Given
  <2>. QED BY <1>1, <2>1, <2>2
<1>3. Whole \in Seq(Fitting)
  <2>1. kept # NoFault => SubSeq(accepted, 1, kept) \in Seq(Fitting)
    BY <1>1, <1>2
  <2>. QED BY <1>1, <2>1 DEF Whole
<1>4. Begun \in Seq(Fitting)
  <2>1. pc = "writing" => payload \in Fitting
    BY DEF Typed, InHand, Fitting
  <2>2. pc = "writing" => Append(accepted, payload) \in Seq(Fitting)
    BY <1>1, <2>1, AppendProperties
  <2>. QED BY <1>1, <2>2 DEF Begun
<1>. QED BY <1>1, <1>2, <1>3, <1>4, FittingRun, JoinedParts

\* The layout of the sink at the start: no frame in no byte.
LEMMA LayoutInit == Init => Layout
<1>. SUFFICES ASSUME Init PROVE Layout
  OBVIOUS
<1>1. accepted = <<>> /\ sink = <<>> /\ out = <<>> /\ pc = "idle" /\ kept = NoFault
  BY DEF Init
<1>2. Whole = <<>> /\ Begun = <<>>
  BY <1>1 DEF Whole, Begun
<1>3. Typed
  BY TypesInit
<1>4. Joined(<<>>) = <<>> /\ <<>> \o <<>> = <<>> /\ Len(<<>>) = 0
  <2>1. <<>> \in Seq(Seq(Byte))
    OBVIOUS
  <2>2. Joined(<<>>) = <<>>
    BY <2>1, JoinedParts
  <2>3. <<>> \o <<>> = <<>> /\ Len(<<>>) = 0
    OBVIOUS
  <2>. QED BY <2>2, <2>3
<1>5. Ends(format, <<>>)[0] = 0
  BY <1>2, <1>3, Runs, EndsOf
<1>6. Exactly(format, <<>>, <<>>) /\ Holds(format, <<>>, <<>>)
  BY <1>4, <1>5 DEF Exactly, Holds
<1>. QED BY <1>1, <1>2, <1>4, <1>6 DEF Layout

\* Where a step leaves the bytes and the payloads alone.
LEMMA LayoutSame ==
    ASSUME Layout, Whole' = Whole, Begun' = Begun, UNCHANGED <<format, sink, out, kept>>
    PROVE  Layout'
<1>1. Holds(format, Whole, sink)' <=> Holds(format, Whole, sink)
  BY DEF Holds
<1>2. Exactly(format, Begun, sink \o Joined(out))' <=> Exactly(format, Begun, sink \o Joined(out))
  BY DEF Exactly, Holds
<1>. QED BY <1>1, <1>2 DEF Layout

\* Every step of a write keeps the layout.
LEMMA LayoutNext == Typed /\ Typed' /\ Layout /\ [Next]_vars => Layout'
<1>. SUFFICES ASSUME Typed, Typed', Layout, [Next]_vars PROVE Layout'
  OBVIOUS
<1>1. /\ Run(format, Whole) /\ Run(format, Begun) /\ Run(format, accepted)
      /\ sink \in Seq(Byte) /\ out \in Seq(Seq(Byte)) /\ Joined(out) \in Seq(Byte)
      /\ Len(accepted) \in Nat /\ (kept # NoFault => kept \in 0..Len(accepted))
      /\ accepted \in Seq(Fitting)
  BY Runs
<1>2. Run(format', Begun') /\ Run(format', Whole')
  <2>1. Typed' => (Run(format, Begun) /\ Run(format, Whole))'
    BY Runs, PTL
  <2>. QED BY <2>1
<1>3. /\ Holds(format, Whole, sink)
      /\ kept = NoFault => Exactly(format, Begun, sink \o Joined(out))
  BY DEF Layout
<1>4. ASSUME UNCHANGED <<format, sink, out, kept, accepted>>, pc # "writing", pc' # "writing"
      PROVE  Layout'
  BY <1>4, LayoutSame DEF Whole, Begun
<1>5. CASE UNCHANGED vars
  BY <1>5, LayoutSame DEF Whole, Begun, vars, callVars, historyVars
<1>6. ASSUME NEW p \in Payloads, StartWrite(p) PROVE Layout'
  BY <1>4, <1>6 DEF StartWrite
<1>7. CASE SerializeFails
  BY <1>4, <1>7 DEF SerializeFails, Return, historyVars
<1>8. CASE Bound
  BY <1>4, <1>8 DEF Bound, AtAdapter, Return, historyVars
<1>9. CASE Validate
  <2>1. pc = "stack" /\ pc' \in {"stack", "idle"}
        /\ UNCHANGED <<format, sink, out, kept, accepted>>
    <3>1. pc = "stack" /\ UNCHANGED <<format, sink, out, kept, accepted>>
      BY <1>9 DEF Validate, AtAdapter, historyVars
    <3>2. UNCHANGED pc \/ pc' = "idle"
      BY <1>9 DEF Validate, Return
    <3>. QED BY <3>1, <3>2
  <2>. QED BY <1>4, <2>1
<1>10. CASE Observe
  BY <1>4, <1>10 DEF Observe, AtAdapter
<1>11. CASE StartFrame
  <2>1. pc = "stack" /\ UNCHANGED <<format, sink, kept, accepted, payload>>
    BY <1>11 DEF StartFrame, historyVars
  <2>2. CASE Fits(payload)
    <3>1. out' = Slices(format, payload) /\ pc' = "writing"
      BY <1>11, <2>2 DEF StartFrame
    <3>2. out = <<>> /\ payload \in Payloads /\ Framed(format, payload)
      BY <2>1, Given DEF Typed, InHand
    <3>3. Begun = accepted /\ Begun' = Append(accepted, payload) /\ Whole' = Whole
      BY <2>1, <3>1 DEF Begun, Whole
    <3>4. Run(format, Append(accepted, payload))
      BY <1>2, <2>1, <3>3
    <3>5. ASSUME kept = NoFault
          PROVE  Exactly(format, Append(accepted, payload), sink \o Frame(format, payload))
      <4>1. sink \o Joined(out) = sink
        <5>1. Joined(out) = <<>>
          BY <1>1, <3>2, JoinedParts
        <5>. QED BY <1>1, <5>1
      <4>2. Exactly(format, accepted, sink)
        BY <1>3, <3>3, <3>5, <4>1
      <4> DEFINE more == Append(accepted, payload)
      <4>3. /\ Len(more) = Len(accepted) + 1 /\ more[Len(accepted) + 1] = payload
            /\ \A i \in 1..Len(accepted) : more[i] = accepted[i]
        <5>1. payload \in Fitting
          BY <2>2, <3>2 DEF Fitting
        <5>. QED BY <1>1, <5>1, AppendProperties
      <4>4. Run(format, more)
        BY <3>4
      <4>. HIDE DEF more
      <4>5. Exactly(format, more, sink \o Frame(format, payload))
        BY <1>1, <3>2, <4>2, <4>3, <4>4, HoldsNext
      <4>. QED BY <4>5 DEF more
    <3>6. Joined(out') = Frame(format, payload)
      BY <3>1 DEF Frame
    <3>. QED BY <1>3, <2>1, <3>3, <3>5, <3>6 DEF Layout
  <2>3. CASE ~Fits(payload)
    BY <1>4, <1>11, <2>1, <2>3 DEF StartFrame, Return
  <2>. QED BY <2>2, <2>3
<1>12. CASE Accept
  <2>1. /\ pc = "writing" /\ out # <<>> /\ sink' = sink \o Head(out) /\ out' = Tail(out)
        /\ UNCHANGED <<format, pc, payload, kept, accepted>>
    BY <1>12 DEF Accept, historyVars
  <2>2. Whole' = Whole /\ Begun' = Begun
    BY <2>1 DEF Whole, Begun
  <2>3. Head(out) \in Seq(Byte) /\ Joined(Tail(out)) \in Seq(Byte)
        /\ Joined(out) = Head(out) \o Joined(Tail(out))
    <3>1. Head(out) \in Seq(Byte) /\ Tail(out) \in Seq(Seq(Byte))
      BY <1>1, <2>1, HeadTailProperties
    <3>. QED BY <1>1, <2>1, <3>1, JoinedParts
  <2>4. sink' \o Joined(out') = sink \o Joined(out)
    <3> DEFINE a == Head(out)
               b == Joined(Tail(out))
    <3>1. a \in Seq(Byte) /\ b \in Seq(Byte) /\ Joined(out) = a \o b
          /\ sink' = sink \o a /\ Joined(out') = b
      BY <2>1, <2>3
    <3>. HIDE DEF a, b
    <3>2. (sink \o a) \o b = sink \o (a \o b)
      BY <1>1, <3>1, ConcatAssociative
    <3>. QED BY <3>1, <3>2
  <2>5. Holds(format, Whole, sink')
    BY <1>1, <1>3, <2>1, <2>3, HoldsOn
  <2>. QED BY <1>3, <2>1, <2>2, <2>4, <2>5 DEF Layout
<1>13. CASE FinishWrite
  <2>1. /\ pc = "writing" /\ out = <<>> /\ accepted' = Append(accepted, payload) /\ pc' = "idle"
        /\ UNCHANGED <<format, sink, out, kept>>
    BY <1>13 DEF FinishWrite, Return
  <2>2. Begun' = Begun /\ Begun = accepted'
    BY <2>1 DEF Begun
  <2>3. CASE kept = NoFault
    <3>1. Joined(out) = <<>> /\ sink \o <<>> = sink
      <4>1. Joined(out) = <<>>
        BY <1>1, <2>1, JoinedParts
      <4>2. sink \o <<>> = sink
        BY <1>1
      <4>. QED BY <4>1, <4>2
    <3>2. Exactly(format, Begun, sink)
      BY <1>3, <2>3, <3>1
    <3>3. Whole' = Begun
      BY <2>1, <2>2, <2>3 DEF Whole
    <3>4. Holds(format, Whole', sink)
      BY <3>2, <3>3 DEF Exactly
    <3>. QED BY <1>3, <2>1, <2>2, <3>4 DEF Layout
  <2>4. CASE kept # NoFault
    <3>1. SubSeq(accepted', 1, kept) = SubSeq(accepted, 1, kept)
      <4>1. payload \in Fitting
        BY <2>1 DEF Typed, InHand, Fitting
      <4>. QED BY <1>1, <2>1, <2>4, <4>1
    <3>2. Whole' = Whole
      BY <2>1, <2>4, <3>1 DEF Whole
    <3>. QED BY <2>1, <2>2, <3>2, LayoutSame
  <2>. QED BY <2>3, <2>4
<1>14. ASSUME NEW n \in 0..MaxU32, SinkFails(n) PROVE Layout'
  <2> DEFINE part == SubSeq(Head(out), 1, n)
  <2>1. /\ pc = "writing" /\ out # <<>> /\ n < Len(Head(out)) /\ sink' = sink \o part
        /\ kept' = (IF kept = NoFault THEN Len(accepted) ELSE kept)
        /\ UNCHANGED <<format, accepted>>
    BY <1>14 DEF SinkFails
  <2>2. part \in Seq(Byte)
    <3> DEFINE slice == Head(out)
    <3>1. slice \in Seq(Byte)
      BY <1>1, <2>1, HeadTailProperties
    <3>2. n \in Nat
      BY Places DEF MaxU32
    <3>3. n < Len(slice) /\ Len(slice) \in Nat
      BY <2>1, <3>1, LenProperties
    <3>. HIDE DEF slice
    <3>4. SubSeq(slice, 1, n) \in Seq(Byte)
      BY <3>1, <3>2, <3>3
    <3>. QED BY <3>4 DEF slice
  <2>. HIDE DEF part
  <2>3. kept' # NoFault
    BY <1>1, <2>1 DEF NoFault
  <2>4. Whole' = Whole
    <3>1. SubSeq(accepted, 1, Len(accepted)) = accepted
      BY <1>1, SubSeqFull
    <3>. QED BY <2>1, <2>3, <3>1 DEF Whole
  <2>5. Holds(format, Whole, sink')
    BY <1>1, <1>3, <2>1, <2>2, HoldsOn
  <2>. QED BY <2>1, <2>3, <2>4, <2>5 DEF Layout
<1>. QED BY <1>5, <1>6, <1>7, <1>8, <1>9, <1>10, <1>11, <1>12, <1>13, <1>14 DEF Next

\* So the sink is laid out like that always.
LEMMA AlwaysLayout == Spec => [](Typed /\ Layout)
<1>1. Init => Typed /\ Layout
  BY TypesInit, LayoutInit
<1>2. Typed /\ Layout /\ [Next]_vars => (Typed /\ Layout)'
  BY TypesNext, LayoutNext
<1>. QED BY <1>1, <1>2, PTL DEF Spec

-----------------------------------------------------------------------------
(* The sink, read back. *)

\* At the end of the bytes there is a clean end, in every format.
LEMMA ReadAtEnd ==
    ASSUME NEW f, IsFormat(f), NEW bytes \in Seq(Byte), NEW max
    PROVE  ReadAndDeframe(f, bytes, Len(bytes), max) = Result("None")
<1>1. f.kind \in {"default", "checksum", "magic"}
  BY DEF IsFormat
<1>2. ASSUME NEW n \in Nat \ {0}
      PROVE  ReadHeader(bytes, Len(bytes), n) = "None"
  <2>1. Len(bytes) \in Nat
    BY LenProperties
  <2>2. ~(Len(bytes) + n <= Len(bytes))
    BY <2>1
  <2>. QED BY <2>1, <2>2 DEF ReadHeader
<1>3. CASE f.kind = "default"
  <2>1. ReadHeader(bytes, Len(bytes), 4) = "None"
    BY <1>2
  <2>. QED BY <1>3, <2>1 DEF ReadAndDeframe, ReadByLength
<1>4. CASE f.kind = "checksum"
  <2>1. 4 + SizeOf(f.alg) \in Nat \ {0}
    BY DEF IsFormat
  <2>2. ReadHeader(bytes, Len(bytes), 4 + SizeOf(f.alg)) = "None"
    <3> DEFINE n == 4 + SizeOf(f.alg)
    <3>. HIDE DEF n
    <3>1. ReadHeader(bytes, Len(bytes), n) = "None"
      BY <1>2, <2>1 DEF n
    <3>. QED BY <3>1 DEF n
  <2>. QED BY <1>4, <2>2 DEF ReadAndDeframe, ReadChecksummed
<1>5. CASE f.kind = "magic"
  <2> DEFINE n == Len(Magic) + 4
  <2>1. n \in Nat \ {0}
    BY FramingAssumption, LenProperties
  <2>. HIDE DEF n
  <2>2. ReadHeader(bytes, Len(bytes), n) = "None"
    BY <1>2, <2>1
  <2>. QED BY <1>5, <2>2 DEF n, ReadAndDeframe, ReadMagic
<1>. QED BY <1>1, <1>3, <1>4, <1>5

\* The least index of a set of them.
LEMMA IndexMinIs ==
    ASSUME NEW S \in SUBSET Nat, S # {}
    PROVE  IndexMin(S) \in S /\ \A i \in S : IndexMin(S) <= i
<1>1. \E i \in S : \A j \in S : i <= j
  BY Least
<1>. QED BY <1>1 DEF IndexMin

\* The greatest index of a bounded set of them.
LEMMA IndexMaxIs ==
    ASSUME NEW n \in Nat, NEW S \in SUBSET (0..n), S # {}
    PROVE  IndexMax(S) \in S /\ \A i \in S : i <= IndexMax(S)
<1> DEFINE T == {m \in Nat : m <= n /\ n - m \in S}
<1>1. PICK i \in S : TRUE
  OBVIOUS
<1>2. n - i \in T
  <2>1. i \in 0..n
    BY <1>1
  <2>2. n - i \in Nat /\ n - i <= n /\ n - (n - i) = i
    BY <2>1
  <2>. QED BY <1>1, <2>2
<1>3. PICK m \in T : \A k \in T : m <= k
  <2>1. T \in SUBSET Nat /\ T # {}
    BY <1>2
  <2>. HIDE DEF T
  <2>. QED BY <2>1, Least
<1>4. ASSUME NEW j \in S PROVE j <= n - m
  <2>1. j \in 0..n /\ n - j \in Nat /\ n - j <= n /\ n - (n - j) = j
    OBVIOUS
  <2>2. n - j \in T
    BY <2>1
  <2>3. m <= n - j /\ m \in Nat
    BY <1>3, <2>2
  <2>. QED BY <2>1, <2>3
<1>5. n - m \in S /\ \A j \in S : n - m >= j
  <2>1. n - m \in S
    BY <1>3
  <2>2. \A j \in S : j \in Nat /\ n - m \in Nat
    BY <2>1
  <2>. QED BY <1>4, <2>1, <2>2
<1>6. \E x \in S : \A j \in S : x >= j
  BY <1>5
<1>7. IndexMax(S) \in S /\ \A j \in S : IndexMax(S) >= j
  BY <1>6 DEF IndexMax
<1>8. \A j \in S : j \in Nat
  OBVIOUS
<1>. QED BY <1>7, <1>8

\* A stream cut after n bytes has w whole frames; a reader's limit is first exceeded by t.
Cut(f, run, n, w) ==
    /\ w \in 0..Len(run) /\ Ends(f, run)[w] <= n
    /\ w < Len(run) => n < Ends(f, run)[w + 1]
FirstLong(run, max, t) ==
    /\ t \in 1..(Len(run) + 1) /\ \A i \in 1..(t - 1) : Len(run[i]) <= max
    /\ t <= Len(run) => Len(run[t]) > max

\* What a reader with a limit makes of the first n bytes of a stream.
LEMMA CutRead ==
    ASSUME NEW f, NEW run, Run(f, run), NEW bytes \in Seq(Byte), Exactly(f, run, bytes),
           NEW n \in 0..Len(bytes), NEW max \in Nat, NEW w, Cut(f, run, n, w),
           NEW t, FirstLong(run, max, t)
    PROVE  LET refused == t <= Len(run) /\ Ends(f, run)[t - 1] + HeaderSize(f) <= n
           IN  ProcessAll(f, SubSeq(bytes, 1, n), max)
                 = [payloads |-> SubSeq(run, 1, IF refused THEN t - 1 ELSE w),
                    end |-> IF refused THEN "InvalidFrame"
                            ELSE IF Ends(f, run)[w] = n THEN "None" ELSE "UnexpectedEof"]
<1> DEFINE E == Ends(f, run)
           N == Len(run)
           h == HeaderSize(f)
           cut == SubSeq(bytes, 1, n)
           refused == t <= N /\ E[t - 1] + h <= n
<1>1. /\ N \in Nat /\ IsFormat(f) /\ h \in Nat /\ h >= 4 /\ w \in 0..N /\ t \in 1..(N + 1)
      /\ Len(bytes) \in Nat /\ n \in Nat /\ n <= Len(bytes) /\ E[N] = Len(bytes)
      /\ \A i \in 1..N : Framed(f, run[i]) /\ Fits(run[i]) /\ Len(run[i]) \in Nat
  <2>1. N \in Nat /\ IsFormat(f) /\ \A i \in 1..N : Framed(f, run[i]) /\ Fits(run[i])
    BY LenProperties DEF Run, Framed
  <2>2. \A i \in 1..N : Len(run[i]) \in Nat
    BY <2>1, LenProperties DEF Framed
  <2>3. h \in Nat /\ h >= 4
    BY Fields DEF Run
  <2>4. Len(bytes) \in Nat /\ n \in Nat /\ n <= Len(bytes)
    BY LenProperties
  <2>. QED BY <2>1, <2>2, <2>3, <2>4 DEF Cut, FirstLong, Exactly
<1>2. cut \in Seq(Byte) /\ Len(cut) = n
  BY <1>1
<1>3. Reading(f, cut, max)
  BY <1>1, <1>2 DEF Reading
<1>4. Laid(f, run, cut)
  BY CutAgrees DEF Laid, Exactly
<1>5. \A i \in 0..N : E[i] \in Nat
  BY EndsOf
<1>6. \A i \in 1..(t - 1) : Len(run[i]) <= max
  BY DEF FirstLong
<1>7. E[w] <= n /\ (w < N => n < E[w + 1])
  BY DEF Cut
<1>8. ASSUME NEW m \in 0..N, m <= t - 1, E[m] <= n, NEW kind, kind # "Some",
             ReadAndDeframe(f, cut, E[m], max) = Result(kind)
      PROVE  ProcessAll(f, cut, max) = [payloads |-> SubSeq(run, 1, m), end |-> kind]
  <2>1. \A i \in 1..m : Len(run[i]) <= max
    BY <1>1, <1>6, <1>8
  <2>2. Legible(f, run, cut, max, m)
    BY <1>2, <1>3, <1>4, <1>8, <2>1 DEF Legible
  <2>. HIDE DEF cut
  <2>. QED BY <1>8, <2>2, RunEnds
<1>9. ASSUME NEW m \in 0..(N - 1), E[m] <= n
      PROVE  LET p == run[m + 1]
                 got == ReadAndDeframe(f, cut, E[m], max)
             IN  /\ E[m] < n /\ n < E[m] + h => got = Result("UnexpectedEof")
                 /\ E[m] + h <= n /\ Len(p) > max => got = Result("InvalidFrame")
                 /\ E[m] + h <= n /\ n < E[m] + h + Len(p) /\ Len(p) <= max
                      => got = Result("UnexpectedEof")
  <2> DEFINE i == m + 1
             p == run[i]
             start == E[m]
  <2>1. i \in 1..N /\ i - 1 = m /\ m \in 0..N
    BY <1>1
  <2>2. Agrees(cut, start, Frame(f, p))
    <3>. HIDE DEF i, cut
    <3>1. Agrees(cut, Ends(f, run)[i - 1], Frame(f, run[i]))
      BY <1>4, <2>1 DEF Laid
    <3>. QED BY <2>1, <3>1
  <2>3. start \in 0..Len(cut) /\ Framed(f, p) /\ Fits(p)
    <3>1. start \in Nat /\ start <= n
      BY <1>5, <1>9, <2>1
    <3>. HIDE DEF i
    <3>. QED BY <1>1, <1>2, <2>1, <3>1
  <2>. HIDE DEF i, p, start, cut
  <2>4. LET got == ReadAndDeframe(f, cut, start, max)
            body == start + HeaderSize(f)
        IN  /\ start = Len(cut) => got = Result("None")
            /\ start < Len(cut) /\ Len(cut) < body => got = Result("UnexpectedEof")
            /\ body <= Len(cut) /\ Len(p) > max => got = Result("InvalidFrame")
            /\ body <= Len(cut) /\ Len(cut) < body + Len(p) /\ Len(p) <= max
                 => got = Result("UnexpectedEof")
            /\ body + Len(p) <= Len(cut) /\ Len(p) <= max => got = Some(p, body + Len(p))
    BY <1>2, <2>2, <2>3, ReadOne
  <2>. QED BY <1>2, <2>4 DEF i, p, start
<1>10. CASE refused
  <2> DEFINE m == t - 1
  <2>1. m \in 0..(N - 1) /\ m \in 0..N /\ m <= t - 1 /\ m + 1 = t /\ E[m] + h <= n
    BY <1>1, <1>10
  <2>2. E[m] <= n
    BY <1>1, <1>5, <2>1
  <2>3. Len(run[t]) > max
    BY <1>10 DEF FirstLong
  <2>. HIDE DEF m, E, cut
  <2>4. ReadAndDeframe(f, cut, E[m], max) = Result("InvalidFrame")
    BY <1>9, <2>1, <2>2, <2>3
  <2>5. ProcessAll(f, cut, max) = [payloads |-> SubSeq(run, 1, m), end |-> "InvalidFrame"]
    BY <1>8, <2>1, <2>2, <2>4
  <2>. QED BY <1>10, <2>5 DEF m, E, cut
<1>11. CASE ~refused
  <2>1. w <= t - 1
    <3>. SUFFICES ASSUME w > t - 1 PROVE FALSE
      BY <1>1
    <3> DEFINE m == t - 1
    <3>1. t \in 1..N /\ t <= N /\ m \in 0..w /\ m < w /\ w \in 0..Len(run) /\ m + 1 = t
      BY <1>1
    <3>2. Ends(f, run)[m] + HeaderSize(f) + Len(run[m + 1]) <= Ends(f, run)[w]
      <4>. HIDE DEF m
      <4>. QED BY <3>1, EndsGrow
    <3> DEFINE a == E[m]
               b == Len(run[t])
               c == E[w]
    <3>3. a \in Nat /\ b \in Nat /\ c \in Nat /\ a + h + b <= c /\ c <= n
      <4>1. m \in 0..N
        BY <1>1, <3>1
      <4>2. a + h + b <= c
        BY <3>1, <3>2
      <4>3. b \in Nat
        BY <1>1, <3>1
      <4>. QED BY <1>1, <1>5, <1>7, <4>1, <4>2, <4>3
    <3>. HIDE DEF a, b, c
    <3>4. a + h <= n
      BY <1>1, <3>3
    <3>. QED BY <1>11, <3>1, <3>4 DEF a
  <2>2. CASE E[w] = n
    <3>1. ReadAndDeframe(f, cut, E[w], max) = Result("None")
      BY <1>1, <1>2, <2>2, ReadAtEnd
    <3>. HIDE DEF E, cut
    <3>2. ProcessAll(f, cut, max) = [payloads |-> SubSeq(run, 1, w), end |-> "None"]
      BY <1>1, <1>7, <1>8, <2>1, <3>1
    <3>. QED BY <1>11, <2>2, <3>2 DEF E, cut
  <2>3. CASE E[w] # n
    <3>1. E[w] < n /\ w \in 0..(N - 1) /\ n < E[w + 1]
      <4>1. E[w] \in Nat /\ E[w] < n
        BY <1>1, <1>5, <1>7, <2>3
      <4>2. w # N
        BY <1>1, <4>1
      <4>. QED BY <1>1, <1>7, <4>1, <4>2
    <3> DEFINE i == w + 1
               p == run[i]
    <3>2. i \in 1..N /\ i - 1 = w /\ E[i] = E[w] + h + Len(p)
      <4>1. i \in 1..N /\ i - 1 = w
        BY <1>1, <3>1
      <4>2. E[i] = E[w] + Len(Frame(f, p))
        <5>. HIDE DEF i
        <5>1. Ends(f, run)[i] = Ends(f, run)[i - 1] + Len(Frame(f, run[i]))
          BY <4>1, EndsOf
        <5>. QED BY <4>1, <5>1
      <4> DEFINE a == E[w]
                 c == Len(p)
      <4>. HIDE DEF i
      <4>3. Len(Frame(f, p)) = h + c /\ c \in Nat
        BY <1>1, <4>1, FrameShape
      <4>4. a \in Nat
        BY <1>1, <1>5
      <4>. HIDE DEF a, c
      <4>5. E[i] = a + (h + c)
        BY <4>2, <4>3 DEF a
      <4>6. a + (h + c) = a + h + c
        BY <1>1, <4>3, <4>4
      <4>. QED BY <4>1, <4>5, <4>6 DEF a, c
    <3>3. n < E[w] + h + Len(p)
      BY <3>1, <3>2
    <3>4. E[w] + h <= n => Len(p) <= max
      <4>. SUFFICES ASSUME E[w] + h <= n PROVE Len(p) <= max
        OBVIOUS
      <4>1. t # i
        <5>. SUFFICES ASSUME t = i PROVE FALSE
          OBVIOUS
        <5>1. t <= N /\ t - 1 = w
          BY <1>1, <3>2
        <5>. QED BY <1>11, <5>1
      <4>2. i \in 1..(t - 1)
        BY <1>1, <2>1, <3>1, <4>1
      <4>. QED BY <1>6, <4>2
    <3>5. ReadAndDeframe(f, cut, E[w], max) = Result("UnexpectedEof")
      <4>1. E[w] \in Nat /\ E[w] <= n
        BY <1>1, <1>5, <1>7
      <4>2. E[w] + h <= n \/ n < E[w] + h
        BY <1>1, <4>1
      <4>. HIDE DEF E, cut
      <4>. QED BY <1>9, <3>1, <3>3, <3>4, <4>1, <4>2
    <3>. HIDE DEF E, cut
    <3>6. ProcessAll(f, cut, max) = [payloads |-> SubSeq(run, 1, w), end |-> "UnexpectedEof"]
      BY <1>1, <1>7, <1>8, <2>1, <3>5
    <3>. QED BY <1>11, <2>3, <3>6 DEF E, cut
  <2>. QED BY <2>2, <2>3
<1>. QED BY <1>10, <1>11

\* A clean stream: the frames of the accepted payloads and nothing else, at every cut.
LEMMA CleanStream ==
    ASSUME Typed, Layout, Clean
    PROVE  /\ Run(format, accepted) /\ Exactly(format, accepted, sink) /\ Framed(format, <<>>)
           /\ sink \in Seq(Byte) /\ Len(sink) \in Nat /\ Len(accepted) \in Nat
           /\ HeaderLen = HeaderSize(format)
           /\ Cuts \subseteq 0..Len(sink) /\ ReaderLimits \subseteq Nat
<1>1. pc = "idle" /\ kept = NoFault /\ out = <<>> /\ Begun = accepted
  BY DEF Clean, Typed, InHand, Begun
<1>2. /\ Run(format, accepted) /\ sink \in Seq(Byte) /\ Len(accepted) \in Nat
      /\ Joined(out) = <<>>
  <2>1. out \in Seq(Seq(Byte))
    BY Runs
  <2>. QED BY <1>1, <2>1, Runs, JoinedParts
<1>3. Exactly(format, accepted, sink)
  <2>1. sink \o <<>> = sink
    BY <1>2
  <2>. QED BY <1>1, <1>2, <2>1 DEF Layout
<1>4. HeaderLen = HeaderSize(format) /\ Framed(format, <<>>)
  BY Given, HeaderLength DEF HeaderLen
<1>5. Cuts \subseteq 0..Len(sink)
  <2> DEFINE first == IF accepted = <<>> THEN 0 ELSE EndOf(Len(accepted) - 1)
  <2>1. first \in Nat
    <3>1. CASE accepted = <<>>
      BY <3>1
    <3>2. CASE accepted # <<>>
      <4>1. Len(accepted) # 0
        <5>1. accepted \in Seq(Fitting)
          BY Runs
        <5>. QED BY <3>2, <5>1
      <4>2. Len(accepted) - 1 \in 0..Len(accepted)
        BY <1>2, <4>1
      <4>3. Ends(format, accepted)[Len(accepted) - 1] \in Nat
        <5> DEFINE j == Len(accepted) - 1
        <5>. HIDE DEF j
        <5>1. Ends(format, accepted)[j] \in Nat
          BY <1>2, <4>2, EndsOf DEF j
        <5>. QED BY <5>1 DEF j
      <4>. QED BY <3>2, <4>3 DEF EndOf
    <3>. QED BY <3>1, <3>2
  <2>2. Len(sink) \in Nat
    BY <1>2, LenProperties
  <2>3. Cuts = first..Len(sink)
    BY DEF Cuts
  <2>. HIDE DEF first
  <2>. QED BY <2>1, <2>2, <2>3
<1>6. ReaderLimits \subseteq Nat
  <2>1. MaxWireFrameLen \in Nat
    BY Places DEF MaxWireFrameLen, MaxU32
  <2>. QED BY <2>1, WriteStackAssumption
<1>7. Len(sink) \in Nat
  BY <1>2, LenProperties
<1>. QED BY <1>2, <1>3, <1>4, <1>5, <1>6, <1>7

(***************************************************************************)
(* Reading a checksummed frame in one piece and reading it behind a length *)
(* parsed by somebody else give the same, at every offset of every cut.    *)
(***************************************************************************)
THEOREM PathsMatch == Spec => []PathsAgree
<1>1. ASSUME Typed, Layout PROVE PathsAgree
  <2>. SUFFICES ASSUME Clean, format.kind = "checksum",
                       NEW n \in Cuts, NEW max \in ReaderLimits, NEW p \in 0..n
                PROVE  LET bytes == SubSeq(sink, 1, n)
                           whole == ReadAndDeframe(format, bytes, p, max)
                           split == ReadByLength(format, bytes, p, max)
                       IN  \/ whole = split
                           \/ /\ whole.kind = "UnexpectedEof" /\ split.kind = "InvalidFrame"
                              /\ p + 4 <= n /\ n < p + HeaderLen
    BY DEF PathsAgree
  <2>1. /\ sink \in Seq(Byte) /\ n \in 0..Len(sink) /\ max \in Nat /\ Len(sink) \in Nat
        /\ HeaderLen = HeaderSize(format)
    BY <1>1, CleanStream
  <2>2. IsFormat(format)
    BY <1>1, Given
  <2>3. HeaderLen = 4 + SizeOf(format.alg)
    BY <2>1 DEF HeaderSize
  <2> DEFINE bytes == SubSeq(sink, 1, n)
  <2>4. bytes \in Seq(Byte) /\ Len(bytes) = n
    BY <2>1
  <2>. HIDE DEF bytes
  <2>5. LET whole == ReadAndDeframe(format, bytes, p, max)
            split == ReadByLength(format, bytes, p, max)
        IN  \/ whole = split
            \/ /\ whole.kind = "UnexpectedEof" /\ split.kind = "InvalidFrame"
               /\ p + 4 <= Len(bytes) /\ Len(bytes) < p + (4 + SizeOf(format.alg))
    <3>1. p \in 0..Len(bytes)
      BY <2>4
    <3>. QED BY <2>1, <2>2, <2>4, <3>1, SplitRead
  <2>. QED BY <2>3, <2>4, <2>5 DEF bytes
<1>. QED BY <1>1, AlwaysLayout, PTL

(***************************************************************************)
(* In the middle of a write, and after a torn one, whatever the            *)
(* application writes behind it, the sink gives its reader the payloads    *)
(* accepted before the failure first.                                      *)
(***************************************************************************)
THEOREM FrontReadable == Spec => []AcceptedStaysReadable
<1>1. ASSUME Typed, Layout PROVE AcceptedStaysReadable
  <2> DEFINE n == Len(sink)
             N == Len(Whole)
  <2>1. Run(format, Whole) /\ sink \in Seq(Byte) /\ Holds(format, Whole, sink) /\ n \in Nat
    BY <1>1, Runs, LenProperties DEF Layout
  <2>2. N \in Nat
    BY <2>1, LenProperties DEF Run
  <2>3. Laid(format, Whole, sink)
    <3>1. SubSeq(sink, 1, n) = sink
      BY <2>1, SubSeqFull
    <3>2. n \in 0..Len(sink)
      BY <2>1
    <3>3. ASSUME NEW i \in 1..N
          PROVE  Agrees(SubSeq(sink, 1, n), Ends(format, Whole)[i - 1], Frame(format, Whole[i]))
      <4>. HIDE DEF n
      <4>. QED BY <2>1, <3>2, <3>3, CutAgrees
    <3>. QED BY <3>1, <3>3 DEF Laid
  <2>4. MaxWireFrameLen \in Nat /\ \A i \in 1..N : Len(Whole[i]) <= MaxWireFrameLen
    <3>1. MaxWireFrameLen \in Nat
      BY Places DEF MaxWireFrameLen, MaxU32
    <3>. QED BY <2>1, <3>1 DEF Run, Fits, MaxWireFrameLen
  <2>5. Legible(format, Whole, sink, MaxWireFrameLen, N)
    <3>1. Reading(format, sink, MaxWireFrameLen)
      BY <1>1, <2>1, <2>4, Given DEF Reading
    <3>2. N \in 0..N
      BY <2>2
    <3>. QED BY <2>1, <2>3, <2>4, <3>1, <3>2 DEF Legible, Holds
  <2>6. IsPrefix(Whole, ProcessAll(format, sink, MaxWireFrameLen).payloads)
    BY <2>5, RunFirst
  <2>. QED BY <2>6 DEF AcceptedStaysReadable, Whole
<1>. QED BY <1>1, AlwaysLayout, PTL

(***************************************************************************)
(* What was written reads back, in every format and at every cut of the    *)
(* stream inside its last frame: the payloads accepted, in order, a clean  *)
(* end exactly between frames, and InvalidFrame at the first too long for  *)
(* the reader.                                                             *)
(***************************************************************************)
THEOREM ReadBack == Spec => []ReadsBack
<1>1. ASSUME Typed, Layout PROVE ReadsBack
  <2>. SUFFICES ASSUME Clean, NEW n \in Cuts, NEW max \in ReaderLimits
                PROVE  ProcessAll(format, SubSeq(sink, 1, n), max) = Expected(n, max)
    BY DEF ReadsBack
  <2> DEFINE N == Len(accepted)
             E == Ends(format, accepted)
             S == {i \in 0..N : EndOf(i) <= n}
             T == {i \in 1..N : Len(accepted[i]) > max} \cup {N + 1}
             w == IndexMax(S)
             t == IndexMin(T)
             refused == t <= N /\ E[t - 1] + HeaderSize(format) <= n
  <2>1. /\ Run(format, accepted) /\ Exactly(format, accepted, sink) /\ sink \in Seq(Byte)
        /\ Len(sink) \in Nat /\ N \in Nat /\ HeaderLen = HeaderSize(format)
        /\ n \in 0..Len(sink) /\ max \in Nat
    BY <1>1, CleanStream
  <2>2. w \in S /\ \A i \in S : i <= w
    <3>1. E[0] = 0
      BY <2>1, EndsOf
    <3>2. 0 \in S
      BY <2>1, <3>1 DEF EndOf
    <3>3. S \in SUBSET (0..N) /\ S # {}
      BY <3>2
    <3>. HIDE DEF S
    <3>. QED BY <2>1, <3>3, IndexMaxIs
  <2>3. t \in T /\ \A i \in T : t <= i
    <3>1. T \in SUBSET Nat /\ T # {}
      BY <2>1
    <3>. HIDE DEF T
    <3>. QED BY <3>1, IndexMinIs
  <2>. HIDE DEF w, t
  <2>4. Cut(format, accepted, n, w)
    <3>1. w \in 0..N /\ E[w] <= n
      BY <2>2 DEF EndOf
    <3>2. ASSUME w < N PROVE n < E[w + 1]
      <4>1. w + 1 \in 0..N /\ ~(w + 1 <= w)
        BY <2>1, <3>1, <3>2
      <4>2. ~(E[w + 1] <= n)
        BY <2>2, <4>1 DEF EndOf
      <4>3. E[w + 1] \in Nat
        BY <2>1, <4>1, EndsOf
      <4>. QED BY <2>1, <4>2, <4>3
    <3>. QED BY <3>1, <3>2 DEF Cut
  <2>5. FirstLong(accepted, max, t)
    <3>1. t \in 1..(N + 1)
      BY <2>1, <2>3
    <3>2. ASSUME NEW i \in 1..(t - 1) PROVE Len(accepted[i]) <= max
      <4>1. i \in 1..N /\ ~(t <= i)
        BY <2>1, <3>1
      <4>2. ~(Len(accepted[i]) > max)
        BY <2>3, <4>1
      <4>3. Len(accepted[i]) \in Nat
        BY <2>1, <4>1, LenProperties DEF Run, Framed
      <4>. QED BY <2>1, <4>2, <4>3
    <3>3. ASSUME t <= N PROVE Len(accepted[t]) > max
      BY <2>1, <2>3, <3>1, <3>3
    <3>. QED BY <3>1, <3>2, <3>3 DEF FirstLong
  <2>6. ProcessAll(format, SubSeq(sink, 1, n), max)
          = [payloads |-> SubSeq(accepted, 1, IF refused THEN t - 1 ELSE w),
             end |-> IF refused THEN "InvalidFrame" ELSE IF E[w] = n THEN "None" ELSE "UnexpectedEof"]
    BY <2>1, <2>4, <2>5, CutRead
  <2>7. Expected(n, max)
          = [payloads |-> SubSeq(accepted, 1, IF refused THEN t - 1 ELSE w),
             end |-> IF refused THEN "InvalidFrame" ELSE IF E[w] = n THEN "None" ELSE "UnexpectedEof"]
    <3>1. w = IndexMax({i \in 0..Len(accepted) : EndOf(i) <= n})
          /\ t = IndexMin({i \in 1..Len(accepted) : Len(accepted[i]) > max}
                                \cup {Len(accepted) + 1})
      BY DEF w, t
    <3>2. refused <=> t <= Len(accepted) /\ EndOf(t - 1) + HeaderLen <= n
      BY <2>1 DEF EndOf
    <3>3. E[w] = EndOf(w)
      BY DEF EndOf
    <3>. HIDE DEF refused, E
    <3>. QED BY <3>1, <3>2, <3>3 DEF Expected
  <2>. QED BY <2>6, <2>7
<1>. QED BY <1>1, AlwaysLayout, PTL

-----------------------------------------------------------------------------
(* Who refuses a payload, and who hears of it. *)

Refused(framer, p) == \E j \in DOMAIN framer : Refuses(framer[j], p)
Refusers(p) == {k \in DOMAIN stack : Refuses(stack[k], p)}

\* What BlamesFirst says of a payload and of what its call returned.
Blame(p, returned) ==
    IF Refusers(p) = {}
    THEN returned.kind \in IF Fits(p) THEN {"Ok", "Io"} ELSE {"InvalidFrame"}
    ELSE LET first == stack[IndexMin(Refusers(p))]
         IN  IF first.kind = "bounded"
             THEN returned = Ended("InvalidFrame", "")
             ELSE \E i \in DOMAIN Parts(first.validator) :
                    /\ returned = Ended("ValidationFailed", Parts(first.validator)[i].name)
                    /\ PartVerdict(Parts(first.validator)[i], p) # "ok"
                    /\ \A j \in 1..(i - 1) : PartVerdict(Parts(first.validator)[j], p) = "ok"

LastBlame == Blame(attempts[Len(attempts)], result)

\* The adapters a payload has passed have let it through, all of them before it is
\* written; and a call that is over has blamed whom it should.
Course ==
    /\ pc # "idle" => \A k \in 1..level : ~Refuses(stack[k], payload)
    /\ pc = "writing" => level = Len(stack)
    /\ pc = "idle" /\ attempts # <<>> /\ result.kind # "Serialize" => LastBlame

\* The outermost adapter that refuses is the one that comes after those that do not.
LEMMA FirstRefuser ==
    ASSUME Typed, NEW p, NEW n \in 1..Len(stack),
           \A k \in 1..(n - 1) : ~Refuses(stack[k], p), Refuses(stack[n], p)
    PROVE  Refusers(p) # {} /\ IndexMin(Refusers(p)) = n
<1>1. Len(stack) \in Nat /\ DOMAIN stack = 1..Len(stack)
  BY Given
<1> DEFINE S == Refusers(p)
<1>2. S \in SUBSET Nat /\ n \in S /\ \A k \in S : k \in Nat /\ n <= k
  <2>1. S \in SUBSET (1..Len(stack)) /\ n \in S
    BY <1>1 DEF Refusers
  <2>2. ASSUME NEW k \in S PROVE n <= k
    <3>1. k \in 1..Len(stack) /\ Refuses(stack[k], p)
      BY <1>1 DEF Refusers
    <3>2. ~(k \in 1..(n - 1))
      BY <3>1
    <3>. QED BY <1>1, <3>1, <3>2
  <2>. HIDE DEF S
  <2>. QED BY <1>1, <2>1, <2>2
<1>. HIDE DEF S
<1>3. IndexMin(S) \in S /\ \A i \in S : IndexMin(S) <= i
  BY <1>2, IndexMinIs
<1>4. IndexMin(S) \in Nat /\ n \in Nat /\ n <= IndexMin(S) /\ IndexMin(S) <= n
  BY <1>2, <1>3
<1>5. IndexMin(S) = n
  BY <1>4
<1>. QED BY <1>2, <1>5 DEF S

\* Where no adapter refuses, none is to blame.
LEMMA NoRefuser ==
    ASSUME Typed, NEW p, \A k \in 1..Len(stack) : ~Refuses(stack[k], p)
    PROVE  Refusers(p) = {}
BY Given DEF Refusers

\* A call that has ended leaves the blame behind it.
LEMMA CourseEnds ==
    ASSUME Typed, InHand, pc # "idle", pc' = "idle", attempts' = attempts, stack' = stack,
           Blame(payload, result')
    PROVE  Course'
<1>1. payload = attempts[Len(attempts)]
  BY DEF InHand
<1>2. Blame(attempts[Len(attempts)], result')
  BY <1>1
<1>3. Refusers(attempts[Len(attempts)])' = Refusers(attempts[Len(attempts)])
  BY DEF Refusers
<1>4. LastBlame'
  <2> DEFINE last == attempts[Len(attempts)]
             S == Refusers(last)
  <2>1. last' = last /\ S' = S /\ IndexMin(S)' = IndexMin(S) /\ stack' = stack
    BY <1>3
  <2>2. Blame(last, result')
    BY <1>2
  <2>. HIDE DEF last
  <2>. QED BY <2>1, <2>2 DEF LastBlame, Blame, last
<1>. QED BY <1>4 DEF Course

\* Every step keeps to the course.
LEMMA CourseNext == Typed /\ Course /\ [Next]_vars => Course'
<1>. SUFFICES ASSUME Typed, Course, [Next]_vars PROVE Course'
  OBVIOUS
<1>1. /\ Len(stack) \in Nat /\ DOMAIN stack = 1..Len(stack) /\ level \in 0..Len(stack)
      /\ \A k \in 1..Len(stack) : IsAdapter(stack[k])
      /\ InHand /\ attempts \in Seq(Payloads)
  BY Given DEF Typed, TypeOK
<1>2. /\ pc # "idle" => \A k \in 1..level : ~Refuses(stack[k], payload)
      /\ pc = "writing" => level = Len(stack)
  BY DEF Course
\* The next adapter lets the payload pass.
<1>3. ASSUME pc = "stack", level < Len(stack), ~Refuses(stack[level + 1], payload),
             level' = level + 1, UNCHANGED <<pc, stack, payload>>
      PROVE  Course'
  <2>1. \A k \in 1..(level + 1) : k \in 1..level \/ k = level + 1
    BY <1>1
  <2>2. \A k \in 1..(level + 1) : ~Refuses(stack[k], payload)
    BY <1>2, <1>3, <2>1
  <2>. QED BY <1>3, <2>2 DEF Course
\* It refuses it.
<1>4. ASSUME pc = "stack", level < Len(stack), Refuses(stack[level + 1], payload)
      PROVE  Refusers(payload) # {} /\ IndexMin(Refusers(payload)) = level + 1
  <2> DEFINE n == level + 1
  <2>1. n \in 1..Len(stack) /\ n - 1 = level
    BY <1>1, <1>4
  <2>2. \A k \in 1..(n - 1) : ~Refuses(stack[k], payload)
    BY <1>2, <1>4, <2>1
  <2>3. Refuses(stack[n], payload)
    BY <1>4
  <2>. HIDE DEF n
  <2>4. Refusers(payload) # {} /\ IndexMin(Refusers(payload)) = n
    BY <2>1, <2>2, <2>3, FirstRefuser
  <2>. QED BY <2>4 DEF n
\* None has refused it.
<1>5. ASSUME pc # "idle", level = Len(stack) PROVE Refusers(payload) = {}
  BY <1>2, <1>5, NoRefuser
<1>6. CASE UNCHANGED vars
  <2>1. UNCHANGED <<stack, pc, level, payload, result, attempts>>
    BY <1>6 DEF vars, callVars, historyVars
  <2>. QED BY <2>1 DEF Course, LastBlame, Blame, Refusers
<1>7. ASSUME NEW p \in Payloads, StartWrite(p) PROVE Course'
  <2>1. pc' = "stack" /\ level' = 0
    BY <1>7 DEF StartWrite
  <2>. QED BY <2>1 DEF Course
<1>8. CASE SerializeFails
  <2>1. pc' = "idle" /\ result' = Ended("Serialize", "")
    BY <1>8 DEF SerializeFails, Return
  <2>2. result'.kind = "Serialize"
    BY <2>1, EndedKinds
  <2>. QED BY <2>1, <2>2 DEF Course
<1>9. CASE Bound
  <2>1. /\ pc = "stack" /\ level < Len(stack) /\ stack[level + 1].kind = "bounded"
        /\ UNCHANGED <<stack, payload, attempts>>
    BY <1>9 DEF Bound, AtAdapter, Adapter, historyVars
  <2>2. Refuses(stack[level + 1], payload) <=> Len(payload) > stack[level + 1].max
    BY <2>1 DEF Refuses
  <2>3. CASE Len(payload) > stack[level + 1].max
    <3>1. pc' = "idle" /\ result' = Ended("InvalidFrame", "")
      BY <1>9, <2>3 DEF Bound, Return, Adapter
    <3>2. Blame(payload, result')
      BY <1>4, <2>1, <2>2, <2>3, <3>1 DEF Blame
    <3>. QED BY <1>1, <2>1, <3>1, <3>2, CourseEnds
  <2>4. CASE ~(Len(payload) > stack[level + 1].max)
    <3>1. level' = level + 1 /\ UNCHANGED pc
      BY <1>9, <2>4 DEF Bound, Adapter
    <3>. QED BY <1>3, <2>1, <2>2, <2>4, <3>1
  <2>. QED BY <2>3, <2>4
<1>10. CASE Validate
  <2> DEFINE v == stack[level + 1].validator
             verdict == Verdict(v, payload)
  <2>1. /\ pc = "stack" /\ level < Len(stack) /\ stack[level + 1].kind = "validate"
        /\ UNCHANGED <<stack, payload, attempts>>
    BY <1>10 DEF Validate, AtAdapter, Adapter, historyVars
  <2>2. Refuses(stack[level + 1], payload) <=> verdict # "ok"
    BY <2>1 DEF Refuses
  <2>3. IsValidator(v)
    <3>1. level + 1 \in 1..Len(stack)
      BY <1>1, <2>1
    <3>. QED BY <1>1, <2>1, <3>1 DEF IsAdapter
  <2>4. /\ verdict = "ok" => level' = level + 1 /\ UNCHANGED pc
        /\ verdict # "ok" /\ verdict # "panic"
              => pc' = "idle" /\ result' = Ended("ValidationFailed", verdict)
    BY <1>10 DEF Validate, Return, Adapter
  <2>5. verdict # "panic" /\ (verdict = "ok" \/ FirstPart(v, payload, verdict))
    <3>. HIDE DEF v
    <3>. QED BY <2>3, Verdicts
  <2>. HIDE DEF verdict
  <2>6. CASE verdict = "ok"
    BY <1>3, <2>1, <2>2, <2>4, <2>6
  <2>7. CASE verdict # "ok"
    <3>1. pc' = "idle" /\ result' = Ended("ValidationFailed", verdict)
      BY <2>4, <2>5, <2>7
    <3>2. Refusers(payload) # {} /\ IndexMin(Refusers(payload)) = level + 1
      BY <1>4, <2>1, <2>2, <2>7
    <3>3. PICK i \in DOMAIN Parts(v) :
             /\ verdict = Parts(v)[i].name /\ PartVerdict(Parts(v)[i], payload) # "ok"
             /\ \A j \in 1..(i - 1) : PartVerdict(Parts(v)[j], payload) = "ok"
      BY <2>5, <2>7 DEF FirstPart
    <3>4. stack[level + 1].kind # "bounded"
      BY <2>1
    <3>5. Blame(payload, result')
      BY <3>1, <3>2, <3>3, <3>4 DEF Blame
    <3>. QED BY <1>1, <2>1, <3>1, <3>5, CourseEnds
  <2>. QED BY <2>6, <2>7
<1>11. CASE Observe
  <2>1. /\ pc = "stack" /\ level < Len(stack) /\ stack[level + 1].kind = "observe"
        /\ level' = level + 1 /\ UNCHANGED <<pc, stack, payload>>
    BY <1>11 DEF Observe, AtAdapter, Adapter
  <2>2. ~Refuses(stack[level + 1], payload)
    BY <2>1 DEF Refuses
  <2>. QED BY <1>3, <2>1, <2>2
<1>12. CASE StartFrame
  <2>1. pc = "stack" /\ level = Len(stack) /\ UNCHANGED <<stack, payload, level, attempts>>
    BY <1>12 DEF StartFrame, historyVars
  <2>2. CASE Fits(payload)
    <3>1. pc' = "writing"
      BY <1>12, <2>2 DEF StartFrame
    <3>. QED BY <1>2, <2>1, <3>1 DEF Course
  <2>3. CASE ~Fits(payload)
    <3>1. pc' = "idle" /\ result' = Ended("InvalidFrame", "")
      BY <1>12, <2>3 DEF StartFrame, Return
    <3>2. Blame(payload, result')
      <4>1. result'.kind = "InvalidFrame"
        BY <3>1, EndedKinds
      <4>. QED BY <1>5, <2>1, <2>3, <4>1 DEF Blame
    <3>. QED BY <1>1, <2>1, <3>1, <3>2, CourseEnds
  <2>. QED BY <2>2, <2>3
<1>13. CASE Accept
  <2>1. UNCHANGED <<stack, pc, level, payload>> /\ pc = "writing"
    BY <1>13 DEF Accept
  <2>. QED BY <1>2, <2>1 DEF Course
\* The sink has been reached, and the call is over.
<1>14. ASSUME pc = "writing", pc' = "idle", UNCHANGED <<stack, payload, attempts>>,
              result'.kind \in {"Ok", "Io"}
       PROVE  Course'
  <2>1. Fits(payload)
    BY <1>1, <1>14 DEF InHand
  <2>2. Blame(payload, result')
    BY <1>2, <1>5, <1>14, <2>1 DEF Blame
  <2>. QED BY <1>1, <1>14, <2>2, CourseEnds
<1>15. CASE FinishWrite
  <2>1. pc = "writing" /\ pc' = "idle" /\ UNCHANGED <<stack, payload, attempts>>
        /\ result' = Ended("Ok", "")
    BY <1>15 DEF FinishWrite, Return
  <2>. QED BY <1>14, <2>1, EndedKinds
<1>16. ASSUME NEW n \in 0..MaxU32, SinkFails(n) PROVE Course'
  <2>1. pc = "writing" /\ pc' = "idle" /\ UNCHANGED <<stack, payload, attempts>>
        /\ result' = Ended("Io", "")
    BY <1>16 DEF SinkFails, Return
  <2>. QED BY <1>14, <2>1, EndedKinds
<1>. QED BY <1>6, <1>7, <1>8, <1>9, <1>10, <1>11, <1>12, <1>13, <1>15, <1>16 DEF Next

\* So calls always do.
LEMMA AlwaysCourse == Spec => [](Typed /\ Course)
<1>1. Init => Typed /\ Course
  <2>1. Init => Course
    BY DEF Init, Course
  <2>. QED BY <2>1, TypesInit
<1>2. Typed /\ Course /\ [Next]_vars => (Typed /\ Course)'
  BY TypesNext, CourseNext
<1>. QED BY <1>1, <1>2, PTL DEF Spec

(***************************************************************************)
(* A refused payload is refused by the outermost adapter that objects to   *)
(* it, with the name of the first of its validators that does; and what no *)
(* adapter refuses reaches the sink, or is too long for the length field.  *)
(***************************************************************************)
THEOREM FirstBlamed == Spec => []BlamesFirst
<1>1. Course => BlamesFirst
  BY DEF Course, BlamesFirst, LastBlame, Blame, Refusers
<1>. QED BY <1>1, AlwaysCourse, PTL

-----------------------------------------------------------------------------
(* What the observers have heard. *)

\* What the recursion of LetThrough gives, up to each payload.
Choosing(framer, payloads, g) ==
    /\ g \in [0..Len(payloads) -> Seq(Payloads)] /\ g[0] = <<>>
    /\ \A i \in 1..Len(payloads) :
          g[i] = IF Refused(framer, payloads[i]) THEN g[i - 1] ELSE Append(g[i - 1], payloads[i])

\* LetThrough is the last value of such a function.
LEMMA LetThroughOf ==
    ASSUME NEW framer, NEW payloads \in Seq(Payloads)
    PROVE  \E g : Choosing(framer, payloads, g) /\ LetThrough(framer, payloads) = g[Len(payloads)]
<1> DEFINE n == Len(payloads)
           V == Seq(Payloads)
           none == <<>>
           step == [i \in 1..n |-> [v \in V |-> IF Refused(framer, payloads[i]) THEN v
                                                ELSE Append(v, payloads[i])]]
           upTo == CHOOSE g : g = [i \in 0..n |->
                                     IF i = 0 THEN <<>>
                                     ELSE IF \E j \in DOMAIN framer : Refuses(framer[j], payloads[i])
                                     THEN g[i - 1]
                                     ELSE Append(g[i - 1], payloads[i])]
<1>1. n \in Nat /\ \A i \in 1..n : payloads[i] \in Payloads
  BY LenProperties, ElementOfSeq
<1>2. LetThrough(framer, payloads) = upTo[n]
  BY DEF LetThrough
<1>. HIDE DEF n
<1>3. Steps(n, V, none, step)
  <2>1. \A i \in 1..n : \A v \in V :
           (IF Refused(framer, payloads[i]) THEN v ELSE Append(v, payloads[i])) \in V
    BY <1>1, AppendProperties
  <2>2. none \in V
    OBVIOUS
  <2>3. step \in [1..n -> [V -> V]]
    <3>. HIDE DEF V
    <3>. QED BY <2>1
  <2>. QED BY <1>1, <2>2, <2>3 DEF Steps
<1>4. PICK g \in [0..n -> V] : g[0] = none /\ \A i \in 1..n : g[i] = step[i][g[i - 1]]
  <2>. HIDE DEF step, none, V
  <2>. QED BY <1>3, StepsUp
<1>5. ASSUME NEW i \in 1..n
      PROVE  g[i] = IF Refused(framer, payloads[i]) THEN g[i - 1] ELSE Append(g[i - 1], payloads[i])
  <2>1. i - 1 \in 0..n
    BY <1>1
  <2>2. g[i - 1] \in V
    BY <1>4, <2>1
  <2>. HIDE DEF V
  <2>. QED BY <1>4, <2>2
<1>6. g = [i \in 0..n |-> IF i = 0 THEN <<>>
                          ELSE IF \E j \in DOMAIN framer : Refuses(framer[j], payloads[i])
                          THEN g[i - 1]
                          ELSE Append(g[i - 1], payloads[i])]
  <2>1. ASSUME NEW i \in 0..n
        PROVE  g[i] = IF i = 0 THEN <<>>
                      ELSE IF \E j \in DOMAIN framer : Refuses(framer[j], payloads[i])
                      THEN g[i - 1]
                      ELSE Append(g[i - 1], payloads[i])
    <3>1. i # 0 => i \in 1..n
      BY <1>1
    <3>. QED BY <1>4, <1>5, <3>1 DEF Refused
  <2>. HIDE DEF V
  <2>. QED BY <1>4, <2>1
<1>7. upTo = [i \in 0..n |-> IF i = 0 THEN <<>>
                             ELSE IF \E j \in DOMAIN framer : Refuses(framer[j], payloads[i])
                             THEN upTo[i - 1]
                             ELSE Append(upTo[i - 1], payloads[i])]
  BY <1>6
<1>. HIDE DEF upTo
<1>8. ASSUME NEW i \in 1..n
      PROVE  upTo[i] = IF Refused(framer, payloads[i]) THEN upTo[i - 1]
                       ELSE Append(upTo[i - 1], payloads[i])
  <2>1. i \in 0..n /\ i # 0
    BY <1>1
  <2>. QED BY <1>7, <2>1 DEF Refused
<1>9. upTo[0] = <<>>
  <2>1. 0 \in 0..n
    BY <1>1
  <2>. QED BY <1>7, <2>1
<1>10. upTo \in [0..n -> V]
  <2> DEFINE S == {m \in Nat : m <= n => upTo[m] \in V}
  <2>1. 0 \in S
    <3>1. <<>> \in V
      OBVIOUS
    <3>. HIDE DEF V
    <3>. QED BY <1>9, <3>1
  <2>2. ASSUME NEW m \in S, m < n PROVE m + 1 \in S
    <3>1. m \in Nat /\ m + 1 \in 1..n /\ m <= n /\ (m + 1) - 1 = m
      BY <1>1, <2>2
    <3>2. upTo[m] \in V /\ payloads[m + 1] \in Payloads
      BY <1>1, <3>1
    <3>3. Append(upTo[m], payloads[m + 1]) \in V
      BY <3>2, AppendProperties
    <3>. HIDE DEF V
    <3>4. upTo[m + 1] = IF Refused(framer, payloads[m + 1]) THEN upTo[m]
                        ELSE Append(upTo[m], payloads[m + 1])
      BY <1>8, <3>1
    <3>. QED BY <3>1, <3>2, <3>3, <3>4
  <2>3. ASSUME NEW m \in 0..n PROVE upTo[m] \in V
    <3>1. m \in Nat /\ m <= n
      BY <1>1
    <3>2. S \in SUBSET Nat /\ \A k \in S : k < m => k + 1 \in S
      <4>1. ASSUME NEW k \in S, k < m PROVE k + 1 \in S
        <5>1. k \in Nat /\ k < n
          BY <1>1, <3>1, <4>1
        <5>. HIDE DEF S
        <5>. QED BY <2>2, <5>1
      <4>. QED BY <4>1
    <3>3. m \in S
      <4>. HIDE DEF S
      <4>. QED BY <2>1, <3>1, <3>2, CountUp
    <3>. QED BY <3>1, <3>3
  <2>4. upTo = [i \in 0..n |-> upTo[i]]
    BY <1>7
  <2>. HIDE DEF V, S
  <2>. QED BY <2>3, <2>4
<1>11. Choosing(framer, payloads, upTo)
  BY <1>8, <1>9, <1>10 DEF Choosing, n
<1>. QED BY <1>2, <1>11 DEF n

\* Where two runs of payloads agree, so does what is let through of them.
Alike(framer, a, b, g, h, n) ==
    /\ a \in Seq(Payloads) /\ Choosing(framer, a, g)
    /\ b \in Seq(Payloads) /\ Choosing(framer, b, h)
    /\ n \in Nat /\ n <= Len(a) /\ n <= Len(b) /\ \A i \in 1..n : a[i] = b[i]

\* What is let through depends on the payloads alone.
LEMMA SameChoice ==
    ASSUME NEW framer, NEW a, NEW b, NEW g, NEW h, NEW n, Alike(framer, a, b, g, h, n)
    PROVE  g[n] = h[n]
<1> DEFINE S == {m \in Nat : m <= n => g[m] = h[m]}
<1>1. /\ Len(a) \in Nat /\ Len(b) \in Nat /\ n \in Nat /\ n <= Len(a) /\ n <= Len(b)
      /\ Choosing(framer, a, g) /\ Choosing(framer, b, h) /\ \A i \in 1..n : a[i] = b[i]
  BY LenProperties DEF Alike
<1>2. 0 \in S
  BY <1>1 DEF Choosing
<1>3. ASSUME NEW m \in S, m < n PROVE m + 1 \in S
  <2> DEFINE i == m + 1
  <2>1. /\ m \in Nat /\ g[m] = h[m] /\ i \in 1..n /\ i \in 1..Len(a) /\ i \in 1..Len(b)
        /\ i - 1 = m /\ a[i] = b[i]
    BY <1>1, <1>3
  <2>. HIDE DEF i
  <2>2. g[i] = IF Refused(framer, a[i]) THEN g[i - 1] ELSE Append(g[i - 1], a[i])
    BY <1>1, <2>1 DEF Choosing
  <2>3. h[i] = IF Refused(framer, b[i]) THEN h[i - 1] ELSE Append(h[i - 1], b[i])
    BY <1>1, <2>1 DEF Choosing
  <2>4. g[i] = h[i]
    BY <2>1, <2>2, <2>3
  <2>. QED BY <2>1, <2>4 DEF i
<1>4. n \in S
  <2>1. S \in SUBSET Nat
    OBVIOUS
  <2>. HIDE DEF S
  <2>. QED BY <1>1, <1>2, <1>3, <2>1, CountUp
<1>. QED BY <1>1, <1>4

\* One payload more.
LEMMA LetThroughNext ==
    ASSUME NEW framer, NEW b \in Seq(Payloads), Len(b) # 0,
           NEW a \in Seq(Payloads), Len(a) = Len(b) - 1, \A i \in 1..Len(a) : a[i] = b[i]
    PROVE  /\ LetThrough(framer, a) \in Seq(Payloads)
           /\ LetThrough(framer, b)
                = IF Refused(framer, b[Len(b)]) THEN LetThrough(framer, a)
                  ELSE Append(LetThrough(framer, a), b[Len(b)])
<1>1. PICK g : Choosing(framer, a, g) /\ LetThrough(framer, a) = g[Len(a)]
  BY LetThroughOf
<1>2. PICK h : Choosing(framer, b, h) /\ LetThrough(framer, b) = h[Len(b)]
  BY LetThroughOf
<1> DEFINE n == Len(b)
           m == Len(a)
<1>3. n \in Nat /\ m \in Nat /\ m = n - 1 /\ n \in 1..n /\ m <= n /\ m \in 0..m
  BY LenProperties
<1>. HIDE DEF n, m
<1>4. g[m] = h[m]
  <2>1. m <= Len(a) /\ m <= Len(b) /\ \A i \in 1..m : a[i] = b[i]
    BY <1>3 DEF n, m
  <2>2. Alike(framer, a, b, g, h, m)
    BY <1>1, <1>2, <1>3, <2>1 DEF Alike
  <2>. QED BY <2>2, SameChoice
<1>5. h[n] = IF Refused(framer, b[n]) THEN h[n - 1] ELSE Append(h[n - 1], b[n])
  BY <1>2, <1>3 DEF Choosing, n
<1>6. g[m] \in Seq(Payloads)
  BY <1>1, <1>3 DEF Choosing, m
<1>. QED BY <1>1, <1>2, <1>3, <1>4, <1>5, <1>6 DEF n, m

\* The payloads of the calls before the one that is under way.
Past == SubSeq(attempts, 1, Len(attempts) - 1)

\* The adapters around the k-th; and what it should have heard, if it is an observer.
Around(k) == SubSeq(stack, 1, k - 1)
Hears(k) == LetThrough(Around(k), IF pc # "idle" /\ k > level THEN Past ELSE attempts)
Heard == \A k \in DOMAIN stack : stack[k].kind = "observe" => observed[k] = Hears(k)

\* To be refused around an adapter is to be refused by one outside it.
LEMMA RefusedAround ==
    ASSUME Typed, NEW k \in DOMAIN stack, NEW p
    PROVE  Refused(Around(k), p) <=> \E j \in 1..(k - 1) : Refuses(stack[j], p)
<1>1. stack \in Seq(Range(stack)) /\ Len(stack) \in Nat /\ DOMAIN stack = 1..Len(stack)
  BY Given
<1>2. k - 1 \in Nat /\ k - 1 <= Len(stack)
  BY <1>1
<1> DEFINE T == Range(stack)
           m == k - 1
<1>3. stack \in Seq(T) /\ m \in Nat /\ m <= Len(stack) /\ Around(k) = SubSeq(stack, 1, m)
  BY <1>1, <1>2 DEF Around
<1>. HIDE DEF T, m
<1>4. Len(SubSeq(stack, 1, m)) = m /\ DOMAIN SubSeq(stack, 1, m) = 1..m
      /\ \A j \in 1..m : SubSeq(stack, 1, m)[j] = stack[j]
  BY <1>1, <1>3
<1>. QED BY <1>3, <1>4 DEF Refused, m

\* The payload of the call, and what comes of it.
LEMMA PastNext ==
    ASSUME Typed, pc # "idle"
    PROVE  /\ Past \in Seq(Payloads) /\ payload = attempts[Len(attempts)]
           /\ \A k \in DOMAIN stack :
                 /\ LetThrough(Around(k), Past) \in Seq(Payloads)
                 /\ LetThrough(Around(k), attempts)
                      = IF Refused(Around(k), payload) THEN LetThrough(Around(k), Past)
                        ELSE Append(LetThrough(Around(k), Past), payload)
<1>1. attempts \in Seq(Payloads) /\ attempts # <<>> /\ payload = attempts[Len(attempts)]
  BY DEF Typed, TypeOK, InHand
<1>2. Len(attempts) \in Nat /\ Len(attempts) # 0
  BY <1>1
<1> DEFINE n == Len(attempts) - 1
<1>3. n \in Nat /\ n <= Len(attempts) /\ n = Len(attempts) - 1
  BY <1>2
<1>. HIDE DEF n
<1>4. Past = SubSeq(attempts, 1, n)
  BY DEF Past, n
<1>5. Past \in Seq(Payloads) /\ Len(Past) = n /\ \A i \in 1..n : Past[i] = attempts[i]
  BY <1>1, <1>2, <1>3, <1>4
<1>. HIDE DEF Past
<1>6. ASSUME NEW k \in DOMAIN stack
      PROVE  /\ LetThrough(Around(k), Past) \in Seq(Payloads)
             /\ LetThrough(Around(k), attempts)
                  = IF Refused(Around(k), payload) THEN LetThrough(Around(k), Past)
                    ELSE Append(LetThrough(Around(k), Past), payload)
  <2> DEFINE framer == Around(k)
  <2>. HIDE DEF framer
  <2>1. Len(Past) = Len(attempts) - 1 /\ \A i \in 1..Len(Past) : Past[i] = attempts[i]
    BY <1>3, <1>5
  <2>2. /\ LetThrough(framer, Past) \in Seq(Payloads)
        /\ LetThrough(framer, attempts)
             = IF Refused(framer, attempts[Len(attempts)]) THEN LetThrough(framer, Past)
               ELSE Append(LetThrough(framer, Past), attempts[Len(attempts)])
    BY <1>1, <1>2, <1>5, <2>1, LetThroughNext
  <2>. QED BY <1>1, <2>2 DEF framer
<1>. QED BY <1>1, <1>5, <1>6

\* Every step keeps what the observers have been given right.
LEMMA HeardNext == Typed /\ Course /\ Heard /\ [Next]_vars => Heard'
<1>. SUFFICES ASSUME Typed, Course, Heard, [Next]_vars PROVE Heard'
  OBVIOUS
<1>1. /\ Len(stack) \in Nat /\ DOMAIN stack = 1..Len(stack) /\ level \in 0..Len(stack)
      /\ attempts \in Seq(Payloads) /\ observed \in [DOMAIN stack -> Seq(Payloads)]
      /\ level \in Nat
  BY Given DEF Typed, TypeOK
\* Where nothing changes for an observer.
<1>2. ASSUME UNCHANGED <<stack, attempts, observed>>,
             \A k \in DOMAIN stack : stack[k].kind = "observe" => Hears(k)' = Hears(k)
      PROVE  Heard'
  <2>1. ASSUME NEW k \in DOMAIN stack, stack[k].kind = "observe"
        PROVE  observed'[k] = Hears(k)'
    BY <1>2, <2>1 DEF Heard
  <2>. HIDE DEF Hears
  <2>2. stack' = stack
    BY <1>2
  <2>. QED BY <2>1, <2>2 DEF Heard
<1>3. ASSUME UNCHANGED <<stack, attempts, observed, pc, level>> PROVE Heard'
  <2>1. \A k \in DOMAIN stack : Hears(k)' = Hears(k)
    BY <1>3 DEF Hears, Around, Past
  <2>. QED BY <1>2, <1>3, <2>1
\* An adapter that is no observer lets the payload pass.
<1>4. ASSUME pc = "stack", level < Len(stack), stack[level + 1].kind # "observe",
             level' = level + 1, UNCHANGED <<stack, attempts, observed, pc>>
      PROVE  Heard'
  <2>1. ASSUME NEW k \in DOMAIN stack, stack[k].kind = "observe" PROVE Hears(k)' = Hears(k)
    <3>1. k # level + 1 /\ k \in Nat
      BY <1>1, <1>4, <2>1
    <3>2. k > level + 1 <=> k > level
      BY <1>1, <3>1
    <3>. QED BY <1>4, <3>2 DEF Hears, Around, Past
  <2>. QED BY <1>2, <1>4, <2>1
\* It refuses it.
<1>5. ASSUME pc = "stack", level < Len(stack), stack[level + 1].kind # "observe",
             Refuses(stack[level + 1], payload), pc' = "idle",
             UNCHANGED <<stack, attempts, observed>>
      PROVE  Heard'
  <2>1. ASSUME NEW k \in DOMAIN stack, stack[k].kind = "observe" PROVE Hears(k)' = Hears(k)
    <3>1. Hears(k)' = LetThrough(Around(k), attempts)
      BY <1>5 DEF Hears, Around
    <3>2. CASE k > level
      <4>1. k # level + 1 /\ k \in Nat
        BY <1>1, <1>5, <2>1
      <4>2. level + 1 \in 1..(k - 1)
        BY <1>1, <3>2, <4>1
      <4>3. Refused(Around(k), payload)
        BY <1>5, <4>2, RefusedAround
      <4>4. Hears(k) = LetThrough(Around(k), Past)
        BY <1>5, <3>2 DEF Hears
      <4>5. LetThrough(Around(k), attempts) = LetThrough(Around(k), Past)
        BY <1>5, <4>3, PastNext
      <4>. QED BY <3>1, <4>4, <4>5
    <3>3. CASE ~(k > level)
      BY <3>1, <3>3 DEF Hears
    <3>. QED BY <3>2, <3>3
  <2>. QED BY <1>2, <1>5, <2>1
\* It has come through all of them.
<1>6. ASSUME pc # "idle", level = Len(stack), UNCHANGED <<stack, attempts, observed, level>>
      PROVE  Heard'
  <2>1. ASSUME NEW k \in DOMAIN stack PROVE Hears(k)' = Hears(k)
    <3>1. ~(k > level)
      BY <1>1, <1>6
    <3>. QED BY <1>6, <3>1 DEF Hears, Around, Past
  <2>. QED BY <1>2, <1>6, <2>1
<1>7. CASE UNCHANGED vars
  BY <1>3, <1>7 DEF vars, callVars, historyVars
<1>8. ASSUME NEW p \in Payloads, StartWrite(p) PROVE Heard'
  <2>1. /\ pc = "idle" /\ pc' = "stack" /\ level' = 0 /\ attempts' = Append(attempts, p)
        /\ UNCHANGED <<stack, observed>>
    BY <1>8 DEF StartWrite
  <2>2. Past' = attempts
    <3>1. Len(attempts') = Len(attempts) + 1 /\ attempts' \in Seq(Payloads) /\ Len(attempts) \in Nat
          /\ \A i \in 1..Len(attempts) : attempts'[i] = attempts[i]
      BY <1>1, <2>1, AppendProperties, LenProperties
    <3> DEFINE n == Len(attempts') - 1
    <3>2. n = Len(attempts) /\ n \in Nat /\ n <= Len(attempts')
      BY <3>1
    <3>. HIDE DEF n
    <3>3. Len(SubSeq(attempts', 1, n)) = n /\ SubSeq(attempts', 1, n) \in Seq(Payloads)
          /\ \A i \in 1..n : SubSeq(attempts', 1, n)[i] = attempts'[i]
      BY <3>1, <3>2
    <3>4. SubSeq(attempts', 1, n) = attempts
      BY <1>1, <3>1, <3>2, <3>3
    <3>. QED BY <3>4 DEF Past, n
  <2>3. ASSUME NEW k \in DOMAIN stack, stack[k].kind = "observe" PROVE observed'[k] = Hears(k)'
    <3>1. observed[k] = LetThrough(Around(k), attempts)
      BY <2>1, <2>3 DEF Heard, Hears
    <3>2. k > 0
      BY <1>1
    <3>3. Hears(k)' = LetThrough(Around(k), Past')
      BY <2>1, <3>2 DEF Hears, Around
    <3>. QED BY <2>1, <2>2, <3>1, <3>3
  <2>4. stack' = stack
    BY <2>1
  <2>. HIDE DEF Hears
  <2>. QED BY <2>3, <2>4 DEF Heard
<1>9. CASE SerializeFails
  <2>1. pc = "idle" /\ pc' = "idle" /\ UNCHANGED <<stack, attempts, observed, level>>
    BY <1>9 DEF SerializeFails, Return, historyVars
  <2>. QED BY <1>3, <2>1
<1>10. CASE Bound
  <2>1. /\ pc = "stack" /\ level < Len(stack) /\ stack[level + 1].kind = "bounded"
        /\ UNCHANGED <<stack, attempts, observed>>
    BY <1>10 DEF Bound, AtAdapter, Adapter, historyVars
  <2>2. CASE Len(payload) > stack[level + 1].max
    <3>1. pc' = "idle"
      BY <1>10, <2>2 DEF Bound, Return, Adapter
    <3>2. Refuses(stack[level + 1], payload)
      BY <2>1, <2>2 DEF Refuses
    <3>. QED BY <1>5, <2>1, <3>1, <3>2
  <2>3. CASE ~(Len(payload) > stack[level + 1].max)
    <3>1. level' = level + 1 /\ UNCHANGED pc
      BY <1>10, <2>3 DEF Bound, Adapter
    <3>. QED BY <1>4, <2>1, <3>1
  <2>. QED BY <2>2, <2>3
<1>11. CASE Validate
  <2> DEFINE verdict == Verdict(stack[level + 1].validator, payload)
  <2>1. /\ pc = "stack" /\ level < Len(stack) /\ stack[level + 1].kind = "validate"
        /\ UNCHANGED <<stack, attempts, observed>>
    BY <1>11 DEF Validate, AtAdapter, Adapter, historyVars
  <2>2. /\ verdict = "ok" => level' = level + 1 /\ UNCHANGED pc
        /\ verdict # "ok" => pc' = "idle"
    BY <1>11 DEF Validate, Return, Adapter
  <2>3. verdict # "ok" => Refuses(stack[level + 1], payload)
    BY <2>1 DEF Refuses
  <2>. HIDE DEF verdict
  <2>. QED BY <1>4, <1>5, <2>1, <2>2, <2>3
<1>12. CASE Observe
  <2> DEFINE here == level + 1
  <2>1. /\ pc = "stack" /\ level < Len(stack) /\ level' = here
        /\ UNCHANGED <<stack, attempts, pc>>
        /\ observed' = [observed EXCEPT ![here] = @ \o <<payload>>]
    BY <1>12 DEF Observe, AtAdapter, Seen
  <2>2. here \in DOMAIN stack /\ here = level + 1
    BY <1>1, <2>1
  <2>3. payload \in Payloads
    BY <2>1 DEF Typed, InHand
  <2>4. ~Refused(Around(here), payload)
    <3>1. \A j \in 1..(here - 1) : ~Refuses(stack[j], payload)
      BY <1>1, <2>1, <2>2 DEF Course
    <3>. HIDE DEF here
    <3>. QED BY <2>2, <3>1, RefusedAround
  <2>. HIDE DEF here
  <2>5. ASSUME NEW k \in DOMAIN stack, stack[k].kind = "observe" PROVE observed'[k] = Hears(k)'
    <3>1. k \in Nat
      BY <1>1
    <3>2. CASE k = here
      <4>1. observed[here] = LetThrough(Around(here), Past)
        <5>1. here > level
          BY <1>1, <2>2
        <5>. QED BY <2>1, <2>5, <3>2, <5>1 DEF Heard, Hears
      <4>2. Hears(k)' = LetThrough(Around(k), attempts)
        <5>1. ~(k > level')
          BY <1>1, <2>1, <2>2, <3>2
        <5>2. Around(k)' = Around(k)
          BY <2>1 DEF Around
        <5>. QED BY <2>1, <5>1, <5>2 DEF Hears
      <4>3. LetThrough(Around(here), attempts) = Append(LetThrough(Around(here), Past), payload)
        BY <2>1, <2>2, <2>4, PastNext
      <4>4. observed'[here] = observed[here] \o <<payload>> /\ observed[here] \in Seq(Payloads)
        BY <1>1, <2>1, <2>2
      <4>5. observed[here] \o <<payload>> = Append(observed[here], payload)
        <5> DEFINE s == observed[here]
        <5>1. s \in Seq(Payloads)
          BY <4>4
        <5>. HIDE DEF s
        <5>2. s \o <<payload>> = Append(s, payload)
          BY <2>3, <5>1
        <5>. QED BY <5>2 DEF s
      <4>. QED BY <3>2, <4>1, <4>2, <4>3, <4>4, <4>5
    <3>3. CASE k # here
      <4>1. observed'[k] = observed[k]
        BY <1>1, <2>1, <3>3
      <4>2. k > here <=> k > level
        BY <1>1, <2>2, <3>1, <3>3
      <4>3. Hears(k)' = Hears(k)
        BY <2>1, <4>2 DEF Hears, Around, Past
      <4>. QED BY <2>5, <4>1, <4>3 DEF Heard
    <3>. QED BY <3>2, <3>3
  <2>6. stack' = stack
    BY <2>1
  <2>. HIDE DEF Hears
  <2>. QED BY <2>5, <2>6 DEF Heard
<1>13. CASE StartFrame
  <2>1. pc # "idle" /\ level = Len(stack) /\ UNCHANGED <<stack, attempts, observed, level>>
    BY <1>13 DEF StartFrame, historyVars
  <2>. QED BY <1>6, <2>1
<1>14. CASE Accept
  <2>1. UNCHANGED <<stack, attempts, observed, pc, level>>
    BY <1>14 DEF Accept, historyVars
  <2>. QED BY <1>3, <2>1
<1>15. CASE FinishWrite
  <2>1. pc = "writing" /\ UNCHANGED <<stack, attempts, observed, level>>
    BY <1>15 DEF FinishWrite
  <2>. QED BY <1>6, <2>1 DEF Course
<1>16. ASSUME NEW n \in 0..MaxU32, SinkFails(n) PROVE Heard'
  <2>1. pc = "writing" /\ UNCHANGED <<stack, attempts, observed, level>>
    BY <1>16 DEF SinkFails
  <2>. QED BY <1>6, <2>1 DEF Course
<1>. QED BY <1>7, <1>8, <1>9, <1>10, <1>11, <1>12, <1>13, <1>14, <1>15, <1>16 DEF Next

(***************************************************************************)
(* Between calls an observer has been called with exactly the payloads     *)
(* that the adapters around it let through, in order, whatever the ones    *)
(* inside it and the sink made of them.                                    *)
(***************************************************************************)
THEOREM SeenExactly == Spec => []ObserversSeeExactly
<1>1. Init => Typed /\ Course /\ Heard
  <2>. SUFFICES ASSUME Init PROVE Typed /\ Course /\ Heard
    OBVIOUS
  <2>1. Typed /\ Course
    BY TypesInit DEF Init, Course
  <2>2. pc = "idle" /\ attempts = <<>> /\ observed = [k \in DOMAIN stack |-> <<>>]
    BY DEF Init
  <2>3. ASSUME NEW k \in DOMAIN stack PROVE observed[k] = Hears(k)
    <3> DEFINE framer == Around(k)
    <3>. HIDE DEF framer
    <3>1. <<>> \in Seq(Payloads) /\ Len(<<>>) = 0
      OBVIOUS
    <3>2. PICK g : Choosing(framer, <<>>, g) /\ LetThrough(framer, <<>>) = g[Len(<<>>)]
      BY <3>1, LetThroughOf
    <3>3. LetThrough(framer, <<>>) = <<>>
      BY <3>1, <3>2 DEF Choosing
    <3>. QED BY <2>2, <3>3 DEF Hears, framer
  <2>. QED BY <2>1, <2>3 DEF Heard
<1>2. Typed /\ Course /\ Heard /\ [Next]_vars => (Typed /\ Course /\ Heard)'
  BY TypesNext, CourseNext, HeardNext
<1>3. Typed /\ Course /\ Heard => ObserversSeeExactly
  BY DEF Heard, Hears, Around, ObserversSeeExactly
<1>. QED BY <1>1, <1>2, <1>3, PTL DEF Spec

-----------------------------------------------------------------------------
(* What a checksum field tells apart. *)

\* The digit and the rest of a number written with a digit in front.
LEMMA Quotient ==
    ASSUME NEW B \in Nat \ {0}, NEW b \in 0..(B - 1), NEW q \in Nat
    PROVE  (b + B * q) \div B = q /\ (b + B * q) % B = b
<1> DEFINE n == b + B * q
<1>1. n \in Nat
  OBVIOUS
<1>2. n \div B \in Nat /\ n % B \in 0..(B - 1) /\ n = B * (n \div B) + (n % B)
  <2>. HIDE DEF n
  <2>. QED BY <1>1, Division
<1> DEFINE x == n \div B
           y == n % B
<1>3. x \in Nat /\ y \in 0..(B - 1) /\ b + B * q = B * x + y
  BY <1>2
<1>. HIDE DEF n, x, y
<1>4. x = q
  <2>1. CASE x < q
    <3>1. PICK d \in Nat : q = x + 1 + d
      <4>1. q - x - 1 \in Nat /\ q = x + 1 + (q - x - 1)
        BY <1>3, <2>1
      <4>. QED BY <4>1
    <3>2. B * q = B * x + B + B * d /\ B * d \in Nat /\ B * x \in Nat
      BY <1>3, <3>1
    <3>. QED BY <1>3, <3>2
  <2>2. CASE q < x
    <3>1. PICK d \in Nat : x = q + 1 + d
      <4>1. x - q - 1 \in Nat /\ x = q + 1 + (x - q - 1)
        BY <1>3, <2>2
      <4>. QED BY <4>1
    <3>2. B * x = B * q + B + B * d /\ B * d \in Nat /\ B * q \in Nat
      BY <1>3, <3>1
    <3>. QED BY <1>3, <3>2
  <2>. QED BY <1>3, <2>1, <2>2
<1>5. y = b
  <2>1. B * x = B * q /\ B * q \in Nat
    BY <1>3, <1>4
  <2>. QED BY <1>3, <2>1
<1>. QED BY <1>4, <1>5 DEF n, x, y

\* The digits of what bytes stand for are the bytes.
LEMMA DigitsBack ==
    ASSUME NEW bytes \in Seq(Byte), Len(bytes) \in 0..8, NEW j \in 1..Len(bytes)
    PROVE  bytes[j] = (FromLeBytes(bytes) \div Place[j - 1]) % Base
<1> DEFINE w == Len(bytes)
           u == FromLeBytes(bytes)
<1>1. PICK g : FromBytes(bytes, g) /\ FromLeBytes(bytes) = g[1]
  BY FromLe
<1>2. /\ w \in 0..8 /\ u \in Nat /\ Base \in Nat \ {0}
      /\ \A k \in 1..w : bytes[k] \in 0..(Base - 1)
  BY FromLe, ElementOfSeq, ChecksumAssumption DEF Byte
<1>3. /\ g[1] = u /\ \A k \in 1..(w + 1) : g[k] \in Nat
      /\ \A k \in 1..w : g[k] = bytes[k] + Base * g[k + 1]
  BY <1>1 DEF FromBytes
<1>. HIDE DEF w, u
<1> DEFINE S == {d \in Nat : d <= w => g[d + 1] = u \div Place[d]}
<1>4. ASSUME NEW k \in 1..w, g[k] = u \div Place[k - 1]
      PROVE  g[k + 1] = u \div Place[k] /\ bytes[k] = (u \div Place[k - 1]) % Base
  <2>1. k \in 1..8 /\ k - 1 \in 0..8 /\ k + 1 \in 1..(w + 1)
    BY <1>2
  <2>2. Place[k] = Base * Place[k - 1] /\ Place[k - 1] \in Nat \ {0}
    BY <2>1, Places
  <2>3. u \div Place[k] = (u \div Place[k - 1]) \div Base
    BY <1>2, <2>2, NestedDivision
  <2> DEFINE b == bytes[k]
             q == g[k + 1]
  <2>4. b \in 0..(Base - 1) /\ q \in Nat /\ g[k] = b + Base * q
    BY <1>2, <1>3, <2>1
  <2>. HIDE DEF b, q
  <2>5. g[k] \div Base = q /\ g[k] % Base = b
    <3>1. Base \in Nat \ {0}
      BY <1>2
    <3>2. (b + Base * q) \div Base = q /\ (b + Base * q) % Base = b
      BY <2>4, <3>1, Quotient
    <3>. QED BY <2>4, <3>2
  <2>. QED BY <1>4, <2>3, <2>5 DEF b, q
<1>5. 0 \in S
  <2>1. u \div Place[0] = u
    BY <1>2, Places
  <2>. QED BY <1>3, <2>1
<1>6. ASSUME NEW d \in S, d < w PROVE d + 1 \in S
  <2> DEFINE k == d + 1
  <2>1. d \in Nat /\ k \in 1..w /\ k - 1 = d /\ g[k] = u \div Place[k - 1]
    BY <1>2, <1>6
  <2>. HIDE DEF k
  <2>2. g[k + 1] = u \div Place[k]
    BY <1>4, <2>1
  <2>. QED BY <2>1, <2>2 DEF k
<1>7. g[j] = u \div Place[j - 1]
  <2> DEFINE m == j - 1
  <2>1. m \in Nat /\ m < w /\ m <= w /\ m + 1 = j
    BY <1>2 DEF w
  <2>2. S \in SUBSET Nat /\ \A d \in S : d < m => d + 1 \in S
    <3>1. ASSUME NEW d \in S, d < m PROVE d + 1 \in S
      <4>1. d \in Nat /\ d < w
        BY <1>2, <2>1, <3>1
      <4>. HIDE DEF S
      <4>. QED BY <1>6, <4>1
    <3>. QED BY <3>1
  <2>. HIDE DEF m
  <2>3. m \in S
    <3>. HIDE DEF S
    <3>. QED BY <1>5, <2>1, <2>2, CountUp
  <2>. QED BY <2>1, <2>3 DEF m
<1>8. j \in 1..w
  BY DEF w
<1>. QED BY <1>4, <1>7, <1>8 DEF u

\* A checksum as its field is read: any bytes at all.
LEMMA FieldRead ==
    ASSUME NEW alg, SizeOf(alg) \in 0..8, NEW field \in Seq(Byte), Len(field) = SizeOf(alg)
    PROVE  /\ ReadBytes(alg, field) \in Nat
           /\ \A k \in 1..SizeOf(alg) : field[k] = (ReadBytes(alg, field) \div Place[k - 1]) % Base
<1> DEFINE size == SizeOf(alg)
           all == [k \in 1..8 |-> IF k <= size THEN field[k] ELSE 0]
<1>1. all \in Seq(Byte) /\ Len(all) = 8
  <2>1. \A k \in 1..size : field[k] \in Byte
    BY ElementOfSeq
  <2>2. 0 \in Byte
    BY ChecksumAssumption DEF Byte
  <2>3. all \in [1..8 -> Byte]
    BY <2>1, <2>2
  <2>. QED BY <2>3, SeqDef
<1>2. \A k \in 1..size : all[k] = field[k] /\ k \in 1..8
  OBVIOUS
<1>3. ReadBytes(alg, field) = FromLeBytes(all)
  BY DEF ReadBytes
<1>. HIDE DEF all
<1>4. FromLeBytes(all) \in Nat
  BY <1>1, FromLe
<1>5. \A k \in 1..8 : all[k] = (FromLeBytes(all) \div Place[k - 1]) % Base
  <2>1. ASSUME NEW k \in 1..8 PROVE all[k] = (FromLeBytes(all) \div Place[k - 1]) % Base
    <3>1. Len(all) \in 0..8 /\ k \in 1..Len(all)
      BY <1>1
    <3>. QED BY <1>1, <3>1, DigitsBack
  <2>. QED BY <2>1
<1>. QED BY <1>2, <1>3, <1>4, <1>5

\* A payload does not verify against a field that is not the one its checksum makes.
LEMMA VerifyFails ==
    ASSUME NEW alg, SizeOf(alg) \in 0..8, NEW p, Calculate(alg, p) \in 0..MaxU64,
           NEW field \in Seq(Byte), Len(field) = SizeOf(alg),
           NEW j \in 1..SizeOf(alg), field[j] # SumField(alg, p)[j]
    PROVE  ~Verify(alg, ReadBytes(alg, field), p)
<1> DEFINE v == Calculate(alg, p)
           e == ReadBytes(alg, field)
           size == SizeOf(alg)
           P == Place[size]
<1>1. v \in Nat /\ e \in Nat /\ size \in 0..8 /\ j \in 1..size /\ P \in Nat \ {0}
  <2>1. v \in Nat
    BY Places DEF MaxU64
  <2>2. e \in Nat
    BY FieldRead
  <2>3. P \in Nat \ {0}
    BY Places
  <2>. QED BY <2>1, <2>2, <2>3
<1>2. alg # NoChecksum
  BY DEF SizeOf, NoChecksum, Algorithm
<1>3. SumField(alg, p)[j] = (v \div Place[j - 1]) % Base
  <2>1. SumField(alg, p) = WriteBytes(alg, v)
    BY DEF SumField
  <2>. HIDE DEF v
  <2>. QED BY <1>1, <2>1, SumBytes
<1>4. field[j] = (e \div Place[j - 1]) % Base
  BY FieldRead
<1>. HIDE DEF v, e, P, size
<1>5. ((v % Place[size]) \div Place[j - 1]) % Base = (v \div Place[j - 1]) % Base
  BY <1>1, LowDigits
<1>6. ((e % Place[size]) \div Place[j - 1]) % Base = (e \div Place[j - 1]) % Base
  BY <1>1, LowDigits
<1>7. v % P # e % P
  BY <1>3, <1>4, <1>5, <1>6 DEF P
<1>8. And(v, WidthMask(size)) = v % P /\ And(e, WidthMask(size)) = e % P
  BY <1>1, Masks DEF P
<1>. QED BY <1>2, <1>7, <1>8 DEF Verify, v, e, size

\* Fields of different checksums differ somewhere.
LEMMA SumsDiffer ==
    ASSUME NEW alg, SizeOf(alg) \in 0..8, NEW p, NEW q,
           Calculate(alg, p) \in 0..MaxU64, Calculate(alg, q) \in 0..MaxU64,
           SumField(alg, p) # SumField(alg, q)
    PROVE  \E j \in 1..SizeOf(alg) : SumField(alg, p)[j] # SumField(alg, q)[j]
<1> DEFINE a == SumField(alg, p)
           b == SumField(alg, q)
<1>1. Calculate(alg, p) \in Nat /\ Calculate(alg, q) \in Nat
  BY Places DEF MaxU64
<1>2. a \in Seq(Byte) /\ b \in Seq(Byte) /\ Len(a) = SizeOf(alg) /\ Len(b) = SizeOf(alg)
  BY <1>1, SumBytes DEF SumField
<1>3. a # b
  OBVIOUS
<1>. HIDE DEF a, b
<1>4. \E j \in 1..Len(a) : a[j] # b[j]
  <2>. SUFFICES ASSUME \A j \in 1..Len(a) : a[j] = b[j] PROVE FALSE
    OBVIOUS
  <2>1. a = [j \in 1..Len(a) |-> a[j]] /\ b = [j \in 1..Len(b) |-> b[j]]
    BY <1>2
  <2>. QED BY <1>2, <1>3, <2>1
<1>. QED BY <1>2, <1>4 DEF a, b

\* A whole frame whose checksum field does not fit its payload.
Mismatched(f, bytes, start, p, max) ==
    /\ f.kind = "checksum" /\ IsFormat(f) /\ bytes \in Seq(Byte) /\ start \in Nat
    /\ p \in Seq(Byte) /\ Len(p) <= max /\ max \in Nat
    /\ start + HeaderSize(f) + Len(p) <= Len(bytes)
    /\ DeclaredLen(bytes, start) = Len(p)
    /\ Slice(bytes, start + HeaderSize(f), Len(p)) = p
    /\ ~Verify(f.alg, ReadBytes(f.alg, Slice(bytes, start + 4, SizeOf(f.alg))), p)

\* Reading a frame that does not match its checksum.
LEMMA ReadMismatch ==
    ASSUME NEW f, NEW bytes, NEW start, NEW p, NEW max, Mismatched(f, bytes, start, p, max)
    PROVE  ReadAndDeframe(f, bytes, start, max) = Result("ChecksumMismatch")
<1> DEFINE size == SizeOf(f.alg)
           h == HeaderSize(f)
           n == Len(p)
           sum == ReadBytes(f.alg, Slice(bytes, start + 4, size))
           body == start + h
<1>1. /\ f.kind = "checksum" /\ size \in 0..8 /\ h = 4 + size /\ start \in Nat /\ n \in Nat
      /\ Len(bytes) \in Nat /\ max \in Nat /\ n <= max /\ body + n <= Len(bytes)
      /\ DeclaredLen(bytes, start) = n /\ Slice(bytes, body, n) = p /\ ~Verify(f.alg, sum, p)
  BY LenProperties DEF Mismatched, IsFormat, HeaderSize
<1>2. body \in Nat /\ body = start + (4 + size) /\ body = start + 4 + size /\ start < Len(bytes)
      /\ start + (4 + size) <= Len(bytes)
  <2>1. h \in Nat /\ body = start + (4 + size) /\ size \in Nat
    BY <1>1
  <2>2. body = start + 4 + size /\ body \in Nat /\ body <= Len(bytes)
    <3>. HIDE DEF body, n, size
    <3>. QED BY <1>1, <2>1
  <2>. HIDE DEF body, n, size, h
  <2>. QED BY <1>1, <2>1, <2>2
<1>3. ReadHeader(bytes, start, 4 + size) = "Some"
  <2> DEFINE k == 4 + size
  <2>1. start # Len(bytes) /\ start + k <= Len(bytes)
    BY <1>1, <1>2
  <2>. HIDE DEF k
  <2>2. ReadHeader(bytes, start, k) = "Some"
    BY <2>1 DEF ReadHeader
  <2>. QED BY <2>2 DEF k
<1>4. ReadPayload(bytes, body, n) = Some(p, body + n)
  BY <1>1, <1>2 DEF ReadPayload
<1>5. ReadVerified(f.alg, sum, bytes, body, n) = Result("ChecksumMismatch")
  <2>. HIDE DEF sum, body, n
  <2>1. Some(p, body + n).payload = p /\ Some(p, body + n).kind = "Some"
    BY DEF Some
  <2>. QED BY <1>1, <1>4, <2>1 DEF ReadVerified
<1>6. ~(n > max)
  BY <1>1
<1>7. ReadAndDeframe(f, bytes, start, max) = ReadChecksummed(f.alg, bytes, start, max)
  BY <1>1 DEF ReadAndDeframe
<1>8. ReadChecksummed(f.alg, bytes, start, max)
        = ReadVerified(f.alg, sum, bytes, start + 4 + size, n)
  <2>. HIDE DEF n, body
  <2>. QED BY <1>1, <1>3, <1>6 DEF ReadChecksummed
<1>. QED BY <1>2, <1>5, <1>7, <1>8

-----------------------------------------------------------------------------
(* A clean stream with a byte changed, or with zeros behind it. *)

\* Where the first m frames are as they were, and what is behind them cannot be read.
LEMMA FrontThen ==
    ASSUME Typed, Layout, Clean, NEW m \in 0..Len(accepted),
           NEW bytes \in Seq(Byte), EndOf(m) <= Len(bytes),
           \A q \in 1..EndOf(m) : bytes[q] = sink[q],
           NEW kind, kind # "Some",
           ReadAndDeframe(format, bytes, EndOf(m), MaxWireFrameLen) = Result(kind)
    PROVE  ProcessAll(format, bytes, MaxWireFrameLen)
             = [payloads |-> SubSeq(accepted, 1, m), end |-> kind]
<1> DEFINE less == SubSeq(accepted, 1, m)
<1>1. /\ Run(format, accepted) /\ Exactly(format, accepted, sink) /\ sink \in Seq(Byte)
      /\ Len(accepted) \in Nat /\ Len(bytes) \in Nat
  BY CleanStream, LenProperties
<1>2. less \in Seq(Fitting) /\ Len(less) = m /\ \A i \in 1..m : less[i] = accepted[i]
  <2>1. accepted \in Seq(Fitting)
    BY Runs
  <2>. QED BY <1>1, <2>1
<1>. HIDE DEF less
<1>3. Run(format, less)
  BY <1>2, FittingRun
<1>4. \A i \in 0..m : Ends(format, accepted)[i] = Ends(format, less)[i]
  <2>1. m \in 0..Len(less) /\ m <= Len(accepted) /\ \A i \in 1..m : accepted[i] = less[i]
    BY <1>1, <1>2
  <2>. QED BY <1>1, <1>3, <2>1, EndsAppend
<1>5. Ends(format, less)[m] = EndOf(m) /\ m \in Nat /\ m \in 0..m
  BY <1>4 DEF EndOf
<1>6. Holds(format, less, sink)
  BY <1>1, <1>2, <1>3, HoldsFewer DEF Exactly
<1>7. Laid(format, less, bytes)
  <2>. SUFFICES ASSUME NEW i \in 1..Len(less), NEW k \in 1..Len(Frame(format, less[i]))
                PROVE  bytes[Ends(format, less)[i - 1] + k] = Frame(format, less[i])[k]
    BY DEF Laid, Agrees
  <2> DEFINE at == Ends(format, less)[i - 1] + k
  <2>1. sink[at] = Frame(format, less[i])[k]
    BY <1>6 DEF Holds
  <2>2. at \in 1..EndOf(m)
    <3>1. /\ at \in 1..Ends(format, less)[i]
          /\ Ends(format, less)[i] <= Ends(format, less)[Len(less)]
          /\ Ends(format, less)[i] \in Nat /\ Ends(format, less)[Len(less)] \in Nat
      BY <1>3, FrameWithin
    <3> DEFINE a == Ends(format, less)[i]
               b == Ends(format, less)[Len(less)]
    <3>2. b = EndOf(m)
      BY <1>2, <1>5
    <3>3. at \in 1..a /\ a <= b /\ a \in Nat /\ b \in Nat
      BY <3>1
    <3>. HIDE DEF a, b, at
    <3>. QED BY <3>2, <3>3
  <2>. HIDE DEF at
  <2>3. bytes[at] = sink[at]
    BY <2>2
  <2>. QED BY <2>1, <2>3 DEF at
<1>8. Legible(format, less, bytes, MaxWireFrameLen, m)
  <2>1. MaxWireFrameLen \in Nat
    BY Widths
  <2>2. Reading(format, bytes, MaxWireFrameLen)
    BY <2>1, Given DEF Reading
  <2>3. \A i \in 1..m : Len(less[i]) <= MaxWireFrameLen
    BY <1>2, <1>3 DEF Run, Fits, MaxWireFrameLen
  <2>. QED BY <1>2, <1>3, <1>5, <1>7, <2>2, <2>3 DEF Legible
<1>9. ProcessAll(format, bytes, MaxWireFrameLen) = [payloads |-> SubSeq(less, 1, m), end |-> kind]
  BY <1>5, <1>8, RunEnds
<1>10. SubSeq(less, 1, m) = less
  BY <1>2, SubSeqFull
<1>. QED BY <1>9, <1>10 DEF less

\* The i-th frame of a clean stream, with byte k of the stream changed.
LEMMA DamagedFrame ==
    ASSUME Typed, Layout, Clean, format.kind = "checksum", NEW i \in 1..Len(accepted),
           NEW k \in (EndOf(i - 1) + 5)..EndOf(i)
    PROVE  /\ Damaged(k) \in Seq(Byte) /\ Len(Damaged(k)) = Len(sink) /\ k \in 1..Len(sink)
           /\ Damaged(k)[k] # sink[k] /\ Damaged(k)[k] = (sink[k] + 1) % Base
           /\ \A q \in 1..Len(sink) : q # k => Damaged(k)[q] = sink[q]
           /\ EndOf(i - 1) \in Nat /\ HeaderLen = 4 + SizeOf(format.alg)
           /\ EndOf(i) = EndOf(i - 1) + HeaderLen + Len(accepted[i]) /\ EndOf(i) <= Len(sink)
           /\ \A q \in 1..SizeOf(format.alg) :
                 sink[EndOf(i - 1) + 4 + q] = SumField(format.alg, accepted[i])[q]
           /\ \A q \in 1..Len(accepted[i]) :
                 sink[EndOf(i - 1) + HeaderLen + q] = accepted[i][q]
           /\ DeclaredLen(Damaged(k), EndOf(i - 1)) = Len(accepted[i])
           /\ Len(accepted[i]) \in 0..MaxU32
<1> DEFINE p == accepted[i]
           start == EndOf(i - 1)
           size == SizeOf(format.alg)
           frame == Frame(format, p)
           D == Damaged(k)
<1>1. /\ Run(format, accepted) /\ Exactly(format, accepted, sink) /\ sink \in Seq(Byte)
      /\ HeaderLen = HeaderSize(format) /\ Len(accepted) \in Nat /\ Len(sink) \in Nat
  BY CleanStream
<1>2. Framed(format, p) /\ Fits(p) /\ Len(p) \in Nat /\ p \in Seq(Byte)
  <2>1. Framed(format, p) /\ Fits(p)
    BY <1>1 DEF Run
  <2>2. p \in Seq(Byte)
    BY <2>1 DEF Framed
  <2>. HIDE DEF p
  <2>. QED BY <2>1, <2>2, LenProperties
<1>3. HeaderLen = 4 + size /\ size \in 0..8
  BY <1>1, <1>2 DEF HeaderSize, Framed, IsFormat
<1>4. Len(frame) = HeaderLen + Len(p)
  BY <1>1, <1>2, FrameShape
<1>5. /\ start \in Nat /\ EndOf(i) = start + HeaderLen + Len(p) /\ EndOf(i) <= Len(sink)
      /\ EndOf(i) \in Nat
  <2> DEFINE a == EndOf(i - 1)
             b == EndOf(i)
             c == Len(p)
  <2>1. i \in 0..Len(accepted) /\ i - 1 \in 0..Len(accepted) /\ Len(accepted) \in 0..Len(accepted)
        /\ i \in 0..Len(accepted)
    BY <1>1
  <2>2. a \in Nat
    BY <1>1, <2>1, EndsOf DEF EndOf
  <2>3. b = a + Len(frame)
    BY <1>1, EndsOf DEF EndOf
  <2>4. b <= Ends(format, accepted)[Len(accepted)]
    BY <1>1, <2>1, EndsGrow DEF EndOf
  <2>5. Ends(format, accepted)[Len(accepted)] = Len(sink)
    BY <1>1 DEF Exactly
  <2>. HIDE DEF a, b, c
  <2>6. b = a + HeaderLen + c /\ b \in Nat
    <3>1. HeaderLen \in Nat
      BY <1>3
    <3>2. c \in Nat /\ Len(frame) = HeaderLen + c
      BY <1>2, <1>4 DEF c
    <3>. HIDE DEF frame
    <3>. QED BY <2>2, <2>3, <3>1, <3>2
  <2>. QED BY <2>2, <2>4, <2>5, <2>6 DEF a, b, c
<1>6. k \in 1..Len(sink) /\ k >= start + 5 /\ k \in Nat
  <2>1. start \in Nat /\ EndOf(i) \in Nat
    BY <1>5
  <2>. HIDE DEF start
  <2>2. k \in (start + 5)..EndOf(i)
    BY DEF start
  <2>. QED BY <1>1, <1>5, <2>1, <2>2
<1>7. \A q \in 1..Len(frame) : sink[start + q] = frame[q]
  BY <1>1 DEF Exactly, Holds, EndOf
<1>8. /\ D \in Seq(Byte) /\ Len(D) = Len(sink) /\ D[k] = (sink[k] + 1) % Base
      /\ \A q \in 1..Len(sink) : q # k => D[q] = sink[q]
  <2>1. sink[k] \in Byte /\ Base \in Nat \ {0, 1}
    BY <1>1, <1>6, ElementOfSeq, ChecksumAssumption
  <2>2. (sink[k] + 1) % Base \in Byte
    <3> DEFINE b == sink[k]
    <3>1. b + 1 \in Nat /\ Base \in Nat \ {0}
      BY <2>1 DEF Byte
    <3>. HIDE DEF b
    <3>2. (b + 1) % Base \in 0..(Base - 1)
      BY <3>1, Division
    <3>. QED BY <3>2 DEF b, Byte
  <2>3. D = [sink EXCEPT ![k] = (sink[k] + 1) % Base]
    BY DEF Damaged, Damage
  <2>4. sink \in [1..Len(sink) -> Byte]
    BY <1>1, LenProperties
  <2> DEFINE new == (sink[k] + 1) % Base
             n == Len(sink)
  <2>. HIDE DEF D, new, n
  <2>5. /\ D \in [1..n -> Byte] /\ D[k] = new
        /\ \A q \in 1..n : q # k => D[q] = sink[q]
    <3>1. new \in Byte /\ k \in 1..n /\ sink \in [1..n -> Byte] /\ D = [sink EXCEPT ![k] = new]
      BY <1>6, <2>2, <2>3, <2>4 DEF new, n
    <3>. QED BY <3>1
  <2>6. D \in Seq(Byte) /\ Len(D) = n
    <3>1. n \in Nat
      BY <1>1 DEF n
    <3>. QED BY <2>5, <3>1, SeqDef
  <2>. QED BY <2>5, <2>6 DEF new, n
<1>9. D[k] # sink[k]
  <2> DEFINE b == sink[k]
  <2>1. b \in 0..(Base - 1) /\ Base \in Nat \ {0, 1}
    BY <1>1, <1>6, ElementOfSeq, ChecksumAssumption DEF Byte
  <2>. HIDE DEF b
  <2>2. (b + 1) % Base # b
    <3>1. CASE b + 1 < Base
      <4>1. (b + 1) % Base = b + 1
        BY <2>1, <3>1
      <4>. QED BY <2>1, <4>1
    <3>2. CASE b + 1 = Base
      <4>1. (b + 1) % Base = 0 /\ b # 0
        BY <2>1, <3>2
      <4>. QED BY <4>1
    <3>. QED BY <2>1, <3>1, <3>2
  <2>. QED BY <1>8, <2>2 DEF b
<1>10. \A q \in 1..size : sink[start + 4 + q] = SumField(format.alg, p)[q]
  <2>1. ASSUME NEW q \in 1..size PROVE sink[start + 4 + q] = SumField(format.alg, p)[q]
    <3> DEFINE r == 4 + q
    <3>1. r \in 1..Len(frame) /\ start + r = start + 4 + q
      <4>1. Len(frame) \in Nat /\ Len(frame) = 4 + size + Len(p) /\ Len(p) \in Nat
        BY <1>2, <1>3, <1>4
      <4> DEFINE c == Len(p)
                 l == Len(frame)
      <4>. HIDE DEF c, l, start, size
      <4>2. c \in Nat /\ l = 4 + size + c /\ size \in Nat
        BY <1>3, <4>1 DEF c, l, size
      <4>. QED BY <1>5, <4>2 DEF l, start
    <3>2. frame[r] = SumField(format.alg, p)[q]
      BY <1>2, FrameBytes
    <3>3. sink[start + r] = frame[r]
      BY <1>7, <3>1
    <3>. QED BY <3>1, <3>2, <3>3
  <2>. QED BY <2>1
<1>11. \A q \in 1..Len(p) : sink[start + HeaderLen + q] = p[q]
  <2>1. ASSUME NEW q \in 1..Len(p) PROVE sink[start + HeaderLen + q] = p[q]
    <3> DEFINE r == HeaderLen + q
    <3>1. r \in 1..Len(frame) /\ start + r = start + HeaderLen + q
      <4> DEFINE c == Len(p)
                 l == Len(frame)
      <4>1. c \in Nat /\ l = HeaderLen + c /\ HeaderLen \in Nat /\ q \in 1..c
        BY <1>2, <1>3, <1>4
      <4>. HIDE DEF c, l, start
      <4>. QED BY <1>5, <4>1 DEF l, start
    <3>2. frame[r] = p[q]
      BY <1>1, <1>2, FrameBytes
    <3>3. sink[start + r] = frame[r]
      BY <1>7, <3>1
    <3>. QED BY <3>1, <3>2, <3>3
  <2>. QED BY <2>1
<1>12. DeclaredLen(D, start) = Len(p)
  <2> DEFINE n == Len(p)
             field == LengthField(p)
  <2>1. n \in 0..MaxU32 /\ start + 4 <= Len(D)
    <3>1. MaxU32 \in Nat /\ n \in Nat /\ n <= MaxU32
      BY <1>2, Widths DEF Fits
    <3>2. start + 4 <= Len(D)
      <4>1. Len(D) \in Nat /\ k <= Len(D)
        BY <1>1, <1>6, <1>8
      <4>. HIDE DEF D, start
      <4>. QED BY <1>5, <1>6, <4>1 DEF start
    <3>. QED BY <3>1, <3>2
  <2>2. ASSUME NEW q \in 1..4 PROVE D[start + q] = field[q]
    <3>1. q \in 1..Len(frame)
      <4> DEFINE l == Len(frame)
      <4>1. l = 4 + size + n /\ n \in Nat
        BY <1>2, <1>3, <1>4
      <4>2. size \in Nat
        BY <1>3
      <4>. HIDE DEF l, n, size
      <4>3. q \in 1..l
        BY <4>1, <4>2
      <4>. QED BY <4>3 DEF l
    <3>2. sink[start + q] = frame[q]
      BY <1>7, <3>1
    <3>3. frame[q] = field[q]
      BY <1>2, FrameBytes
    <3>4. start + q \in 1..Len(sink) /\ start + q # k
      <4>. HIDE DEF start
      <4>. QED BY <1>1, <1>5, <1>6 DEF start
    <3>. QED BY <1>8, <3>2, <3>3, <3>4
  <2>3. \A q \in 1..4 : D[start + q] = ToLeBytes(n, 4)[q]
    BY <2>2 DEF LengthField
  <2>. HIDE DEF D, start, n
  <2>4. D \in Seq(Byte) /\ start \in Nat
    BY <1>5, <1>8 DEF start, D
  <2>. QED BY <2>1, <2>3, <2>4, LengthBack DEF n, D, start
<1>13. Len(p) \in 0..MaxU32
  <2>1. MaxU32 \in Nat
    BY Widths
  <2>. QED BY <1>2, <2>1 DEF Fits
<1>. QED BY <1>3, <1>5, <1>6, <1>8, <1>9, <1>10, <1>11, <1>12, <1>13

\* A byte of the checksum field is changed.
LEMMA FieldDamaged ==
    ASSUME Typed, Layout, Clean, format.kind = "checksum", NEW i \in 1..Len(accepted),
           NEW k \in (EndOf(i - 1) + 5)..(EndOf(i - 1) + HeaderLen), k <= EndOf(i)
    PROVE  Mismatched(format, Damaged(k), EndOf(i - 1), accepted[i], MaxWireFrameLen)
<1> DEFINE p == accepted[i]
           start == EndOf(i - 1)
           end == EndOf(i)
           size == SizeOf(format.alg)
           D == Damaged(k)
           n == Len(p)
           field == Slice(D, start + 4, size)
<1>1. IsFormat(format) /\ p \in Payloads /\ p \in Seq(Byte) /\ Calculate(format.alg, p) \in 0..MaxU64
  <2>1. accepted \in Seq(Fitting) /\ Run(format, accepted)
    BY Runs
  <2>2. p \in Fitting
    BY <2>1, ElementOfSeq
  <2>3. Framed(format, p)
    BY <2>1 DEF Run
  <2>. QED BY <2>2, <2>3 DEF Framed, Fitting
<1>2. size \in 0..8 /\ size \in Nat /\ HeaderLen = HeaderSize(format)
  BY <1>1, CleanStream DEF IsFormat
<1>3. sink \in Seq(Byte) /\ Len(sink) \in Nat
  BY CleanStream
<1>4. start \in Nat /\ n \in 0..MaxU32 /\ n \in Nat /\ k \in Nat /\ HeaderLen = 4 + size
      /\ end = start + HeaderLen + n /\ k \in (start + 5)..end
  <2>1. start \in Nat /\ HeaderLen = 4 + size
    <3>1. EndOf(i - 1) \in Nat
      <4>1. i - 1 \in 0..Len(accepted) /\ Run(format, accepted)
        BY CleanStream
      <4> DEFINE j == i - 1
      <4>. HIDE DEF j
      <4>2. Ends(format, accepted)[j] \in Nat
        BY <4>1, EndsOf DEF j
      <4>. QED BY <4>2 DEF EndOf, j
    <3>. QED BY <1>2, <3>1 DEF HeaderSize
  <2>2. k \in Nat /\ k \in (start + 5)..end
    <3>. HIDE DEF start, end, size
    <3>1. k \in (start + 5)..(start + HeaderLen) /\ k <= end
      BY DEF start, end
    <3>2. end \in Int
      <4>1. i \in 0..Len(accepted) /\ Run(format, accepted)
        BY CleanStream
      <4>. QED BY <4>1, EndsOf DEF EndOf, end
    <3>. QED BY <1>2, <2>1, <3>1, <3>2
  <2>3. n \in 0..MaxU32 /\ end = start + HeaderLen + n
    BY <2>2, DamagedFrame
  <2>4. n \in Nat
    BY <2>3, Widths
  <2>. QED BY <2>1, <2>2, <2>3, <2>4
<1>5. /\ D \in Seq(Byte) /\ Len(D) = Len(sink) /\ D[k] # sink[k]
      /\ \A q \in 1..Len(sink) : q # k => D[q] = sink[q]
      /\ end <= Len(sink) /\ DeclaredLen(D, start) = n
      /\ \A q \in 1..size : sink[start + 4 + q] = SumField(format.alg, p)[q]
      /\ \A q \in 1..n : sink[start + HeaderLen + q] = p[q]
  BY <1>4, DamagedFrame
<1>6. k \in (start + 5)..(start + HeaderLen)
  OBVIOUS
<1>. HIDE DEF p, start, end, size, D, n
<1>7. ~Verify(format.alg, ReadBytes(format.alg, field), p)
  <2> DEFINE at == start + 4
             j == k - at
  <2>1. at \in Nat /\ at + size <= Len(D) /\ j \in 1..size /\ at + j = k
    <3> DEFINE l == Len(D)
    <3>1. /\ start \in Nat /\ size \in Nat /\ n \in Nat /\ HeaderLen = 4 + size /\ k \in Nat
          /\ end = start + HeaderLen + n
      BY <1>2, <1>4
    <3>2. l \in Nat /\ end <= l
      BY <1>3, <1>5
    <3>3. start + 5 <= k /\ k <= start + HeaderLen
      BY <1>6, <3>1
    <3>. HIDE DEF l
    <3>4. at \in Nat /\ at + size <= l /\ j \in 1..size /\ at + j = k
      BY <3>1, <3>2, <3>3
    <3>. QED BY <3>4 DEF l
  <2>2. field = Slice(D, at, size)
    OBVIOUS
  <2>. HIDE DEF at, j
  <2>3. field \in Seq(Byte) /\ Len(field) = size /\ field[j] = D[at + j]
    BY <1>2, <1>5, <2>1, <2>2, Pieces
  <2>4. sink[at + j] = SumField(format.alg, p)[j]
    BY <1>5, <2>1 DEF at
  <2>5. field[j] # SumField(format.alg, p)[j]
    BY <1>5, <2>1, <2>3, <2>4
  <2>. HIDE DEF field
  <2>. QED BY <1>1, <1>2, <2>1, <2>3, <2>5, VerifyFails DEF size
<1>8. Slice(D, start + HeaderLen, n) = p
  <2> DEFINE at == start + HeaderLen
  <2>1. at \in Nat /\ at + n <= Len(D)
    BY <1>2, <1>3, <1>4, <1>5
  <2>2. ASSUME NEW q \in 1..n PROVE D[at + q] = p[q]
    <3>1. at + q \in 1..Len(sink) /\ at + q # k
      BY <1>2, <1>3, <1>4, <1>5, <1>6
    <3>. QED BY <1>5, <3>1
  <2>. HIDE DEF at
  <2>3. Slice(D, at, Len(p)) = p
    <3>1. at + Len(p) <= Len(D) /\ \A q \in 1..Len(p) : D[at + q] = p[q]
      BY <2>1, <2>2 DEF n
    <3>. QED BY <1>1, <1>5, <2>1, <3>1, SamePiece
  <2>. QED BY <2>3 DEF at, n
<1>9. MaxWireFrameLen \in Nat /\ n <= MaxWireFrameLen
  BY <1>4, Widths DEF MaxWireFrameLen
<1>10. start + HeaderLen + n <= Len(D)
  BY <1>4, <1>5
<1>. QED BY <1>1, <1>2, <1>4, <1>5, <1>7, <1>8, <1>9, <1>10 DEF Mismatched, p, start, size, D, n

\* A byte of the payload is changed, and the checksum shows it.
LEMMA PayloadDamaged ==
    ASSUME Typed, Layout, Clean, format.kind = "checksum", NEW i \in 1..Len(accepted),
           NEW k \in (EndOf(i - 1) + HeaderLen + 1)..EndOf(i),
           NEW after, after = SubSeq(Damaged(k), EndOf(i - 1) + HeaderLen + 1, EndOf(i)),
           SumField(format.alg, after) # SumField(format.alg, accepted[i])
    PROVE  Mismatched(format, Damaged(k), EndOf(i - 1), after, MaxWireFrameLen)
<1> DEFINE p == accepted[i]
           start == EndOf(i - 1)
           end == EndOf(i)
           size == SizeOf(format.alg)
           D == Damaged(k)
           n == Len(p)
           field == Slice(D, start + 4, size)
           at == start + HeaderLen
<1>1. /\ IsFormat(format) /\ p \in Payloads /\ p \in Seq(Byte) /\ format \in Formats
      /\ Calculate(format.alg, p) \in 0..MaxU64
  <2>1. accepted \in Seq(Fitting) /\ Run(format, accepted)
    BY Runs
  <2>2. p \in Fitting
    BY <2>1, ElementOfSeq
  <2>3. Framed(format, p)
    BY <2>1 DEF Run
  <2>4. format \in Formats
    BY DEF Typed, TypeOK
  <2>. QED BY <2>2, <2>3, <2>4 DEF Framed, Fitting
<1>2. size \in 0..8 /\ size \in Nat /\ HeaderLen = HeaderSize(format) /\ HeaderLen = 4 + size
  <2>1. HeaderLen = HeaderSize(format) /\ size \in 0..8
    BY <1>1, CleanStream DEF IsFormat
  <2>. QED BY <2>1 DEF HeaderSize
<1>3. sink \in Seq(Byte) /\ Len(sink) \in Nat
  BY CleanStream
<1>4. start \in Nat /\ k \in (start + 5)..end /\ k \in Nat
  <2>1. i - 1 \in 0..Len(accepted) /\ i \in 0..Len(accepted) /\ Run(format, accepted)
    BY CleanStream
  <2> DEFINE j == i - 1
  <2>. HIDE DEF j
  <2>2. Ends(format, accepted)[j] \in Nat /\ Ends(format, accepted)[i] \in Nat
    BY <2>1, EndsOf DEF j
  <2>3. start \in Nat /\ end \in Nat
    BY <2>2 DEF EndOf, j
  <2>4. k \in (start + HeaderLen + 1)..end
    OBVIOUS
  <2>. HIDE DEF start, end, size
  <2>. QED BY <1>2, <2>3, <2>4
<1>5. /\ D \in Seq(Byte) /\ Len(D) = Len(sink) /\ D[k] = (sink[k] + 1) % Base
      /\ \A q \in 1..Len(sink) : q # k => D[q] = sink[q]
      /\ end = start + HeaderLen + n /\ end <= Len(sink) /\ DeclaredLen(D, start) = n
      /\ \A q \in 1..size : sink[start + 4 + q] = SumField(format.alg, p)[q]
      /\ \A q \in 1..n : sink[start + HeaderLen + q] = p[q]
      /\ n \in 0..MaxU32
  BY <1>4, DamagedFrame
<1>6. k \in (start + HeaderLen + 1)..end /\ after = SubSeq(D, start + HeaderLen + 1, end)
      /\ SumField(format.alg, after) # SumField(format.alg, p)
  OBVIOUS
<1>7. n \in Nat
  BY <1>5, Widths
<1>. HIDE DEF p, start, end, size, D, n
<1>8. at \in Nat /\ at + n = end /\ at + n <= Len(D) /\ after = Slice(D, at, n)
  <2>1. at \in Nat /\ at + n = end /\ at + n <= Len(D)
    BY <1>2, <1>3, <1>4, <1>5, <1>7
  <2>. QED BY <1>6, <2>1 DEF Slice
<1>9. after \in Seq(Byte) /\ Len(after) = n /\ \A q \in 1..n : after[q] = D[at + q]
  <2>1. at \in Nat /\ n \in Nat /\ at + n <= Len(D) /\ D \in Seq(Byte)
    BY <1>5, <1>7, <1>8
  <2>2. after = Slice(D, at, n)
    BY <1>8
  <2>. HIDE DEF at
  <2>3. /\ Slice(D, at, n) \in Seq(Byte) /\ Len(Slice(D, at, n)) = n
        /\ \A q \in 1..n : Slice(D, at, n)[q] = D[at + q]
    BY <2>1, Pieces
  <2>. QED BY <2>2, <2>3
<1>10. after = Damage(p, k - at)
  <2> DEFINE j == k - at
             new == (p[j] + 1) % Base
  <2>1. j \in 1..n /\ at + j = k
    BY <1>2, <1>4, <1>6, <1>7, <1>8
  <2>2. p \in [1..n -> Byte] /\ p = [q \in 1..n |-> p[q]]
    BY <1>1, LenProperties DEF n
  <2>3. Damage(p, j) = [p EXCEPT ![j] = new]
    BY DEF Damage
  <2>4. sink[k] = p[j]
    BY <1>5, <2>1
  <2>5. after[j] = new
    BY <1>5, <1>9, <2>1, <2>4
  <2>6. ASSUME NEW q \in 1..n, q # j PROVE after[q] = p[q]
    <3>1. at + q # k /\ at + q \in 1..Len(sink)
      <4> DEFINE l == Len(sink)
      <4>1. at \in Nat /\ n \in Nat /\ at + n <= l /\ l \in Nat
        BY <1>3, <1>5, <1>7, <1>8
      <4>. HIDE DEF at, l, j
      <4>2. at + q # k /\ at + q \in 1..l
        BY <2>1, <2>6, <4>1
      <4>. QED BY <4>2 DEF at, l
    <3>. QED BY <1>5, <1>9, <3>1
  <2>7. after = [q \in 1..n |-> after[q]]
    BY <1>9, LenProperties
  <2>. HIDE DEF j, new, at
  <2>8. [p EXCEPT ![j] = new] = [q \in 1..n |-> IF q = j THEN new ELSE p[q]]
    BY <2>2
  <2>9. after = [q \in 1..n |-> IF q = j THEN new ELSE p[q]]
    <3>1. \A q \in 1..n : after[q] = IF q = j THEN new ELSE p[q]
      BY <2>1, <2>5, <2>6
    <3>. QED BY <2>7, <3>1
  <2>. QED BY <2>3, <2>8, <2>9 DEF j
<1>11. Calculate(format.alg, after) \in 0..MaxU64
  <2> DEFINE j == k - at
  <2>1. j \in DOMAIN p
    <3>1. j \in 1..n
      BY <1>2, <1>4, <1>6, <1>7, <1>8
    <3>2. DOMAIN p = 1..n
      BY <1>1, LenProperties DEF n
    <3>. QED BY <3>1, <3>2
  <2>. HIDE DEF j
  <2>2. Calculate(format.alg, Damage(p, j)) \in 0..MaxU64
    BY <1>1, <2>1, WriteStackAssumption
  <2>. QED BY <1>10, <2>2 DEF j
<1>12. ~Verify(format.alg, ReadBytes(format.alg, field), after)
  <2> DEFINE b == start + 4
  <2>1. b \in Nat /\ b + size <= Len(D)
    <3> DEFINE l == Len(D)
    <3>1. start \in Nat /\ size \in Nat
      BY <1>2, <1>4
    <3>2. start + HeaderLen <= l /\ HeaderLen = 4 + size /\ l \in Nat
      BY <1>2, <1>3, <1>4, <1>5, <1>7
    <3>. HIDE DEF l, start, size
    <3>. QED BY <3>1, <3>2 DEF l
  <2>2. field = Slice(D, b, size)
    OBVIOUS
  <2>. HIDE DEF b
  <2>3. field \in Seq(Byte) /\ Len(field) = size /\ \A q \in 1..size : field[q] = D[b + q]
    BY <1>2, <1>5, <2>1, <2>2, Pieces
  <2>4. PICK j \in 1..size : SumField(format.alg, after)[j] # SumField(format.alg, p)[j]
    BY <1>1, <1>2, <1>6, <1>11, SumsDiffer DEF size
  <2>5. b + j \in 1..Len(sink) /\ b + j # k
    <3> DEFINE l == Len(sink)
    <3>1. b \in Nat /\ b + size <= l /\ l \in Nat /\ b = start + 4 /\ size \in Nat
          /\ HeaderLen = 4 + size /\ start \in Nat /\ k \in Nat
      BY <1>2, <1>3, <1>4, <1>5, <2>1 DEF b
    <3>2. start + HeaderLen + 1 <= k
      BY <1>4, <1>6
    <3>. HIDE DEF l
    <3>3. b + j \in 1..l /\ b + j # k
      BY <2>4, <3>1, <3>2
    <3>. QED BY <3>3 DEF l
  <2>6. field[j] = SumField(format.alg, p)[j]
    BY <1>5, <2>3, <2>4, <2>5 DEF b
  <2>7. field[j] # SumField(format.alg, after)[j]
    BY <2>4, <2>6
  <2>. HIDE DEF field
  <2>. QED BY <1>2, <1>11, <2>3, <2>4, <2>7, VerifyFails DEF size
<1>13. MaxWireFrameLen \in Nat /\ n <= MaxWireFrameLen
  BY <1>5, Widths DEF MaxWireFrameLen
<1>14. Slice(D, start + HeaderLen, Len(after)) = after
  BY <1>8, <1>9
<1>. QED BY <1>1, <1>2, <1>4, <1>5, <1>8, <1>9, <1>12, <1>13, <1>14
         DEF Mismatched, start, size, D

(***************************************************************************)
(* A changed byte of a checksum field, or one of a payload that changes    *)
(* what the field can hold of the checksum, ends the read in               *)
(* ChecksumMismatch at that frame: the frames before it are delivered.     *)
(***************************************************************************)
THEOREM DamageFound == Spec => []DamageDetected
<1>1. ASSUME Typed, Layout PROVE DamageDetected
  <2>. SUFFICES ASSUME Clean, format.kind = "checksum", NEW i \in 1..Len(accepted)
                PROVE  LET alg   == format.alg
                           start == EndOf(i - 1)
                           found(k) == ProcessAll(format, Damaged(k), MaxWireFrameLen)
                                           = [payloads |-> SubSeq(accepted, 1, i - 1),
                                              end |-> "ChecksumMismatch"]
                           after(k) == SubSeq(Damaged(k), start + HeaderLen + 1, EndOf(i))
                       IN  /\ \A k \in (start + 5)..(start + HeaderLen) : found(k)
                           /\ \A k \in (start + HeaderLen + 1)..EndOf(i) :
                                 SumField(alg, after(k)) # SumField(alg, accepted[i]) => found(k)
    BY DEF DamageDetected
  <2> DEFINE start == EndOf(i - 1)
             end == EndOf(i)
             m == i - 1
             n == Len(accepted[i])
  <2>1. /\ start \in Nat /\ end \in Nat /\ m \in 0..Len(accepted) /\ i \in 0..Len(accepted)
        /\ start = EndOf(m) /\ Run(format, accepted) /\ HeaderLen = HeaderSize(format)
        /\ end = start + HeaderLen + n /\ HeaderLen \in Nat /\ HeaderLen >= 4 /\ n \in Nat
    <3>1. m \in 0..Len(accepted) /\ i \in 0..Len(accepted) /\ Run(format, accepted)
          /\ HeaderLen = HeaderSize(format) /\ Framed(format, <<>>)
      BY <1>1, CleanStream
    <3>2. start = EndOf(m)
      OBVIOUS
    <3>. HIDE DEF m
    <3>3. Ends(format, accepted)[m] \in Nat /\ Ends(format, accepted)[i] \in Nat
      BY <3>1, EndsOf
    <3>4. HeaderLen \in Nat /\ HeaderLen >= 4
      BY <3>1, Fields
    <3>5. Framed(format, accepted[i])
      BY <3>1 DEF Run
    <3>6. n \in Nat
      <4>1. accepted[i] \in Seq(Byte)
        BY <3>5 DEF Framed
      <4>. QED BY <4>1, LenProperties
    <3>7. EndOf(i) = EndOf(i - 1) + (HeaderLen + n)
      <4>1. Ends(format, accepted)[i] = Ends(format, accepted)[i - 1] + Len(Frame(format, accepted[i]))
        BY <3>1, EndsOf
      <4>2. Len(Frame(format, accepted[i])) = HeaderLen + n
        BY <3>1, <3>5, FrameShape
      <4>. QED BY <4>1, <4>2 DEF EndOf
    <3>8. start \in Nat /\ end \in Nat /\ end = start + (HeaderLen + n)
      BY <3>2, <3>3, <3>7 DEF EndOf
    <3>9. end = start + HeaderLen + n
      <4>. HIDE DEF start, end, n
      <4>. QED BY <3>4, <3>6, <3>8
    <3>. QED BY <3>1, <3>2, <3>4, <3>6, <3>8, <3>9
  <2>. HIDE DEF m, n
  <2>2. ASSUME NEW k \in (start + 5)..end, NEW p, Mismatched(format, Damaged(k), start, p, MaxWireFrameLen)
        PROVE  ProcessAll(format, Damaged(k), MaxWireFrameLen)
                   = [payloads |-> SubSeq(accepted, 1, m), end |-> "ChecksumMismatch"]
    <3> DEFINE D == Damaged(k)
    <3>1. ReadAndDeframe(format, D, start, MaxWireFrameLen) = Result("ChecksumMismatch")
      BY <2>2, ReadMismatch
    <3>2. /\ D \in Seq(Byte) /\ Len(D) = Len(sink) /\ end <= Len(sink) /\ Len(sink) \in Nat
          /\ \A q \in 1..Len(sink) : q # k => D[q] = sink[q]
      BY <1>1, <2>2, CleanStream, DamagedFrame
    <3>. HIDE DEF D, start, end
    <3>3. start <= Len(D)
      <4>1. start \in Nat /\ k \in Nat /\ start <= k /\ k <= end /\ end \in Nat
        <5>1. start \in Nat /\ end \in Nat
          BY <2>1
        <5>2. k \in (start + 5)..end
          OBVIOUS
        <5>. QED BY <5>1, <5>2
      <4>2. start <= end /\ end <= Len(sink) /\ Len(D) = Len(sink) /\ Len(sink) \in Nat
        BY <3>2, <4>1
      <4>. QED BY <4>1, <4>2
    <3>4. ASSUME NEW q \in 1..start PROVE D[q] = sink[q]
      <4>1. start \in Nat /\ q \in Nat /\ q <= start /\ start <= Len(sink)
        BY <2>1, <3>2, <3>3
      <4>2. start + 5 <= k
        BY <2>1, <2>2
      <4>3. q \in 1..Len(sink) /\ q # k
        BY <3>2, <4>1, <4>2
      <4>. QED BY <3>2, <4>3
    <3>5. EndOf(m) <= Len(D) /\ \A q \in 1..EndOf(m) : D[q] = sink[q]
      BY <2>1, <3>3, <3>4
    <3>6. ReadAndDeframe(format, D, EndOf(m), MaxWireFrameLen) = Result("ChecksumMismatch")
      BY <2>1, <3>1
    <3> DEFINE kind == "ChecksumMismatch"
    <3>7. kind # "Some" /\ ReadAndDeframe(format, D, EndOf(m), MaxWireFrameLen) = Result(kind)
      BY <3>6
    <3>. HIDE DEF kind
    <3>8. ProcessAll(format, D, MaxWireFrameLen) = [payloads |-> SubSeq(accepted, 1, m), end |-> kind]
      BY <1>1, <2>1, <3>2, <3>5, <3>7, FrontThen
    <3>. QED BY <3>8 DEF D, kind
  <2>3. ASSUME NEW k \in (start + 5)..(start + HeaderLen)
        PROVE  ProcessAll(format, Damaged(k), MaxWireFrameLen)
                   = [payloads |-> SubSeq(accepted, 1, m), end |-> "ChecksumMismatch"]
    <3>1. k <= end /\ k \in (start + 5)..end
      <4>. HIDE DEF start, end
      <4>. QED BY <2>1, <2>3
    <3>2. Mismatched(format, Damaged(k), start, accepted[i], MaxWireFrameLen)
      BY <1>1, <2>3, <3>1, FieldDamaged
    <3>. QED BY <2>2, <3>1, <3>2
  <2>4. ASSUME NEW k \in (start + HeaderLen + 1)..end,
               NEW after, after = SubSeq(Damaged(k), start + HeaderLen + 1, end),
               SumField(format.alg, after) # SumField(format.alg, accepted[i])
        PROVE  ProcessAll(format, Damaged(k), MaxWireFrameLen)
                   = [payloads |-> SubSeq(accepted, 1, m), end |-> "ChecksumMismatch"]
    <3>1. k \in (start + 5)..end
      <4>1. k \in (start + HeaderLen + 1)..end
        BY <2>4
      <4>2. start \in Nat /\ end \in Nat /\ HeaderLen \in Nat /\ HeaderLen >= 4
        BY <2>1
      <4>. HIDE DEF start, end
      <4>. QED BY <4>1, <4>2
    <3>2. Mismatched(format, Damaged(k), start, after, MaxWireFrameLen)
      BY <1>1, <2>4, PayloadDamaged
    <3>. QED BY <2>2, <3>1, <3>2
  <2>. QED BY <2>3, <2>4 DEF m
<1>. QED BY <1>1, AlwaysLayout, PTL

\* The zeros that a crash has left behind a stream.
Zeros(m) == [k \in 1..m |-> 0]
Hole(bytes, start, m) ==
    /\ bytes \in Seq(Byte) /\ start \in Nat /\ m \in Nat
    /\ Len(bytes) = start + m /\ \A k \in 1..m : bytes[start + k] = 0

\* Zeros behind bytes are a hole there.
LEMMA ZerosBehind ==
    ASSUME NEW bytes \in Seq(Byte), NEW m \in Nat
    PROVE  /\ Hole(bytes \o Zeros(m), Len(bytes), m)
           /\ \A q \in 1..Len(bytes) : (bytes \o Zeros(m))[q] = bytes[q]
<1> DEFINE z == Zeros(m)
<1>1. z \in Seq(Byte) /\ Len(z) = m /\ \A k \in 1..m : z[k] = 0
  <2>1. 0 \in Byte
    BY ChecksumAssumption DEF Byte
  <2>2. z \in [1..m -> Byte] /\ \A k \in 1..m : z[k] = 0
    BY <2>1 DEF Zeros
  <2>. HIDE DEF z
  <2>. QED BY <2>2, SeqDef
<1>. HIDE DEF z
<1>2. bytes \o z \in Seq(Byte) /\ Len(bytes \o z) = Len(bytes) + m /\ Len(bytes) \in Nat
  BY <1>1, Glued, LenProperties
<1>3. /\ \A q \in 1..Len(bytes) : (bytes \o z)[q] = bytes[q]
      /\ \A k \in 1..m : (bytes \o z)[Len(bytes) + k] = 0
  BY <1>1, GluedBytes
<1>. QED BY <1>2, <1>3 DEF Hole, z

\* The frame of an empty payload is all zeros.
ZeroFrame(f) ==
    /\ f.kind # "magic"
    /\ f.alg # NoChecksum => \A k \in 1..SizeOf(f.alg) : SumField(f.alg, <<>>)[k] = 0

\* The length field of an empty payload is all zeros.
LEMMA ZeroLength ==
    /\ <<>> \in Seq(Byte) /\ Len(<<>>) = 0 /\ 0 \in 0..MaxU32
    /\ \A k \in 1..4 : LengthField(<<>>)[k] = 0 /\ ToLeBytes(0, 4)[k] = 0
<1>1. ASSUME NEW k \in 1..4 PROVE (0 \div Place[k - 1]) % Base = 0
  <2>1. Place[k - 1] \in Nat \ {0} /\ Base \in Nat \ {0, 1}
    <3>1. k - 1 \in 0..8
      OBVIOUS
    <3>. QED BY <3>1, Places, ChecksumAssumption
  <2> DEFINE b == Place[k - 1]
  <2>. HIDE DEF b
  <2>2. b \in Nat \ {0}
    BY <2>1 DEF b
  <2>3. 0 \div b = 0
    BY <2>2
  <2>4. 0 % Base = 0
    BY <2>1
  <2>. QED BY <2>3, <2>4 DEF b
<1>2. Len(<<>>) = 0 /\ <<>> \in Seq(Byte)
  OBVIOUS
<1>3. \A k \in 1..4 : ToLeBytes(0, 4)[k] = 0
  BY <1>1 DEF ToLeBytes
<1>. QED BY <1>2, <1>3, Widths DEF LengthField

\* A hole that could hold a header declares a length of zero.
LEMMA HoleLength ==
    ASSUME NEW bytes, NEW start, NEW m, Hole(bytes, start, m), m >= 4
    PROVE  DeclaredLen(bytes, start) = 0
<1>1. bytes \in Seq(Byte) /\ start \in Nat /\ m \in Nat /\ Len(bytes) = start + m
      /\ \A k \in 1..m : bytes[start + k] = 0
  BY DEF Hole
<1>2. start + 4 <= Len(bytes)
  BY <1>1
<1> DEFINE n == 0
<1>3. n \in 0..MaxU32 /\ \A k \in 1..4 : bytes[start + k] = ToLeBytes(n, 4)[k]
  BY <1>1, ZeroLength
<1>. HIDE DEF n
<1>4. DeclaredLen(bytes, start) = n
  BY <1>1, <1>2, <1>3, LengthBack
<1>. QED BY <1>4 DEF n

\* Where zeros are no frame, a hole gives no payload.
LEMMA HoleUnread ==
    ASSUME NEW f, Framed(f, <<>>), ~ZeroFrame(f),
           NEW bytes, NEW start, NEW m, Hole(bytes, start, m), m # 0
    PROVE  \E kind : kind # "Some"
                     /\ ReadAndDeframe(f, bytes, start, MaxWireFrameLen) = Result(kind)
<1> DEFINE h == HeaderSize(f)
           max == MaxWireFrameLen
           eof == "UnexpectedEof"
<1>1. /\ bytes \in Seq(Byte) /\ start \in Nat /\ m \in Nat /\ Len(bytes) = start + m
      /\ \A k \in 1..m : bytes[start + k] = 0
      /\ Len(bytes) \in Nat /\ max \in Nat
  BY Widths DEF Hole
<1>2. f.kind \in {"checksum", "magic"} /\ SizeOf(f.alg) \in 0..8 /\ IsFormat(f)
  BY DEF Framed, IsFormat, ZeroFrame
<1>3. h \in Nat /\ h >= 4
  BY Fields
<1>4. /\ m < h => ReadHeader(bytes, start, h) = eof
      /\ m >= h => ReadHeader(bytes, start, h) = "Some"
  <2>. HIDE DEF h
  <2>1. start # Len(bytes) /\ (m < h <=> ~(start + h <= Len(bytes)))
    BY <1>1, <1>3
  <2>. QED BY <1>1, <1>3, <2>1 DEF ReadHeader
<1>. HIDE DEF max
<1>5. CASE f.kind = "checksum"
  <2> DEFINE size == SizeOf(f.alg)
             field == Slice(bytes, start + 4, size)
  <2>1. h = 4 + size /\ ReadAndDeframe(f, bytes, start, max) = ReadChecksummed(f.alg, bytes, start, max)
    BY <1>5 DEF HeaderSize, ReadAndDeframe
  <2>2. CASE m < h
    <3>1. ReadHeader(bytes, start, 4 + size) = eof
      BY <1>4, <2>1, <2>2
    <3>2. ReadChecksummed(f.alg, bytes, start, max) = Result(eof)
      BY <3>1 DEF ReadChecksummed
    <3>. QED BY <2>1, <3>2 DEF max
  <2>3. CASE m >= h
    <3>1. PICK j \in 1..size : SumField(f.alg, <<>>)[j] # 0
      BY <1>5 DEF ZeroFrame
    <3>2. start + 4 \in Nat /\ start + 4 + size <= Len(bytes) /\ size \in Nat
          /\ start + h <= Len(bytes) /\ m >= 4 /\ start + h \in Nat
      <4>. HIDE DEF h, size
      <4>1. size \in Nat
        BY <1>2 DEF size
      <4>. QED BY <1>1, <1>3, <2>1, <2>3, <4>1
    <3>3. field \in Seq(Byte) /\ Len(field) = size /\ field[j] = 0
      <4> DEFINE at == start + 4
      <4>1. at \in Nat /\ at + size <= Len(bytes) /\ at + j = start + (4 + j) /\ 4 + j \in 1..m
        <5>1. at \in Nat /\ size \in Nat /\ at + size <= Len(bytes) /\ at = start + 4
              /\ start \in Nat /\ m \in Nat /\ Len(bytes) = start + m
          BY <1>1, <3>2
        <5>. HIDE DEF at, size
        <5>. QED BY <3>1, <5>1
      <4>2. field = Slice(bytes, at, size)
        OBVIOUS
      <4>3. bytes \in Seq(Byte) /\ size \in Nat
        BY <1>1, <3>2
      <4>. HIDE DEF at, size, field
      <4>4. Slice(bytes, at, size) \in Seq(Byte) /\ Len(Slice(bytes, at, size)) = size
            /\ \A k \in 1..size : Slice(bytes, at, size)[k] = bytes[at + k]
        BY <4>1, <4>3, Pieces
      <4>. QED BY <1>1, <3>1, <4>1, <4>2, <4>4
    <3>4. ~Verify(f.alg, ReadBytes(f.alg, field), <<>>)
      <4>1. Calculate(f.alg, <<>>) \in 0..MaxU64 /\ field[j] # SumField(f.alg, <<>>)[j]
        BY <3>1, <3>3 DEF Framed
      <4> DEFINE p == <<>>
      <4>2. Calculate(f.alg, p) \in 0..MaxU64 /\ field[j] # SumField(f.alg, p)[j]
        BY <4>1
      <4>. HIDE DEF field, p
      <4>3. ~Verify(f.alg, ReadBytes(f.alg, field), p)
        BY <1>2, <3>1, <3>3, <4>2, VerifyFails
      <4>. QED BY <4>3 DEF p
    <3>5. DeclaredLen(bytes, start) = 0
      BY <3>2, HoleLength
    <3>6. Slice(bytes, start + h, 0) = <<>>
      <4>1. SubSeq(bytes, start + h + 1, start + h + 0) = <<>>
        <5> DEFINE a == start + h
        <5>1. a \in Nat /\ a + 0 < a + 1
          BY <3>2
        <5>. HIDE DEF a
        <5>2. SubSeq(bytes, a + 1, a + 0) = <<>>
          BY <1>1, <5>1
        <5>. QED BY <5>2 DEF a
      <4>. QED BY <4>1 DEF Slice
    <3>7. Mismatched(f, bytes, start, <<>>, max)
      <4>1. 0 <= max /\ start + h + 0 <= Len(bytes)
        BY <1>1, <3>2
      <4>. HIDE DEF h
      <4>. QED BY <1>1, <1>2, <1>5, <3>4, <3>5, <3>6, <4>1, ZeroLength DEF Mismatched, h
    <3> DEFINE none == <<>>
    <3>8. Mismatched(f, bytes, start, none, max)
      BY <3>7
    <3>. HIDE DEF none
    <3>9. ReadAndDeframe(f, bytes, start, max) = Result("ChecksumMismatch")
      BY <3>8, ReadMismatch
    <3>. QED BY <3>9 DEF max
  <2>. QED BY <1>1, <1>3, <2>2, <2>3
<1>6. CASE f.kind = "magic"
  <2> DEFINE size == Len(Magic)
  <2>1. /\ h = size + 4 /\ ReadAndDeframe(f, bytes, start, max) = ReadMagic(bytes, start, max)
        /\ size \in Nat
    BY <1>6, FramingAssumption, LenProperties DEF HeaderSize, ReadAndDeframe
  <2>2. CASE m < h
    <3>1. ReadHeader(bytes, start, size + 4) = eof
      BY <1>4, <2>1, <2>2
    <3>2. ReadMagic(bytes, start, max) = Result(eof)
      BY <3>1 DEF ReadMagic
    <3>. QED BY <2>1, <3>2 DEF max
  <2>3. CASE m >= h
    <3>1. PICK j \in 1..size : Magic[j] # 0
      BY FramingAssumption, LenProperties
    <3>2. start + size <= Len(bytes) /\ j \in 1..m
      <4>. HIDE DEF h, size
      <4>. QED BY <1>1, <2>1, <2>3, <3>1
    <3>3. Slice(bytes, start, size)[j] = 0
      <4>. HIDE DEF size
      <4>1. Slice(bytes, start, size)[j] = bytes[start + j]
        BY <1>1, <2>1, <3>1, <3>2, Pieces
      <4>. QED BY <1>1, <3>2, <4>1
    <3>4. Slice(bytes, start, size) # Magic
      BY <3>1, <3>3
    <3>5. ReadHeader(bytes, start, size + 4) = "Some"
      BY <1>4, <2>1, <2>3
    <3>6. ReadMagic(bytes, start, max) = Result("InvalidFrame")
      BY <3>4, <3>5 DEF ReadMagic
    <3>. QED BY <2>1, <3>6 DEF max
  <2>. QED BY <1>1, <1>3, <2>2, <2>3
<1>. QED BY <1>2, <1>5, <1>6

\* Where an empty frame is all zeros, it is as many zeros as its header has bytes.
LEMMA FrameZeros ==
    ASSUME NEW f, Framed(f, <<>>), ZeroFrame(f)
    PROVE  Frame(f, <<>>) = Zeros(HeaderSize(f))
<1> DEFINE frame == Frame(f, <<>>)
           h == HeaderSize(f)
           size == SizeOf(f.alg)
<1>1. frame \in Seq(Byte) /\ Len(frame) = h /\ h \in Nat /\ size \in 0..8
  <2>1. frame \in Seq(Byte) /\ Len(frame) = h + Len(<<>>) /\ h \in Nat /\ size \in 0..8
    BY FrameShape, Fields
  <2>2. Len(<<>>) = 0
    OBVIOUS
  <2>. HIDE DEF frame, h, size
  <2>. QED BY <2>1, <2>2
<1>2. f.kind \in {"default", "checksum"} /\ (f.kind = "default" => h = 4)
      /\ (f.kind = "checksum" => h = 4 + size)
  BY DEF Framed, IsFormat, ZeroFrame, HeaderSize
<1>3. \A k \in 1..4 : frame[k] = 0
  BY <1>2, FrameBytes, ZeroLength
<1>4. f.kind = "checksum" => \A k \in 1..size : frame[4 + k] = 0
  <2>1. f.alg = NoChecksum => size = 0
    BY DEF NoChecksum, SizeOf, Algorithm
  <2>2. \A k \in 1..size : SumField(f.alg, <<>>)[k] = 0
    BY <1>1, <2>1 DEF ZeroFrame
  <2>. QED BY <2>2, FrameBytes
<1>5. ASSUME NEW k \in 1..h PROVE frame[k] = 0
  <2>. HIDE DEF frame, h, size
  <2>1. CASE k \in 1..4
    BY <1>3, <2>1
  <2>2. CASE k \notin 1..4
    <3>1. f.kind = "checksum" /\ k - 4 \in 1..size /\ 4 + (k - 4) = k
      BY <1>1, <1>2, <2>2
    <3>. QED BY <1>4, <3>1
  <2>. QED BY <2>1, <2>2
<1>6. frame = [k \in 1..h |-> frame[k]]
  <2>. HIDE DEF frame, h
  <2>. QED BY <1>1
<1>. HIDE DEF frame, h
<1>7. frame = Zeros(h)
  BY <1>5, <1>6 DEF Zeros
<1>. QED BY <1>7 DEF frame, h

\* Zeros behind zeros.
LEMMA MoreZeros ==
    ASSUME NEW a \in Nat, NEW b \in Nat
    PROVE  /\ Zeros(a) \in Seq(Byte) /\ Len(Zeros(a)) = a
           /\ Zeros(a) \o Zeros(b) = Zeros(a + b)
<1>1. 0 \in Byte
  BY ChecksumAssumption DEF Byte
<1>2. \A n \in Nat : Zeros(n) \in Seq(Byte) /\ Len(Zeros(n)) = n /\ \A k \in 1..n : Zeros(n)[k] = 0
  <2>. SUFFICES ASSUME NEW n \in Nat
                PROVE  Zeros(n) \in Seq(Byte) /\ Len(Zeros(n)) = n
                       /\ \A k \in 1..n : Zeros(n)[k] = 0
    OBVIOUS
  <2>1. Zeros(n) \in [1..n -> Byte] /\ \A k \in 1..n : Zeros(n)[k] = 0
    BY <1>1 DEF Zeros
  <2>. QED BY <2>1, SeqDef
<1> DEFINE x == Zeros(a)
           y == Zeros(b)
<1>3. /\ x \in Seq(Byte) /\ Len(x) = a /\ \A k \in 1..a : x[k] = 0
      /\ y \in Seq(Byte) /\ Len(y) = b /\ \A k \in 1..b : y[k] = 0
  BY <1>2
<1>. HIDE DEF x, y
<1> DEFINE z == x \o y
<1>4. z \in Seq(Byte) /\ Len(z) = a + b
      /\ (\A k \in 1..a : z[k] = x[k]) /\ \A k \in 1..b : z[a + k] = y[k]
  BY <1>3, Glued, GluedBytes
<1>. HIDE DEF z
<1>5. ASSUME NEW k \in 1..(a + b) PROVE z[k] = 0
  <2>1. CASE k <= a
    BY <1>3, <1>4, <2>1
  <2>2. CASE k > a
    <3>1. k - a \in 1..b /\ a + (k - a) = k
      BY <2>2
    <3>. QED BY <1>3, <1>4, <3>1
  <2>. QED BY <2>1, <2>2
<1>6. z = [k \in 1..(a + b) |-> z[k]]
  BY <1>4
<1>7. z = Zeros(a + b)
  BY <1>5, <1>6 DEF Zeros
<1>. QED BY <1>3, <1>7 DEF x, y, z

\* A run of payloads with q empty ones behind it.
Empties(q) == [k \in 1..q |-> <<>>]

\* They are a run too, the first of them as they were.
LEMMA MoreEmpties ==
    ASSUME NEW f, NEW run, Run(f, run), NEW q \in Nat
    PROVE  /\ Run(f, run \o Empties(q)) /\ Len(run \o Empties(q)) = Len(run) + q
           /\ \A i \in 1..Len(run) : (run \o Empties(q))[i] = run[i]
           /\ \A i \in 1..q : (run \o Empties(q))[Len(run) + i] = <<>>
<1> DEFINE none == <<>>
           z == Empties(q)
           more == run \o z
<1>1. none \in Seq(Byte) /\ Framed(f, none) /\ Fits(none)
  <2>1. Len(none) = 0 /\ none \in Seq(Byte)
    OBVIOUS
  <2>. QED BY <2>1, Widths DEF Run, Fits
<1>. HIDE DEF none
<1>2. z = [k \in 1..q |-> none]
  BY DEF Empties, none
<1>. HIDE DEF z
<1>3. z \in Seq(Seq(Byte)) /\ Len(z) = q /\ \A k \in 1..q : z[k] = none
  <2>1. z \in [1..q -> Seq(Byte)] /\ \A k \in 1..q : z[k] = none
    BY <1>1, <1>2
  <2>. QED BY <2>1, SeqDef
<1>4. run \in Seq(Seq(Byte)) /\ Len(run) \in Nat
      /\ \A i \in 1..Len(run) : Framed(f, run[i]) /\ Fits(run[i])
  BY LenProperties DEF Run
<1>5. /\ more \in Seq(Seq(Byte)) /\ Len(more) = Len(run) + q
      /\ \A i \in 1..Len(run) : more[i] = run[i]
      /\ \A i \in 1..q : more[Len(run) + i] = z[i]
  BY <1>3, <1>4
<1>. HIDE DEF more
<1>6. \A i \in 1..q : more[Len(run) + i] = none
  BY <1>3, <1>5
<1>7. ASSUME NEW i \in 1..Len(more) PROVE Framed(f, more[i]) /\ Fits(more[i])
  <2>1. CASE i <= Len(run)
    BY <1>4, <1>5, <2>1
  <2>2. CASE i > Len(run)
    <3>1. i - Len(run) \in 1..q /\ Len(run) + (i - Len(run)) = i
      BY <1>4, <1>5, <2>2
    <3>. QED BY <1>1, <1>6, <3>1
  <2>. QED BY <1>4, <1>5, <2>1, <2>2
<1>8. Run(f, more)
  BY <1>1, <1>5, <1>7 DEF Run, none
<1>. QED BY <1>5, <1>6, <1>8 DEF more, z, none

\* Zeros behind a stream, as many as so many empty frames take, are those frames.
LEMMA ZeroRun ==
    ASSUME NEW f, NEW run, Run(f, run), NEW bytes \in Seq(Byte), Exactly(f, run, bytes),
           ZeroFrame(f), NEW q \in Nat
    PROVE  Exactly(f, run \o Empties(q), bytes \o Zeros(HeaderSize(f) * q))
<1> DEFINE h == HeaderSize(f)
           more(j) == run \o Empties(j)
           stream(j) == bytes \o Zeros(h * j)
           S == {j \in Nat : Exactly(f, more(j), stream(j))}
<1>1. Framed(f, <<>>) /\ h \in Nat /\ h >= 4 /\ run \in Seq(Seq(Byte))
  BY Fields DEF Run
<1>. HIDE DEF h
<1>2. 0 \in S
  <2> DEFINE none == <<>>
  <2>1. Empties(0) = none /\ run \o none = run
    BY <1>1 DEF Empties
  <2>2. h * 0 = 0 /\ Zeros(0) = none /\ bytes \o none = bytes
    BY <1>1 DEF Zeros
  <2>. HIDE DEF none
  <2>3. more(0) = run /\ stream(0) = bytes
    BY <2>1, <2>2
  <2>. HIDE DEF more, stream
  <2>. QED BY <2>3
<1>3. ASSUME NEW j \in S, j < q PROVE j + 1 \in S
  <2> DEFINE p == <<>>
             frame == Frame(f, p)
             a == Zeros(h * j)
             b == Zeros(h)
  <2>1. frame = b
    BY <1>1, FrameZeros DEF h
  <2>2. h * j \in Nat /\ h * j + h = h * (j + 1) /\ j \in Nat /\ j + 1 \in Nat
    BY <1>1
  <2>3. a \in Seq(Byte) /\ b \in Seq(Byte) /\ a \o b = Zeros(h * (j + 1))
    BY <1>1, <2>2, MoreZeros
  <2>4. stream(j) = bytes \o a
    OBVIOUS
  <2>5. bytes \o a \in Seq(Byte) /\ (bytes \o a) \o b = bytes \o (a \o b)
    <3>. HIDE DEF a, b
    <3>1. a \in Seq(Byte) /\ b \in Seq(Byte)
      BY <2>3
    <3>2. (bytes \o a) \o b = bytes \o (a \o b)
      BY <3>1, ConcatAssociative
    <3>3. bytes \o a \in Seq(Byte)
      BY <3>1, Glued
    <3>. QED BY <3>2, <3>3
  <2>6. stream(j) \o frame = stream(j + 1)
    <3>1. stream(j + 1) = bytes \o (a \o b)
      BY <2>3
    <3>. HIDE DEF a, b, frame, stream
    <3>. QED BY <2>1, <2>4, <2>5, <3>1
  <2>7. p = <<>> /\ p \in Seq(Byte)
    BY ZeroLength
  <2>. HIDE DEF p
  <2>8. /\ Run(f, more(j)) /\ Len(more(j)) = Len(run) + j
        /\ \A i \in 1..Len(run) : more(j)[i] = run[i]
        /\ \A i \in 1..j : more(j)[Len(run) + i] = p
    <3>1. j \in Nat
      BY <2>2
    <3>2. Run(f, more(j)) /\ Len(more(j)) = Len(run) + j
      BY <3>1, MoreEmpties
    <3>3. \A i \in 1..Len(run) : more(j)[i] = run[i]
      BY <3>1, MoreEmpties
    <3>4. \A i \in 1..j : more(j)[Len(run) + i] = <<>>
      BY <3>1, MoreEmpties
    <3>. QED BY <2>7, <3>2, <3>3, <3>4
  <2>9. /\ Run(f, more(j + 1)) /\ Len(more(j + 1)) = Len(run) + (j + 1)
        /\ \A i \in 1..Len(run) : more(j + 1)[i] = run[i]
        /\ \A i \in 1..(j + 1) : more(j + 1)[Len(run) + i] = p
    <3> DEFINE i == j + 1
    <3>1. i \in Nat
      BY <2>2
    <3>. HIDE DEF i
    <3>2. Run(f, more(i)) /\ Len(more(i)) = Len(run) + i
      BY <3>1, MoreEmpties
    <3>3. \A m \in 1..Len(run) : more(i)[m] = run[m]
      BY <3>1, MoreEmpties
    <3>4. \A m \in 1..i : more(i)[Len(run) + m] = <<>>
      BY <3>1, MoreEmpties
    <3>. QED BY <2>7, <3>2, <3>3, <3>4 DEF i
  <2>10. Len(run) \in Nat
    BY <1>1, LenProperties
  <2>11. Exactly(f, more(j), stream(j)) /\ stream(j) \in Seq(Byte)
    <3>1. stream(j) \in Seq(Byte)
      BY <2>4, <2>5
    <3>. QED BY <3>1
  <2>. HIDE DEF more, stream, frame
  <2>12. /\ Len(more(j + 1)) = Len(more(j)) + 1 /\ more(j + 1)[Len(more(j)) + 1] = p
         /\ \A i \in 1..Len(more(j)) : more(j + 1)[i] = more(j)[i]
    <3>1. Len(more(j + 1)) = Len(more(j)) + 1
      BY <2>2, <2>8, <2>9, <2>10
    <3>2. more(j + 1)[Len(more(j)) + 1] = p
      <4>1. j + 1 \in 1..(j + 1) /\ Len(more(j)) + 1 = Len(run) + (j + 1)
        BY <2>2, <2>8, <2>10
      <4>. QED BY <2>9, <4>1
    <3>3. ASSUME NEW i \in 1..Len(more(j)) PROVE more(j + 1)[i] = more(j)[i]
      <4>1. CASE i \in 1..Len(run)
        BY <2>8, <2>9, <4>1
      <4>2. CASE i \notin 1..Len(run)
        <5>1. /\ i - Len(run) \in 1..j /\ i - Len(run) \in 1..(j + 1)
              /\ Len(run) + (i - Len(run)) = i
          BY <2>2, <2>8, <2>10, <4>2
        <5>. QED BY <2>8, <2>9, <5>1
      <4>. QED BY <4>1, <4>2
    <3>. QED BY <3>1, <3>2, <3>3
  <2>13. Framed(f, p)
    BY <1>1, <2>7
  <2>14. Exactly(f, more(j + 1), stream(j) \o Frame(f, p))
    BY <2>8, <2>9, <2>11, <2>12, <2>13, HoldsNext
  <2>. QED BY <2>2, <2>6, <2>14 DEF frame
<1>4. q \in S
  <2>1. S \in SUBSET Nat
    OBVIOUS
  <2>. HIDE DEF S
  <2>. QED BY <1>2, <1>3, <2>1, CountUp
<1>. QED BY <1>4 DEF h

\* And read as those frames, an incomplete one at the end left out.
LEMMA ZerosRead ==
    ASSUME NEW f, NEW run, Run(f, run), NEW bytes \in Seq(Byte), Exactly(f, run, bytes),
           ZeroFrame(f), NEW m \in Nat
    PROVE  ProcessAll(f, bytes \o Zeros(m), MaxWireFrameLen).payloads
               = run \o Empties(m \div HeaderSize(f))
<1> DEFINE h == HeaderSize(f)
           max == MaxWireFrameLen
           q == m \div h
           r == m % h
           more == run \o Empties(q)
           whole == bytes \o Zeros(h * q)
           D == whole \o Zeros(r)
<1>1. Framed(f, <<>>) /\ h \in Nat /\ h >= 4 /\ IsFormat(f) /\ max \in Nat
  BY Fields, Widths DEF Run, Framed
<1>. HIDE DEF h, max
<1>2. q \in Nat /\ r \in Nat /\ r < h /\ h * q \in Nat /\ h * q + r = m
  <2>1. h \in Nat \ {0}
    BY <1>1
  <2>2. q \in Nat /\ r \in 0..(h - 1) /\ m = h * q + r
    BY <2>1, Division
  <2>3. h * q \in Nat
    BY <1>1, <2>2
  <2>. HIDE DEF q, r
  <2> DEFINE a == h * q
  <2>4. a \in Nat /\ r \in 0..(h - 1) /\ m = a + r
    BY <2>2, <2>3
  <2>. HIDE DEF a
  <2>5. a \in Nat /\ r \in Nat /\ r < h /\ a + r = m
    BY <1>1, <2>4
  <2>. QED BY <2>2, <2>5 DEF a
<1>. HIDE DEF q, r
<1>3. whole \in Seq(Byte) /\ D = bytes \o Zeros(m) /\ Exactly(f, more, whole)
  <2> DEFINE a == Zeros(h * q)
             b == Zeros(r)
  <2>1. a \in Seq(Byte) /\ b \in Seq(Byte) /\ a \o b = Zeros(m)
    BY <1>2, MoreZeros
  <2>2. whole = bytes \o a /\ D = whole \o b
    OBVIOUS
  <2>3. Exactly(f, more, whole)
    BY <1>2, ZeroRun DEF h
  <2>. HIDE DEF a, b, whole, D
  <2>4. (bytes \o a) \o b = bytes \o (a \o b)
    <3>1. a \in Seq(Byte) /\ b \in Seq(Byte)
      BY <2>1
    <3>. QED BY <3>1, ConcatAssociative
  <2>5. bytes \o a \in Seq(Byte)
    BY <2>1, Glued
  <2>. QED BY <2>1, <2>2, <2>3, <2>4, <2>5
<1>4. Run(f, more) /\ more \in Seq(Seq(Byte)) /\ Len(more) \in Nat
  <2>1. Run(f, more)
    BY <1>2, MoreEmpties
  <2>. HIDE DEF more
  <2>. QED BY <2>1, LenProperties DEF Run
<1>5. D \in Seq(Byte) /\ Holds(f, more, D) /\ Hole(D, Len(whole), r)
  <2> DEFINE b == Zeros(r)
  <2>1. b \in Seq(Byte)
    BY <1>2, MoreZeros
  <2>2. Hole(D, Len(whole), r)
    BY <1>2, <1>3, ZerosBehind
  <2>3. D = whole \o b
    OBVIOUS
  <2>. HIDE DEF more, whole, b, D
  <2>4. Holds(f, more, whole \o b)
    BY <1>3, <1>4, <2>1, HoldsOn DEF Exactly
  <2>5. whole \o b \in Seq(Byte)
    BY <1>3, <2>1, Glued
  <2>. QED BY <2>2, <2>3, <2>4, <2>5
<1>. HIDE DEF more, whole, D
<1> DEFINE e == Ends(f, more)[Len(more)]
<1>6. /\ e = Len(whole) /\ e \in Nat /\ Len(D) = e + r /\ e \in 0..Len(D) /\ Len(D) \in Nat
      /\ \A k \in 1..r : D[e + k] = 0
  <2>1. e = Len(whole)
    BY <1>3 DEF Exactly
  <2>2. Len(whole) \in Nat /\ Len(D) = Len(whole) + r /\ \A k \in 1..r : D[Len(whole) + k] = 0
    BY <1>5 DEF Hole
  <2>. HIDE DEF e
  <2>. QED BY <1>2, <2>1, <2>2
<1>. HIDE DEF e
<1>7. Legible(f, more, D, max, Len(more))
  <2>1. Reading(f, D, max)
    BY <1>1, <1>5 DEF Reading
  <2>2. Laid(f, more, D)
    BY <1>5 DEF Laid, Agrees, Holds
  <2>3. \A i \in 1..Len(more) : Len(more[i]) <= max
    BY <1>4 DEF Run, Fits, max, MaxWireFrameLen
  <2>4. Ends(f, more)[Len(more)] <= Len(D) /\ Len(more) \in 0..Len(more)
    BY <1>4, <1>5 DEF Holds
  <2>. QED BY <1>4, <2>1, <2>2, <2>3, <2>4 DEF Legible
<1>8. \E kind : kind # "Some" /\ ReadAndDeframe(f, D, e, max) = Result(kind)
  <2> DEFINE p == <<>>
  <2>1. p \in Seq(Byte) /\ Len(p) = 0 /\ Framed(f, p) /\ Fits(p)
    BY <1>1, ZeroLength DEF Fits
  <2>2. Frame(f, p) = Zeros(h)
    BY <1>1, FrameZeros DEF h
  <2>. HIDE DEF p
  <2>3. Agrees(D, e, Frame(f, p))
    <3>1. SUFFICES ASSUME NEW k \in 1..Len(Zeros(h)), e + k <= Len(D)
                   PROVE  D[e + k] = Zeros(h)[k]
      BY <2>2 DEF Agrees
    <3>2. k \in 1..h
      BY <1>1, MoreZeros
    <3>3. k \in 1..r
      BY <1>2, <1>6, <3>1, <3>2
    <3>. QED BY <1>6, <3>2, <3>3 DEF Zeros
  <2>4. /\ e = Len(D) => ReadAndDeframe(f, D, e, max) = Result("None")
        /\ e < Len(D) /\ Len(D) < e + h => ReadAndDeframe(f, D, e, max) = Result("UnexpectedEof")
    BY <1>1, <1>5, <1>6, <2>1, <2>3, ReadOne DEF h
  <2>5. e = Len(D) \/ (e < Len(D) /\ Len(D) < e + h)
    BY <1>1, <1>2, <1>6
  <2>. QED BY <2>4, <2>5
<1>9. PICK kind : kind # "Some" /\ ReadAndDeframe(f, D, e, max) = Result(kind)
  BY <1>8
<1>10. ProcessAll(f, D, max) = [payloads |-> SubSeq(more, 1, Len(more)), end |-> kind]
  BY <1>7, <1>9, RunEnds DEF e
<1>11. SubSeq(more, 1, Len(more)) = more
  BY <1>4, SubSeqFull
<1>12. ProcessAll(f, D, max).payloads = more
  BY <1>10, <1>11
<1>. QED BY <1>3, <1>12 DEF more, q, h, max

\* ZeroTails: behind the frames a writer got through, a hole of zeros gives a reader
\* empty payloads where an empty frame is all zeros, and none otherwise.
THEOREM HolesRead == Spec => []ZeroTails
<1>1. Typed /\ Layout => ZeroTails
  <2> SUFFICES ASSUME Typed, Layout, Clean,
                      NEW m \in {HeaderLen - 1, HeaderLen, 2 * HeaderLen + 1}
               PROVE  ProcessAll(format, sink \o Zeros(m), MaxWireFrameLen).payloads
                          = accepted \o IF ZerosAreFrames THEN Empties(m \div HeaderLen)
                                        ELSE <<>>
    BY DEF ZeroTails, Zeros, Empties
  <2>1. /\ Run(format, accepted) /\ Exactly(format, accepted, sink) /\ Framed(format, <<>>)
        /\ sink \in Seq(Byte) /\ Len(sink) \in Nat /\ Len(accepted) \in Nat
        /\ HeaderLen = HeaderSize(format)
    BY CleanStream
  <2>2. m \in Nat /\ m # 0
    <3>1. HeaderLen \in Nat /\ HeaderLen >= 4
      BY <2>1, Fields
    <3>. HIDE DEF HeaderLen
    <3>. QED BY <3>1
  <2>3. ZerosAreFrames <=> ZeroFrame(format)
    BY DEF ZerosAreFrames, ZeroFrame
  <2>4. CASE ZeroFrame(format)
    <3>1. ProcessAll(format, sink \o Zeros(m), MaxWireFrameLen).payloads
              = accepted \o Empties(m \div HeaderLen)
      BY <2>1, <2>2, <2>4, ZerosRead
    <3>. QED BY <2>3, <2>4, <3>1
  <2>5. CASE ~ZeroFrame(format)
    <3> DEFINE D == sink \o Zeros(m)
               n == Len(accepted)
               none == <<>>
    <3>1. D \in Seq(Byte) /\ Hole(D, Len(sink), m) /\ \A q \in 1..Len(sink) : D[q] = sink[q]
      BY <2>1, <2>2, ZerosBehind DEF Hole
    <3>. HIDE DEF D
    <3>2. EndOf(n) = Len(sink) /\ n \in 0..n
      BY <2>1 DEF Exactly, EndOf
    <3>3. EndOf(n) <= Len(D)
      BY <2>1, <2>2, <3>1, <3>2 DEF Hole
    <3>4. PICK kind : kind # "Some"
                      /\ ReadAndDeframe(format, D, Len(sink), MaxWireFrameLen) = Result(kind)
      BY <2>1, <2>2, <2>5, <3>1, HoleUnread
    <3>5. ProcessAll(format, D, MaxWireFrameLen)
              = [payloads |-> SubSeq(accepted, 1, n), end |-> kind]
      BY <2>1, <3>1, <3>2, <3>3, <3>4, FrontThen
    <3>6. accepted \in Seq(Seq(Byte))
      BY <2>1 DEF Run
    <3>7. SubSeq(accepted, 1, n) = accepted
      BY <3>6, SubSeqFull
    <3>8. accepted \o none = accepted
      BY <3>6
    <3>9. ProcessAll(format, sink \o Zeros(m), MaxWireFrameLen).payloads = accepted
      BY <3>5, <3>7 DEF D
    <3>10. (IF ZerosAreFrames THEN Empties(m \div HeaderLen) ELSE <<>>) = none
      BY <2>3, <2>5
    <3>. HIDE DEF none
    <3>. QED BY <3>8, <3>9, <3>10
  <2>. QED BY <2>4, <2>5
<1>. QED BY <1>1, AlwaysLayout, PTL

-----------------------------------------------------------------------------
(* A deframer behind its adapters. *)

\* An adapter of a deframer stops a payload.
Stops(adapter, p) == adapter.kind = "validate" /\ Verdict(adapter.validator, p) # "ok"

\* Adapters hand out what the deframer inside them returns, or a validation error.
LEMMA Behind ==
    ASSUME NEW d, NEW bytes, NEW q, NEW k \in Nat
    PROVE  LET inner == ReadAndDeframe(d.format, bytes, q, d.max)
               got   == ReadBehind(d, k, bytes, q)
           IN  /\ got = inner \/ got = Result("ValidationFailed")
               /\ inner.kind # "Some" => got = inner
               /\ (\A j \in 1..k : ~Stops(d.adapters[j], inner.payload)) => got = inner
<1> DEFINE inner == ReadAndDeframe(d.format, bytes, q, d.max)
           failed == Result("ValidationFailed")
           a(j) == d.adapters[j]
           V == {inner, failed}
           step == [j \in 1..k |-> [v \in V |-> Through(a(j), v)]]
           h == CHOOSE h : h = [j \in 0..k |-> IF j = 0 THEN ReadAndDeframe(d.format, bytes, q, d.max)
                                               ELSE Through(d.adapters[j], h[j - 1])]
<1>1. ReadBehind(d, k, bytes, q) = h[k]
  BY DEF ReadBehind
<1>2. \A j \in 1..k : \A v \in V : Through(a(j), v) \in V
  <2>. HIDE DEF inner, a
  <2>. QED BY DEF Through
<1>3. failed.kind # "Some"
  BY DEF Result
<1>4. Steps(k, V, inner, step)
  <2>1. step \in [1..k -> [V -> V]]
    <3>. HIDE DEF V, a
    <3>. QED BY <1>2
  <2>2. inner \in V
    OBVIOUS
  <2>. HIDE DEF V, step, inner
  <2>. QED BY <2>1, <2>2 DEF Steps
<1>. HIDE DEF inner, failed
<1>5. PICK g \in [0..k -> V] : g[0] = inner /\ \A j \in 1..k : g[j] = step[j][g[j - 1]]
  <2> DEFINE n == k
  <2>. HIDE DEF V, step, n
  <2>1. Steps(n, V, inner, step)
    BY <1>4 DEF n
  <2>2. \E g \in [0..n -> V] : g[0] = inner /\ \A j \in 1..n : g[j] = step[j][g[j - 1]]
    BY <2>1, StepsUp
  <2>. QED BY <2>2 DEF n
<1>6. ASSUME NEW j \in 1..k PROVE g[j] = Through(a(j), g[j - 1])
  <2>1. j - 1 \in 0..k
    OBVIOUS
  <2>2. g[j - 1] \in V
    BY <1>5, <2>1
  <2>. HIDE DEF V, a
  <2>. QED BY <1>5, <2>2
<1>7. g = [j \in 0..k |-> IF j = 0 THEN inner ELSE Through(a(j), g[j - 1])]
  <2>1. ASSUME NEW j \in 0..k PROVE g[j] = IF j = 0 THEN inner ELSE Through(a(j), g[j - 1])
    <3>1. j # 0 => j \in 1..k
      OBVIOUS
    <3>. QED BY <1>5, <1>6, <3>1
  <2>. HIDE DEF V, a
  <2>. QED BY <1>5, <2>1
<1>8. h = [j \in 0..k |-> IF j = 0 THEN inner ELSE Through(a(j), h[j - 1])]
  <2>1. \E x : x = [j \in 0..k |-> IF j = 0 THEN ReadAndDeframe(d.format, bytes, q, d.max)
                                    ELSE Through(d.adapters[j], x[j - 1])]
    BY <1>7 DEF inner
  <2>. QED BY <2>1 DEF inner
<1>. HIDE DEF h
<1>9. h[0] = inner /\ \A j \in 1..k : h[j] = Through(a(j), h[j - 1])
  <2>1. 0 \in 0..k /\ \A j \in 1..k : j \in 0..k /\ j # 0
    OBVIOUS
  <2>. QED BY <1>8, <2>1
<1> DEFINE lets(m) == \A j \in 1..m : ~Stops(a(j), inner.payload)
           S == {m \in Nat : m <= k => /\ h[m] \in V
                                       /\ inner.kind # "Some" => h[m] = inner
                                       /\ lets(m) => h[m] = inner}
<1>10. 0 \in S
  BY <1>9
<1>11. ASSUME NEW m \in S, m < k PROVE m + 1 \in S
  <2>1. /\ m \in Nat /\ m + 1 \in 1..k /\ m <= k /\ (m + 1) - 1 = m /\ m + 1 \in 1..(m + 1)
        /\ \A j \in 1..m : j \in 1..(m + 1)
    BY <1>11
  <2>2. h[m] \in V /\ (inner.kind # "Some" => h[m] = inner) /\ (lets(m) => h[m] = inner)
    BY <1>11, <2>1
  <2>3. h[m + 1] = Through(a(m + 1), h[m])
    BY <1>9, <2>1
  <2>4. h[m + 1] \in V
    BY <1>2, <2>1, <2>2, <2>3
  <2>. HIDE DEF a
  <2>5. inner.kind # "Some" => h[m + 1] = inner
    BY <2>2, <2>3 DEF Through
  <2>6. lets(m + 1) => h[m + 1] = inner
    <3>. SUFFICES ASSUME lets(m + 1) PROVE h[m + 1] = inner
      OBVIOUS
    <3>1. lets(m) /\ ~Stops(a(m + 1), inner.payload)
      BY <2>1
    <3>2. h[m] = inner
      BY <2>2, <3>1
    <3>. QED BY <2>3, <3>1, <3>2 DEF Through, Stops
  <2>. HIDE DEF V, lets
  <2>. QED BY <2>1, <2>4, <2>5, <2>6
<1>12. k \in S
  <2>1. S \in SUBSET Nat
    OBVIOUS
  <2>. HIDE DEF S
  <2>. QED BY <1>10, <1>11, <2>1, CountUp
<1>13. h[k] \in V /\ (inner.kind # "Some" => h[k] = inner) /\ (lets(k) => h[k] = inner)
  BY <1>12
<1>. QED BY <1>1, <1>13 DEF inner, failed

\* A deframer with adapters around it.
IsDeframer(d) ==
    /\ IsFormat(d.format) /\ d.max \in Nat
    /\ Len(d.adapters) \in Nat /\ DOMAIN d.adapters = 1..Len(d.adapters)

\* What a loop over messages gets at an offset.
Message(d, type, bytes, q) == FromPayload(type, ReadMessage(d, bytes, q))

\* The ways in which such a message may come, and what it then carries.
Endings == Kinds \cup {"ValidationFailed", "FlatbuffersError"}
Carries(got, q, top) ==
    /\ got.kind \in Endings
    /\ got.kind = "Some" => got.payload \in Seq(Byte) /\ got.next \in (q + 1)..top

\* A message moves the reader forward, and an observer is called with a payload.
LEMMA MessageSound ==
    ASSUME NEW d, IsDeframer(d), NEW type, NEW bytes \in Seq(Byte), NEW q \in 0..Len(bytes)
    PROVE  /\ Carries(Message(d, type, bytes, q), q, Len(bytes))
           /\ CalledBack(d, bytes, q) \in [DOMAIN d.adapters -> Seq(Seq(Byte))]
<1> DEFINE inner == ReadAndDeframe(d.format, bytes, q, d.max)
           n == Len(d.adapters)
<1>1. IsFormat(d.format) /\ d.max \in Nat /\ n \in Nat /\ DOMAIN d.adapters = 1..n
  BY DEF IsDeframer
<1>2. Sound(inner, bytes, q)
  BY <1>1, ReadSound
<1>3. ASSUME NEW k \in Nat
      PROVE  ReadBehind(d, k, bytes, q) = inner \/ ReadBehind(d, k, bytes, q) = Result("ValidationFailed")
  BY <1>3, Behind
<1>. HIDE DEF inner, n
<1>4. Carries(Message(d, type, bytes, q), q, Len(bytes))
  <2> DEFINE got == ReadMessage(d, bytes, q)
  <2>1. got = inner \/ got = Result("ValidationFailed")
    BY <1>1, <1>3 DEF ReadMessage, n
  <2>2. Carries(got, q, Len(bytes))
    BY <1>2, <2>1 DEF Carries, Sound, Endings, Result
  <2>. HIDE DEF got
  <2>3. Carries(Result("FlatbuffersError"), q, Len(bytes))
    BY DEF Carries, Endings, Result
  <2>4. Message(d, type, bytes, q) = got \/ Message(d, type, bytes, q) = Result("FlatbuffersError")
    BY DEF Message, FromPayload, got
  <2>. QED BY <2>2, <2>3, <2>4
<1>5. ASSUME NEW k \in 1..n
      PROVE  CallBack(d.adapters[k], ReadBehind(d, k - 1, bytes, q)) \in Seq(Seq(Byte))
  <2> DEFINE got == ReadBehind(d, k - 1, bytes, q)
  <2>1. k - 1 \in Nat
    BY <1>1
  <2>2. got = inner \/ got = Result("ValidationFailed")
    BY <1>3, <2>1
  <2>. HIDE DEF got
  <2>3. got.kind = "Some" => got.payload \in Seq(Byte)
    BY <1>2, <2>2 DEF Sound, Result
  <2>4. got.kind = "Some" => <<got.payload>> \in Seq(Seq(Byte))
    BY <2>3
  <2>5. <<>> \in Seq(Seq(Byte))
    OBVIOUS
  <2>6. CallBack(d.adapters[k], got) \in Seq(Seq(Byte))
    BY <2>4, <2>5 DEF CallBack
  <2>. QED BY <2>6 DEF got
<1>6. CalledBack(d, bytes, q) \in [DOMAIN d.adapters -> Seq(Seq(Byte))]
  <2> DEFINE T == Seq(Seq(Byte))
             of(k) == CallBack(d.adapters[k], ReadBehind(d, k - 1, bytes, q))
  <2>1. \A k \in 1..n : of(k) \in T
    BY <1>5
  <2>2. CalledBack(d, bytes, q) = [k \in 1..n |-> of(k)]
    BY <1>1 DEF CalledBack
  <2>. HIDE DEF T, of
  <2>3. [k \in 1..n |-> of(k)] \in [1..n -> T]
    BY <2>1
  <2>. QED BY <1>1, <2>2, <2>3 DEF T
<1>. QED BY <1>4, <1>6

\* A loop over offsets that stops at some of them and from the others goes on further behind.
Loop(top, V, stop, next, base, step) ==
    /\ top \in Nat /\ V # {} /\ stop \in SUBSET (0..top)
    /\ \A q \in stop : base[q] \in V
    /\ \A q \in (0..top) \ stop : /\ next[q] \in (q + 1)..top
                                  /\ \A v \in V : step[q][v] \in V

\* Such a loop comes to something from every offset.
LEMMA LoopExists ==
    ASSUME NEW top, NEW V, NEW stop, NEW next, NEW base, NEW step, Loop(top, V, stop, next, base, step)
    PROVE  \E g \in [0..top -> V] :
              \A q \in 0..top : g[q] = IF q \in stop THEN base[q] ELSE step[q][g[next[q]]]
<1>1. /\ top \in Nat /\ V # {} /\ stop \in SUBSET (0..top)
      /\ \A q \in stop : base[q] \in V
      /\ \A q \in (0..top) \ stop : /\ next[q] \in (q + 1)..top
                                    /\ \A v \in V : step[q][v] \in V
  BY DEF Loop
<1>2. PICK some \in V : TRUE
  BY <1>1
<1> DEFINE D == 0..top
           measure == [q \in D |-> top - q]
           ends == [q \in D |-> IF q \in stop THEN base[q] ELSE some]
           on == [q \in D |-> IF q \in stop THEN q ELSE next[q]]
           over == [q \in D |-> [v \in V |-> IF q \in stop THEN v ELSE step[q][v]]]
<1>3. ends \in [D -> V]
  BY <1>1, <1>2
<1>4. on \in [D -> D] /\ measure \in [D -> 0..top]
      /\ \A q \in D \ stop : measure[on[q]] < measure[q]
  <2>1. ASSUME NEW q \in D \ stop
        PROVE  next[q] \in D /\ top - next[q] < top - q /\ on[q] = next[q]
    BY <1>1
  <2>2. \A q \in D : on[q] \in D
    <3>. HIDE DEF D
    <3>. QED BY <2>1
  <2>3. on \in [D -> D]
    <3>1. on = [q \in D |-> on[q]]
      OBVIOUS
    <3>. HIDE DEF on, D
    <3>. QED BY <2>2, <3>1
  <2>4. measure \in [D -> 0..top]
    BY <1>1
  <2>5. ASSUME NEW q \in D \ stop PROVE measure[on[q]] < measure[q]
    BY <2>1
  <2>. QED BY <2>3, <2>4, <2>5
<1>5. over \in [D -> [V -> V]]
  <2>1. ASSUME NEW q \in D, NEW v \in V PROVE (IF q \in stop THEN v ELSE step[q][v]) \in V
    BY <1>1
  <2>. HIDE DEF D
  <2>. QED BY <2>1
<1>6. Recursive(D, V, top, measure, stop, ends, on, over)
  <2>1. stop \in SUBSET D
    BY <1>1
  <2>. HIDE DEF D, measure, ends, on, over
  <2>. QED BY <1>1, <1>3, <1>4, <1>5, <2>1 DEF Recursive
<1>7. PICK g \in [D -> V] : \A q \in D : g[q] = IF q \in stop THEN ends[q] ELSE over[q][g[on[q]]]
  <2>. HIDE DEF D, measure, ends, on, over
  <2>. QED BY <1>6, Recursion
<1>8. ASSUME NEW q \in D PROVE g[q] = IF q \in stop THEN base[q] ELSE step[q][g[next[q]]]
  <2>1. CASE q \in stop
    BY <1>7, <2>1
  <2>2. CASE q \notin stop
    <3>1. on[q] = next[q] /\ on[q] \in D
      BY <1>4, <2>2
    <3>2. g[next[q]] \in V
      BY <1>7, <3>1
    <3>3. g[q] = over[q][g[next[q]]]
      BY <1>7, <2>2, <3>1
    <3>. QED BY <2>2, <3>2, <3>3
  <2>. QED BY <2>1, <2>2
<1>. QED BY <1>7, <1>8

\* What a process loop comes to from each offset.
Collects(d, type, bytes, h) ==
    \A q \in 0..Len(bytes) : h[q] = Collected(Message(d, type, bytes, q), CalledBack(d, bytes, q), h)

\* The recursion of process_all and process_typed is well founded.
LEMMA Processing ==
    ASSUME NEW d, IsDeframer(d), NEW type, NEW bytes \in Seq(Byte), NEW first
    PROVE  \E h : Collects(d, type, bytes, h) /\ Process(d, type, bytes, first) = h[first]
<1> DEFINE top == Len(bytes)
           got(q) == Message(d, type, bytes, q)
           called(q) == CalledBack(d, bytes, q)
           A == DOMAIN d.adapters
           T == Seq(Seq(Byte))
           V == [payloads : T, end : Endings, seen : [A -> T]]
           stop == {q \in 0..top : got(q).kind # "Some"}
           base == [q \in 0..top |-> [payloads |-> <<>>, end |-> got(q).kind, seen |-> called(q)]]
           next == [q \in 0..top |-> got(q).next]
           over(q, v) == [payloads |-> <<got(q).payload>> \o v.payloads, end |-> v.end,
                          seen |-> [k \in A |-> called(q)[k] \o v.seen[k]]]
           step == [q \in 0..top |-> [v \in V |-> over(q, v)]]
           h == CHOOSE h : h = [q \in 0..top |->
                                  Collected(FromPayload(type, ReadMessage(d, bytes, q)),
                                            CalledBack(d, bytes, q), h)]
<1>1. Process(d, type, bytes, first) = h[first]
  BY DEF Process
<1>2. top \in Nat /\ \A q \in 0..top : Carries(got(q), q, top) /\ called(q) \in [A -> T]
  BY MessageSound, LenProperties
<1>3. <<>> \in T /\ (\A p \in Seq(Byte) : <<p>> \in T) /\ (\A x, y \in T : x \o y \in T)
  OBVIOUS
<1>. HIDE DEF top, got, called, A, T
<1>4. /\ \A q \in 0..top : got(q).kind \in Endings
      /\ \A q \in (0..top) \ stop : got(q).payload \in Seq(Byte) /\ got(q).next \in (q + 1)..top
  BY <1>2 DEF Carries
<1>5. \A q \in stop : base[q] \in V
  BY <1>2, <1>3, <1>4
<1>6. ASSUME NEW q \in (0..top) \ stop, NEW v \in V PROVE over(q, v) \in V
  <2>1. v.payloads \in T /\ v.end \in Endings /\ v.seen \in [A -> T] /\ called(q) \in [A -> T]
        /\ <<got(q).payload>> \in T
    BY <1>2, <1>3, <1>4, <1>6
  <2>2. <<got(q).payload>> \o v.payloads \in T
    BY <1>3, <2>1
  <2>3. \A k \in A : called(q)[k] \o v.seen[k] \in T
    BY <1>3, <2>1
  <2>4. [k \in A |-> called(q)[k] \o v.seen[k]] \in [A -> T]
    BY <2>3
  <2>. QED BY <2>1, <2>2, <2>4
<1>7. V # {}
  <2>1. [k \in A |-> <<>>] \in [A -> T] /\ "None" \in Endings
    BY <1>3 DEF Endings, Kinds
  <2>2. [payloads |-> <<>>, end |-> "None", seen |-> [k \in A |-> <<>>]] \in V
    BY <1>3, <2>1
  <2>. QED BY <2>2
<1>8. Loop(top, V, stop, next, base, step)
  <2>1. ASSUME NEW q \in (0..top) \ stop, NEW v \in V PROVE step[q][v] \in V
    <3>1. over(q, v) \in V
      BY <1>6
    <3>. HIDE DEF V, over
    <3>. QED BY <3>1
  <2>2. \A q \in (0..top) \ stop : next[q] \in (q + 1)..top
    BY <1>4
  <2>3. stop \in SUBSET (0..top)
    OBVIOUS
  <2>. HIDE DEF V, stop, base, next, step
  <2>. QED BY <1>2, <1>5, <1>7, <2>1, <2>2, <2>3 DEF Loop
<1>9. PICK g \in [0..top -> V] :
        \A q \in 0..top : g[q] = IF q \in stop THEN base[q] ELSE step[q][g[next[q]]]
  <2>. HIDE DEF V, stop, base, next, step
  <2>. QED BY <1>8, LoopExists
<1>10. ASSUME NEW q \in 0..top PROVE g[q] = Collected(got(q), called(q), g)
  <2>1. CASE q \in stop
    <3>1. got(q).kind # "Some" /\ g[q] = base[q]
      BY <1>9, <2>1
    <3>. HIDE DEF V, stop
    <3>. QED BY <3>1 DEF Collected
  <2>2. CASE q \notin stop
    <3>1. got(q).kind = "Some" /\ got(q).next \in 0..top
      BY <1>2, <1>4, <2>2
    <3>2. g[got(q).next] \in V
      BY <1>9, <3>1
    <3>3. DOMAIN called(q) = A
      BY <1>2
    <3>. HIDE DEF V, stop
    <3>4. g[q] = step[q][g[next[q]]] /\ next[q] = got(q).next
      BY <1>9, <2>2
    <3>5. g[q] = over(q, g[got(q).next])
      BY <3>2, <3>4
    <3>. QED BY <3>1, <3>3, <3>5 DEF Collected
  <2>. QED BY <2>1, <2>2
<1>11. g = [q \in 0..top |-> Collected(got(q), called(q), g)]
  <2>. HIDE DEF V
  <2>. QED BY <1>9, <1>10
<1>12. h = [q \in 0..top |-> Collected(got(q), called(q), h)]
  <2>1. \E x : x = [q \in 0..top |-> Collected(FromPayload(type, ReadMessage(d, bytes, q)),
                                               CalledBack(d, bytes, q), x)]
    BY <1>11 DEF got, called, Message
  <2>. QED BY <2>1 DEF got, called, Message
<1>. HIDE DEF h
<1>13. Collects(d, type, bytes, h)
  BY <1>12 DEF Collects, got, called, top
<1>. QED BY <1>1, <1>13

\* What the application's loop comes to from each offset.
Searches(d, type, wanted, bytes, h) ==
    \A q \in 0..Len(bytes) : h[q] = Examined(Message(d, type, bytes, q), wanted, q, h)

\* The recursion of the application's loop is well founded.
LEMMA Searching ==
    ASSUME NEW d, IsDeframer(d), NEW type, NEW bytes \in Seq(Byte), NEW wanted
    PROVE  \E h : Searches(d, type, wanted, bytes, h) /\ FirstWanted(d, type, wanted, bytes) = h[0]
<1> DEFINE top == Len(bytes)
           got(q) == Message(d, type, bytes, q)
           V == [examined : Nat, end : Endings \cup {"found"}, next : 0..top]
           none(q) == got(q).kind # "Some"
           hit(q) == got(q).kind = "Some" /\ got(q).payload \in wanted
           stop == {q \in 0..top : none(q) \/ hit(q)}
           base == [q \in 0..top |-> IF none(q)
                                     THEN [examined |-> 0, end |-> got(q).kind, next |-> q]
                                     ELSE [examined |-> 1, end |-> "found", next |-> got(q).next]]
           next == [q \in 0..top |-> got(q).next]
           step == [q \in 0..top |-> [v \in V |-> [v EXCEPT !.examined = @ + 1]]]
           h == CHOOSE h : h = [q \in 0..top |->
                                  Examined(FromPayload(type, ReadMessage(d, bytes, q)), wanted, q, h)]
<1>1. FirstWanted(d, type, wanted, bytes) = h[0]
  BY DEF FirstWanted
<1>2. top \in Nat /\ \A q \in 0..top : Carries(got(q), q, top)
  BY MessageSound, LenProperties
<1>. HIDE DEF top, got
<1>4. /\ \A q \in 0..top : got(q).kind \in Endings
      /\ \A q \in 0..top : ~none(q) => got(q).next \in (q + 1)..top /\ got(q).next \in 0..top
  BY <1>2 DEF Carries
<1>5. \A q \in stop : base[q] \in V
  BY <1>2, <1>4
<1>6. \A v \in V : [v EXCEPT !.examined = @ + 1] \in V
  OBVIOUS
<1>7. V # {}
  <2>1. [examined |-> 0, end |-> "found", next |-> 0] \in V
    BY <1>2
  <2>. QED BY <2>1
<1>8. Loop(top, V, stop, next, base, step)
  <2>1. ASSUME NEW q \in (0..top) \ stop, NEW v \in V PROVE step[q][v] \in V
    <3>. HIDE DEF V, stop
    <3>. QED BY <1>6
  <2>2. \A q \in (0..top) \ stop : next[q] \in (q + 1)..top
    BY <1>4
  <2>3. stop \in SUBSET (0..top)
    OBVIOUS
  <2>. HIDE DEF V, stop, base, next, step
  <2>. QED BY <1>2, <1>5, <1>7, <2>1, <2>2, <2>3 DEF Loop
<1>9. PICK g \in [0..top -> V] :
        \A q \in 0..top : g[q] = IF q \in stop THEN base[q] ELSE step[q][g[next[q]]]
  <2>. HIDE DEF V, stop, base, next, step
  <2>. QED BY <1>8, LoopExists
<1>10. ASSUME NEW q \in 0..top PROVE g[q] = Examined(got(q), wanted, q, g)
  <2>1. CASE none(q)
    <3>1. g[q] = base[q]
      BY <1>9, <2>1
    <3>. HIDE DEF V, stop
    <3>. QED BY <2>1, <3>1 DEF Examined
  <2>2. CASE hit(q)
    <3>1. g[q] = base[q]
      BY <1>9, <2>2
    <3>. HIDE DEF V, stop
    <3>. QED BY <2>2, <3>1 DEF Examined
  <2>3. CASE ~none(q) /\ ~hit(q)
    <3>1. got(q).next \in 0..top /\ q \notin stop
      BY <1>4, <2>3
    <3>2. g[got(q).next] \in V
      BY <1>9, <3>1
    <3>. HIDE DEF V, stop
    <3>3. g[q] = step[q][g[next[q]]] /\ next[q] = got(q).next
      BY <1>9, <3>1
    <3>4. g[q] = [g[got(q).next] EXCEPT !.examined = @ + 1]
      BY <3>2, <3>3
    <3>. QED BY <2>3, <3>4 DEF Examined
  <2>. QED BY <2>1, <2>2, <2>3
<1>11. g = [q \in 0..top |-> Examined(got(q), wanted, q, g)]
  <2>. HIDE DEF V
  <2>. QED BY <1>9, <1>10
<1>12. h = [q \in 0..top |-> Examined(got(q), wanted, q, h)]
  <2>1. \E x : x = [q \in 0..top |-> Examined(FromPayload(type, ReadMessage(d, bytes, q)), wanted, q, x)]
    BY <1>11 DEF got, Message
  <2>. QED BY <2>1 DEF got, Message
<1>. HIDE DEF h
<1>13. Searches(d, type, wanted, bytes, h)
  BY <1>12 DEF Searches, got, top
<1>. QED BY <1>1, <1>13

\* The part of a run behind its first m payloads, up to the n-th.
LEMMA RunFront ==
    ASSUME NEW run \in Seq(Seq(Byte)), NEW n \in 0..Len(run)
    PROVE  /\ SubSeq(run, n + 1, n) = <<>>
           /\ \A i \in 1..n : SubSeq(run, i, n) = <<run[i]>> \o SubSeq(run, i + 1, n)
<1>1. Len(run) \in Nat /\ n \in Nat /\ n <= Len(run)
  BY LenProperties
<1>2. SubSeq(run, n + 1, n) = <<>>
  BY <1>1
<1>3. ASSUME NEW i \in 1..n PROVE SubSeq(run, i, n) = <<run[i]>> \o SubSeq(run, i + 1, n)
  <2>1. i \in Nat /\ i >= 1 /\ i <= n /\ run[i] \in Seq(Byte)
    BY <1>1, ElementOfSeq
  <2>. QED BY <1>1, <2>1
<1>. QED BY <1>2, <1>3

\* At the first n of these offsets a loop gets the payloads of the run, and then none.
Walk(d, type, bytes, E, run, n) ==
    /\ run \in Seq(Seq(Byte)) /\ n \in 0..Len(run)
    /\ \A i \in 0..n : E[i] \in 0..Len(bytes)
    /\ \A i \in 1..n : Message(d, type, bytes, E[i - 1]) = Some(run[i], E[i])
    /\ Message(d, type, bytes, E[n]).kind # "Some"

\* An adapter is called with each of these payloads and with nothing else.
HearsAll(d, bytes, E, run, n, k) ==
    /\ \A i \in 1..n : CalledBack(d, bytes, E[i - 1])[k] = <<run[i]>>
    /\ CalledBack(d, bytes, E[n])[k] = <<>>

\* What a loop comes to from the m-th offset on.
ComesTo(d, type, bytes, E, run, n, m, outcome) ==
    /\ outcome.payloads = SubSeq(run, m + 1, n)
    /\ outcome.end = Message(d, type, bytes, E[n]).kind
    /\ \A k \in DOMAIN d.adapters :
          HearsAll(d, bytes, E, run, n, k) => outcome.seen[k] = SubSeq(run, m + 1, n)

\* The loop gives these payloads, and the observers hear of them.
LEMMA WalkCollects ==
    ASSUME NEW d, NEW type, NEW bytes, NEW E, NEW run, NEW n, Walk(d, type, bytes, E, run, n),
           NEW h, Collects(d, type, bytes, h), NEW m \in 0..n
    PROVE  ComesTo(d, type, bytes, E, run, n, m, h[E[m]])
<1> DEFINE got(q) == Message(d, type, bytes, q)
           called(q) == CalledBack(d, bytes, q)
           claim(i) == ComesTo(d, type, bytes, E, run, n, i, h[E[i]])
           S == {j \in Nat : j <= n => claim(n - j)}
<1>1. /\ run \in Seq(Seq(Byte)) /\ n \in 0..Len(run)
      /\ \A i \in 0..n : E[i] \in 0..Len(bytes)
      /\ \A i \in 1..n : got(E[i - 1]) = Some(run[i], E[i])
      /\ got(E[n]).kind # "Some"
  BY DEF Walk
<1>2. n \in Nat /\ m \in Nat /\ m <= n
  BY <1>1, LenProperties
<1>3. \A i \in 0..n : h[E[i]] = Collected(got(E[i]), called(E[i]), h)
  BY <1>1 DEF Collects
<1>4. \A q : DOMAIN called(q) = DOMAIN d.adapters
  BY DEF CalledBack
<1>5. /\ SubSeq(run, n + 1, n) = <<>>
      /\ \A i \in 1..n : SubSeq(run, i, n) = <<run[i]>> \o SubSeq(run, i + 1, n)
  BY <1>1, RunFront
<1>6. claim(n)
  <2>1. n \in 0..n
    BY <1>2
  <2>2. h[E[n]] = [payloads |-> <<>>, end |-> got(E[n]).kind, seen |-> called(E[n])]
    BY <1>1, <1>3, <2>1 DEF Collected
  <2>. HIDE DEF got
  <2>3. /\ h[E[n]].payloads = <<>> /\ h[E[n]].end = got(E[n]).kind
        /\ h[E[n]].seen = called(E[n])
    BY <2>2
  <2>. QED BY <1>5, <2>3 DEF ComesTo, HearsAll, got
<1>7. ASSUME NEW i \in 1..n, claim(i) PROVE claim(i - 1)
  <2> DEFINE j == i - 1
             rest == h[E[i]]
             s == SubSeq(run, i + 1, n)
             A == DOMAIN d.adapters
  <2>1. j \in 0..n /\ i \in 0..n /\ j + 1 = i
    BY <1>2
  <2>2. got(E[j]) = Some(run[i], E[i])
    BY <1>1
  <2>3. got(E[j]).kind = "Some" /\ got(E[j]).payload = run[i] /\ got(E[j]).next = E[i]
    BY <2>2 DEF Some
  <2>4. rest.payloads = s /\ rest.end = got(E[n]).kind
        /\ \A k \in A : HearsAll(d, bytes, E, run, n, k) => rest.seen[k] = s
    BY <1>7 DEF ComesTo
  <2>. HIDE DEF j, got, s
  <2>5. h[E[j]] = [payloads |-> <<run[i]>> \o rest.payloads, end |-> rest.end,
                   seen |-> [k \in DOMAIN called(E[j]) |-> called(E[j])[k] \o rest.seen[k]]]
    BY <1>3, <2>1, <2>3 DEF Collected
  <2>. HIDE DEF rest, called
  <2>6. h[E[j]].payloads = <<run[i]>> \o s /\ h[E[j]].end = got(E[n]).kind
    BY <2>4, <2>5
  <2>7. ASSUME NEW k \in A, HearsAll(d, bytes, E, run, n, k) PROVE h[E[j]].seen[k] = <<run[i]>> \o s
    <3>1. called(E[j])[k] = <<run[i]>>
      BY <2>7 DEF HearsAll, called, j
    <3>2. k \in DOMAIN called(E[j])
      BY <1>4
    <3>3. h[E[j]].seen = [a \in DOMAIN called(E[j]) |-> called(E[j])[a] \o rest.seen[a]]
      BY <2>5
    <3>4. h[E[j]].seen[k] = called(E[j])[k] \o rest.seen[k]
      BY <3>2, <3>3
    <3>. QED BY <2>4, <2>7, <3>1, <3>4
  <2>8. <<run[i]>> \o s = SubSeq(run, j + 1, n)
    BY <1>5, <2>1 DEF s
  <2>9. claim(j)
    BY <2>6, <2>7, <2>8 DEF ComesTo, got
  <2>. QED BY <2>9 DEF j
<1>. HIDE DEF claim
<1>8. 0 \in S
  BY <1>2, <1>6
<1>9. ASSUME NEW j \in S, j < n PROVE j + 1 \in S
  <2>1. j \in Nat /\ n - j \in 1..n /\ (n - j) - 1 = n - (j + 1) /\ j <= n
    BY <1>2, <1>9
  <2>2. claim(n - j)
    BY <2>1
  <2>3. claim((n - j) - 1)
    BY <1>7, <2>1, <2>2
  <2>. QED BY <2>1, <2>3
<1>10. n - m \in S
  <2>1. S \in SUBSET Nat /\ n - m \in Nat /\ n - m <= n
    BY <1>2
  <2>2. \A j \in S : j < n - m => j + 1 \in S
    <3>1. ASSUME NEW j \in S, j < n - m PROVE j + 1 \in S
      <4>1. j < n
        BY <1>2, <2>1, <3>1
      <4>. HIDE DEF S
      <4>. QED BY <1>9, <4>1
    <3>. QED BY <3>1
  <2> DEFINE t == n - m
  <2>. HIDE DEF S, t
  <2>3. t \in S
    BY <1>8, <2>1, <2>2, CountUp DEF t
  <2>. QED BY <2>3 DEF t
<1>11. claim(m)
  <2>1. n - m <= n /\ n - (n - m) = m
    BY <1>2
  <2>. QED BY <1>10, <2>1
<1>. QED BY <1>11 DEF claim

\* A search that has not found what it wants by the m-th offset ends as one from there,
\* with m payloads more.
LEMMA WalkSearches ==
    ASSUME NEW d, NEW type, NEW bytes, NEW E, NEW run, NEW n, Walk(d, type, bytes, E, run, n),
           NEW wanted, NEW h, Searches(d, type, wanted, bytes, h),
           NEW m \in 0..n, \A i \in 1..m : run[i] \notin wanted,
           NEW x \in Nat, NEW end, NEW next,
           h[E[m]] = [examined |-> x, end |-> end, next |-> next]
    PROVE  h[E[0]] = [examined |-> m + x, end |-> end, next |-> next]
<1> DEFINE got(q) == Message(d, type, bytes, q)
           claim(i) == h[E[m - i]] = [examined |-> i + x, end |-> end, next |-> next]
           S == {j \in Nat : j <= m => claim(j)}
<1>1. /\ run \in Seq(Seq(Byte)) /\ n \in 0..Len(run)
      /\ \A i \in 0..n : E[i] \in 0..Len(bytes)
      /\ \A i \in 1..n : got(E[i - 1]) = Some(run[i], E[i])
  BY DEF Walk
<1>2. n \in Nat /\ m \in Nat /\ m <= n
  BY <1>1, LenProperties
<1>3. \A i \in 0..n : h[E[i]] = Examined(got(E[i]), wanted, E[i], h)
  BY <1>1 DEF Searches
<1>4. 0 \in S
  <2>1. m - 0 = m /\ 0 + x = x
    BY <1>2
  <2>. QED BY <2>1
<1>5. ASSUME NEW j \in S, j < m PROVE j + 1 \in S
  <2> DEFINE i == m - j
             p == i - 1
  <2>1. j \in Nat /\ j <= m /\ i \in 1..n /\ i \in 1..m /\ p \in 0..n /\ p = m - (j + 1)
        /\ (j + x) + 1 = (j + 1) + x
    BY <1>2, <1>5
  <2>2. h[E[i]] = [examined |-> j + x, end |-> end, next |-> next]
    BY <2>1
  <2>. HIDE DEF i
  <2>3. got(E[p]) = Some(run[i], E[i]) /\ run[i] \notin wanted
    BY <1>1, <2>1
  <2>4. got(E[p]).kind = "Some" /\ got(E[p]).payload \notin wanted /\ got(E[p]).next = E[i]
    BY <2>3 DEF Some
  <2>. HIDE DEF p, got
  <2>5. h[E[p]] = [h[E[i]] EXCEPT !.examined = @ + 1]
    BY <1>3, <2>1, <2>4 DEF Examined
  <2>6. h[E[p]] = [examined |-> (j + x) + 1, end |-> end, next |-> next]
    BY <2>2, <2>5
  <2>. QED BY <2>1, <2>6
<1>. HIDE DEF claim
<1>6. m \in S
  <2>1. S \in SUBSET Nat
    OBVIOUS
  <2>. HIDE DEF S
  <2>. QED BY <1>2, <1>4, <1>5, <2>1, CountUp
<1>7. claim(m)
  BY <1>2, <1>6
<1>8. m - m = 0
  BY <1>2
<1>. QED BY <1>7, <1>8 DEF claim

\* What a deframer makes of the bytes at each end of the frames of a clean stream, up to
\* the first frame that is too long for it.
LEMMA FramesRead ==
    ASSUME NEW f, NEW run, Run(f, run), NEW bytes \in Seq(Byte), Exactly(f, run, bytes),
           NEW max \in Nat, NEW t, FirstLong(run, max, t)
    PROVE  LET E == Ends(f, run)
           IN  /\ \A i \in 0..Len(run) : E[i] \in 0..Len(bytes)
               /\ \A i \in 1..(t - 1) : ReadAndDeframe(f, bytes, E[i - 1], max) = Some(run[i], E[i])
               /\ ReadAndDeframe(f, bytes, E[t - 1], max)
                    = Result(IF t - 1 = Len(run) THEN "None" ELSE "InvalidFrame")
<1> DEFINE E == Ends(f, run)
           N == Len(run)
           h == HeaderSize(f)
           top == Len(bytes)
<1>1. /\ N \in Nat /\ IsFormat(f) /\ h \in Nat /\ t \in 1..(N + 1) /\ top \in Nat /\ E[N] = top
      /\ \A i \in 1..N : Framed(f, run[i]) /\ Fits(run[i])
  BY LenProperties, Fields DEF Run, Framed, FirstLong, Exactly
<1>2. \A i \in 1..N : Len(run[i]) \in Nat
  BY <1>1, LenProperties DEF Framed
<1>3. \A i \in 0..N : E[i] \in 0..top
  <2>1. ASSUME NEW i \in 0..N PROVE E[i] \in Nat /\ E[i] <= E[N]
    <3>1. N \in 0..N /\ i \in 0..N
      BY <1>1
    <3>. QED BY <3>1, EndsGrow
  <2>. QED BY <1>1, <2>1
<1>4. \A i \in 1..N : Agrees(bytes, E[i - 1], Frame(f, run[i]))
  <2>1. SubSeq(bytes, 1, top) = bytes
    BY SubSeqFull
  <2>2. top \in 0..Len(bytes)
    BY <1>1
  <2>3. ASSUME NEW i \in 1..N PROVE Agrees(SubSeq(bytes, 1, top), E[i - 1], Frame(f, run[i]))
    <3>. HIDE DEF top
    <3>. QED BY <2>2, CutAgrees DEF Exactly
  <2>. QED BY <2>1, <2>3
<1>5. ASSUME NEW i \in 1..N
      PROVE  /\ Len(run[i]) <= max => ReadAndDeframe(f, bytes, E[i - 1], max) = Some(run[i], E[i])
             /\ Len(run[i]) > max => ReadAndDeframe(f, bytes, E[i - 1], max) = Result("InvalidFrame")
  <2> DEFINE p == run[i]
             a == E[i - 1]
             b == E[i]
             c == Len(p)
  <2>1. i - 1 \in 0..N /\ i \in 0..N
    BY <1>1
  <2>2. a \in 0..top /\ b \in 0..top /\ Framed(f, p) /\ Fits(p) /\ c \in Nat
    BY <1>1, <1>2, <1>3, <2>1
  <2>3. b = a + Len(Frame(f, p)) /\ Len(Frame(f, p)) = h + c
    BY <2>2, EndsOf, FrameShape
  <2>4. Agrees(bytes, a, Frame(f, p))
    BY <1>4
  <2>. HIDE DEF a, b, p, E, N
  <2>5. LET got == ReadAndDeframe(f, bytes, a, max)
            body == a + HeaderSize(f)
        IN  /\ body <= Len(bytes) /\ Len(p) > max => got = Result("InvalidFrame")
            /\ body + Len(p) <= Len(bytes) /\ Len(p) <= max => got = Some(p, body + Len(p))
    BY <2>2, <2>4, ReadOne
  <2>. HIDE DEF c, h, top
  <2>6. a + h + c = b /\ a + h + c <= top /\ a + h <= top
    BY <1>1, <2>2, <2>3
  <2>. QED BY <2>5, <2>6 DEF a, b, c, h, top, p, E, N
<1>6. ASSUME NEW i \in 1..(t - 1) PROVE ReadAndDeframe(f, bytes, E[i - 1], max) = Some(run[i], E[i])
  <2>1. i \in 1..N /\ Len(run[i]) <= max
    BY <1>1 DEF FirstLong
  <2>. QED BY <1>5, <2>1
<1>7. ReadAndDeframe(f, bytes, E[t - 1], max) = Result(IF t - 1 = N THEN "None" ELSE "InvalidFrame")
  <2>1. CASE t - 1 = N
    <3>1. E[t - 1] = Len(bytes)
      BY <1>1, <2>1
    <3>2. ReadAndDeframe(f, bytes, Len(bytes), max) = Result("None")
      BY <1>1, ReadAtEnd
    <3>. QED BY <2>1, <3>1, <3>2
  <2>2. CASE t - 1 # N
    <3>1. t \in 1..N /\ t <= N
      BY <1>1, <2>2
    <3>2. Len(run[t]) > max
      BY <3>1 DEF FirstLong
    <3>. QED BY <1>5, <2>2, <3>1, <3>2
  <2>. QED BY <2>1, <2>2
<1>. QED BY <1>3, <1>6, <1>7 DEF E, N, top

\* A clean stream in front of a deframer whose adapters stop none of its payloads; t is
\* the first that is too long for it.
Streams(d, run, bytes, t) ==
    /\ IsDeframer(d) /\ bytes \in Seq(Byte)
    /\ Run(d.format, run) /\ Exactly(d.format, run, bytes) /\ FirstLong(run, d.max, t)
    /\ \A i \in 1..Len(run) : \A k \in DOMAIN d.adapters : ~Stops(d.adapters[k], run[i])

\* A loop over roots of the type is given the first r of those before.
Rooted(type, run, t, r) ==
    /\ r \in 0..(t - 1)
    /\ \A i \in 1..r : type = Raw \/ Verifies(type, DefaultLimits, run[i])
    /\ r # t - 1 => type # Raw /\ ~Verifies(type, DefaultLimits, run[r + 1])

\* How it ends.
EndingOf(run, t, r) ==
    IF r = t - 1 THEN IF r = Len(run) THEN "None" ELSE "InvalidFrame" ELSE "FlatbuffersError"

\* The loop walks through these payloads, and every observer hears of them if it does not
\* end at a payload without a root.
LEMMA StreamWalks ==
    ASSUME NEW d, NEW run, NEW bytes, NEW t, Streams(d, run, bytes, t),
           NEW type, NEW r, Rooted(type, run, t, r)
    PROVE  LET E == Ends(d.format, run)
           IN  /\ Walk(d, type, bytes, E, run, r)
               /\ Message(d, type, bytes, E[r]).kind = EndingOf(run, t, r)
               /\ r = t - 1 => \A k \in DOMAIN d.adapters :
                     d.adapters[k].kind = "observe" => HearsAll(d, bytes, E, run, r, k)
<1> DEFINE E == Ends(d.format, run)
           N == Len(run)
           n == t - 1
           K == Len(d.adapters)
           inner(q) == ReadAndDeframe(d.format, bytes, q, d.max)
           at(q) == Message(d, type, bytes, q)
<1>1. /\ bytes \in Seq(Byte) /\ Run(d.format, run) /\ Exactly(d.format, run, bytes)
      /\ FirstLong(run, d.max, t) /\ d.max \in Nat /\ K \in Nat /\ DOMAIN d.adapters = 1..K
      /\ \A i \in 1..N : \A k \in 1..K : ~Stops(d.adapters[k], run[i])
  BY DEF Streams, IsDeframer
<1>2. /\ run \in Seq(Seq(Byte)) /\ N \in Nat /\ n \in 0..N /\ r \in 0..n /\ r \in 0..N /\ r <= n
      /\ r \in Nat /\ n \in Nat
  BY <1>1, LenProperties DEF Run, FirstLong, Rooted
<1>3. /\ \A i \in 0..N : E[i] \in 0..Len(bytes)
      /\ \A i \in 1..n : inner(E[i - 1]) = Some(run[i], E[i])
      /\ inner(E[n]) = Result(IF n = N THEN "None" ELSE "InvalidFrame")
  BY <1>1, FramesRead
<1>4. ASSUME NEW i \in 1..n, NEW k \in 0..K PROVE ReadBehind(d, k, bytes, E[i - 1]) = Some(run[i], E[i])
  <2>1. k \in Nat /\ \A j \in 1..k : j \in 1..K
    BY <1>1
  <2>2. i \in 1..N
    BY <1>2
  <2>3. inner(E[i - 1]).payload = run[i]
    <3> DEFINE got == inner(E[i - 1])
    <3>1. got = Some(run[i], E[i])
      BY <1>3
    <3>. HIDE DEF got
    <3>2. got.payload = run[i]
      BY <3>1 DEF Some
    <3>. QED BY <3>2 DEF got
  <2>4. \A j \in 1..k : ~Stops(d.adapters[j], inner(E[i - 1]).payload)
    BY <1>1, <2>1, <2>2, <2>3
  <2>5. ReadBehind(d, k, bytes, E[i - 1]) = inner(E[i - 1])
    <3> DEFINE q == E[i - 1]
    <3>. HIDE DEF q
    <3>. QED BY <2>1, <2>4, Behind DEF q
  <2>. QED BY <1>3, <2>5
<1>5. ASSUME NEW k \in 0..K
      PROVE  ReadBehind(d, k, bytes, E[n]) = Result(IF n = N THEN "None" ELSE "InvalidFrame")
  <2>1. inner(E[n]).kind # "Some"
    BY <1>3 DEF Result
  <2>2. ReadBehind(d, k, bytes, E[n]) = inner(E[n])
    <3> DEFINE q == E[n]
    <3>1. k \in Nat
      BY <1>1
    <3>. HIDE DEF q
    <3>. QED BY <2>1, <3>1, Behind DEF q
  <2>. QED BY <1>3, <2>2
<1>. HIDE DEF n, E, N
<1>6. K \in 0..K
  BY <1>1
<1>7. ASSUME NEW i \in 1..r PROVE at(E[i - 1]) = Some(run[i], E[i])
  <2>1. i \in 1..n
    BY <1>2
  <2>2. ReadMessage(d, bytes, E[i - 1]) = Some(run[i], E[i])
    BY <1>4, <1>6, <2>1 DEF ReadMessage
  <2>3. type = Raw \/ Verifies(type, DefaultLimits, run[i])
    BY DEF Rooted
  <2>. QED BY <2>2, <2>3 DEF Message, FromPayload, Some
<1>8. at(E[r]).kind = EndingOf(run, t, r)
  <2>1. CASE r = n
    <3>1. ReadMessage(d, bytes, E[r]) = Result(IF n = N THEN "None" ELSE "InvalidFrame")
      BY <1>5, <1>6, <2>1 DEF ReadMessage
    <3>2. at(E[r]).kind = IF n = N THEN "None" ELSE "InvalidFrame"
      BY <3>1 DEF Message, FromPayload, Result
    <3>. QED BY <2>1, <3>2 DEF EndingOf, n, N
  <2>2. CASE r # n
    <3>1. r + 1 \in 1..n /\ (r + 1) - 1 = r
      BY <1>2, <2>2
    <3>2. ReadMessage(d, bytes, E[r]) = Some(run[r + 1], E[r + 1])
      <4> DEFINE i == r + 1
      <4>. HIDE DEF i
      <4>1. ReadMessage(d, bytes, E[i - 1]) = Some(run[i], E[i])
        BY <1>4, <1>6, <3>1 DEF ReadMessage, i
      <4>. QED BY <3>1, <4>1 DEF i
    <3>3. type # Raw /\ ~Verifies(type, DefaultLimits, run[r + 1])
      BY <2>2 DEF Rooted, n
    <3>4. at(E[r]) = Result("FlatbuffersError")
      BY <3>2, <3>3 DEF Message, FromPayload, Some
    <3>. QED BY <2>2, <3>4 DEF EndingOf, Result, n
  <2>. QED BY <2>1, <2>2
<1>9. Walk(d, type, bytes, E, run, r)
  <2>1. at(E[r]).kind # "Some"
    BY <1>8 DEF EndingOf
  <2>2. \A i \in 0..r : E[i] \in 0..Len(bytes)
    <3>1. \A i \in 0..r : i \in 0..N
      BY <1>2
    <3>. QED BY <1>3, <3>1 DEF N, E
  <2>. QED BY <1>2, <1>7, <2>1, <2>2 DEF Walk, N
<1>10. ASSUME r = n, NEW k \in DOMAIN d.adapters, d.adapters[k].kind = "observe"
       PROVE  HearsAll(d, bytes, E, run, r, k)
  <2>1. k - 1 \in 0..K
    BY <1>1
  <2>2. \A q : CalledBack(d, bytes, q)[k] = CallBack(d.adapters[k], ReadBehind(d, k - 1, bytes, q))
    BY DEF CalledBack
  <2>3. ASSUME NEW i \in 1..r PROVE CalledBack(d, bytes, E[i - 1])[k] = <<run[i]>>
    <3>1. ReadBehind(d, k - 1, bytes, E[i - 1]) = Some(run[i], E[i])
      <4> DEFINE j == k - 1
      <4>. HIDE DEF j
      <4>1. ReadBehind(d, j, bytes, E[i - 1]) = Some(run[i], E[i])
        BY <1>4, <1>10, <2>1 DEF j
      <4>. QED BY <4>1 DEF j
    <3>2. CalledBack(d, bytes, E[i - 1])[k] = CallBack(d.adapters[k], Some(run[i], E[i]))
      BY <2>2, <3>1
    <3>. QED BY <1>10, <3>2 DEF CallBack, Some
  <2>4. CalledBack(d, bytes, E[r])[k] = <<>>
    <3>1. ReadBehind(d, k - 1, bytes, E[n]) = Result(IF n = N THEN "None" ELSE "InvalidFrame")
      <4> DEFINE j == k - 1
      <4>. HIDE DEF j
      <4>1. ReadBehind(d, j, bytes, E[n]) = Result(IF n = N THEN "None" ELSE "InvalidFrame")
        BY <1>5, <2>1 DEF j
      <4>. QED BY <4>1 DEF j
    <3>2. CalledBack(d, bytes, E[n])[k]
            = CallBack(d.adapters[k], Result(IF n = N THEN "None" ELSE "InvalidFrame"))
      BY <2>2, <3>1
    <3>. QED BY <1>10, <3>2 DEF CallBack, Result
  <2>. QED BY <2>3, <2>4 DEF HearsAll
<1>. QED BY <1>8, <1>9, <1>10 DEF E, n

\* What a process loop gives from the end of the m-th frame on.
LEMMA StreamRead ==
    ASSUME NEW d, NEW run, NEW bytes, NEW t, Streams(d, run, bytes, t),
           NEW type, NEW r, Rooted(type, run, t, r), NEW m \in 0..r
    PROVE  LET read == Process(d, type, bytes, Ends(d.format, run)[m])
           IN  /\ read.payloads = SubSeq(run, m + 1, r)
               /\ read.end = EndingOf(run, t, r)
               /\ r = t - 1 => \A k \in DOMAIN d.adapters :
                     d.adapters[k].kind = "observe" => read.seen[k] = SubSeq(run, m + 1, r)
<1> DEFINE E == Ends(d.format, run)
           first == E[m]
<1>1. /\ Walk(d, type, bytes, E, run, r)
      /\ Message(d, type, bytes, E[r]).kind = EndingOf(run, t, r)
      /\ r = t - 1 => \A k \in DOMAIN d.adapters :
            d.adapters[k].kind = "observe" => HearsAll(d, bytes, E, run, r, k)
  BY StreamWalks
<1>2. IsDeframer(d) /\ bytes \in Seq(Byte)
  BY DEF Streams
<1>. HIDE DEF E, first
<1>3. PICK h : Collects(d, type, bytes, h) /\ Process(d, type, bytes, first) = h[first]
  BY <1>2, Processing
<1>4. ComesTo(d, type, bytes, E, run, r, m, h[E[m]])
  BY <1>1, <1>3, WalkCollects
<1>5. ComesTo(d, type, bytes, E, run, r, m, Process(d, type, bytes, E[m]))
  BY <1>3, <1>4 DEF first
<1>. QED BY <1>1, <1>5 DEF ComesTo, E

\* The application's loop leaves at the first payload of the run that it wants.
LEMMA StreamFinds ==
    ASSUME NEW d, NEW run, NEW bytes, NEW t, Streams(d, run, bytes, t),
           NEW type, NEW r, Rooted(type, run, t, r),
           NEW wanted, NEW s \in 1..r, run[s] \in wanted, \A i \in 1..(s - 1) : run[i] \notin wanted
    PROVE  FirstWanted(d, type, wanted, bytes)
             = [examined |-> s, end |-> "found", next |-> Ends(d.format, run)[s]]
<1> DEFINE E == Ends(d.format, run)
           m == s - 1
           one == 1
           end == "found"
           next == E[s]
<1>1. Walk(d, type, bytes, E, run, r)
  BY StreamWalks
<1>2. IsDeframer(d) /\ bytes \in Seq(Byte) /\ E[0] = 0
  BY EndsOf DEF Streams
<1>. HIDE DEF E
<1>3. PICK h : Searches(d, type, wanted, bytes, h) /\ FirstWanted(d, type, wanted, bytes) = h[0]
  BY <1>2, Searching
<1>4. r \in Nat /\ m \in 0..r /\ m + one = s /\ one \in Nat
  BY <1>1, LenProperties DEF Walk
<1>5. h[E[m]] = [examined |-> one, end |-> end, next |-> next]
  <2>1. E[m] \in 0..Len(bytes) /\ Message(d, type, bytes, E[m]) = Some(run[s], E[s])
    BY <1>1, <1>4 DEF Walk
  <2>2. h[E[m]] = Examined(Some(run[s], E[s]), wanted, E[m], h)
    BY <1>3, <2>1 DEF Searches
  <2>. QED BY <2>2 DEF Examined, Some
<1>6. \A i \in 1..m : run[i] \notin wanted
  OBVIOUS
<1>. HIDE DEF m, one, end, next
<1>7. h[E[0]] = [examined |-> m + one, end |-> end, next |-> next]
  BY <1>1, <1>3, <1>4, <1>5, <1>6, WalkSearches
<1>. QED BY <1>2, <1>3, <1>4, <1>7 DEF end, next, E

\* Where the run has none, it goes through all of it.
LEMMA StreamHasNone ==
    ASSUME NEW d, NEW run, NEW bytes, NEW t, Streams(d, run, bytes, t),
           NEW type, NEW r, Rooted(type, run, t, r),
           NEW wanted, \A i \in 1..r : run[i] \notin wanted
    PROVE  FirstWanted(d, type, wanted, bytes)
             = [examined |-> r, end |-> EndingOf(run, t, r), next |-> Ends(d.format, run)[r]]
<1> DEFINE E == Ends(d.format, run)
           zero == 0
           end == EndingOf(run, t, r)
           next == E[r]
<1>1. Walk(d, type, bytes, E, run, r) /\ Message(d, type, bytes, E[r]).kind = end
  BY StreamWalks
<1>2. IsDeframer(d) /\ bytes \in Seq(Byte) /\ E[0] = 0
  BY EndsOf DEF Streams
<1>. HIDE DEF E, end
<1>3. PICK h : Searches(d, type, wanted, bytes, h) /\ FirstWanted(d, type, wanted, bytes) = h[0]
  BY <1>2, Searching
<1>4. r \in Nat /\ r \in 0..r /\ r + zero = r /\ zero \in Nat
  BY <1>1, LenProperties DEF Walk
<1>5. h[E[r]] = [examined |-> zero, end |-> end, next |-> next]
  <2>1. E[r] \in 0..Len(bytes) /\ Message(d, type, bytes, E[r]).kind # "Some"
    BY <1>1, <1>4 DEF Walk
  <2>2. h[E[r]] = Examined(Message(d, type, bytes, E[r]), wanted, E[r], h)
    BY <1>3, <2>1 DEF Searches
  <2>. QED BY <1>1, <2>1, <2>2 DEF Examined
<1>. HIDE DEF zero, next
<1>6. h[E[0]] = [examined |-> r + zero, end |-> end, next |-> next]
  BY <1>1, <1>3, <1>4, <1>5, WalkSearches
<1>. QED BY <1>2, <1>3, <1>4, <1>6 DEF end, next, E

-----------------------------------------------------------------------------
(* What has been accepted is what no adapter refuses. *)

Passed == \A i \in 1..Len(accepted) : \A k \in DOMAIN stack : ~Refuses(stack[k], accepted[i])

\* Only a payload that has gone through all adapters becomes an accepted one.
LEMMA PassedNext == Typed /\ Course /\ Passed /\ [Next]_vars => Passed'
<1>. SUFFICES ASSUME Typed, Course, Passed, [Next]_vars PROVE Passed'
  OBVIOUS
<1>1. ASSUME UNCHANGED <<stack, accepted>> PROVE Passed'
  BY <1>1 DEF Passed
<1>2. CASE FinishWrite
  <2>1. pc = "writing" /\ stack' = stack /\ accepted' = Append(accepted, payload)
    BY <1>2 DEF FinishWrite
  <2>2. accepted \in Seq(Fitting) /\ payload \in Fitting
    BY <2>1 DEF Typed, InHand, Fitting
  <2>3. Len(accepted) \in Nat /\ Len(accepted') = Len(accepted) + 1
        /\ accepted'[Len(accepted) + 1] = payload
        /\ \A i \in 1..Len(accepted) : accepted'[i] = accepted[i]
    BY <2>1, <2>2, AppendProperties, LenProperties
  <2>4. \A k \in DOMAIN stack : ~Refuses(stack[k], payload)
    <3>1. DOMAIN stack = 1..Len(stack)
      BY Given
    <3>. QED BY <2>1, <3>1 DEF Course
  <2>5. \A i \in 1..Len(accepted') : i \in 1..Len(accepted) \/ i = Len(accepted) + 1
    BY <2>3
  <2>6. ASSUME NEW i \in 1..Len(accepted'), NEW k \in DOMAIN stack
        PROVE  ~Refuses(stack[k], accepted'[i])
    BY <2>3, <2>4, <2>5 DEF Passed
  <2>. QED BY <2>1, <2>6 DEF Passed
<1>3. CASE UNCHANGED vars
  BY <1>1, <1>3 DEF vars, historyVars
<1>4. ASSUME NEW p \in Payloads, StartWrite(p) PROVE Passed'
  BY <1>1, <1>4 DEF StartWrite
<1>5. CASE SerializeFails
  BY <1>1, <1>5 DEF SerializeFails, historyVars
<1>6. CASE Bound
  BY <1>1, <1>6 DEF Bound, historyVars
<1>7. CASE Validate
  BY <1>1, <1>7 DEF Validate, historyVars
<1>8. CASE Observe
  BY <1>1, <1>8 DEF Observe
<1>9. CASE StartFrame
  BY <1>1, <1>9 DEF StartFrame, historyVars
<1>10. CASE Accept
  BY <1>1, <1>10 DEF Accept, historyVars
<1>11. ASSUME NEW n \in 0..MaxU32, SinkFails(n) PROVE Passed'
  BY <1>1, <1>11 DEF SinkFails
<1>. QED BY <1>2, <1>3, <1>4, <1>5, <1>6, <1>7, <1>8, <1>9, <1>10, <1>11 DEF Next

\* So it is always.
LEMMA AlwaysPassed == Spec => [](Typed /\ Layout /\ Passed)
<1>1. Init => Passed
  <2>1. Init => accepted = <<>>
    BY DEF Init
  <2>2. accepted = <<>> => Len(accepted) = 0
    OBVIOUS
  <2>. QED BY <2>1, <2>2 DEF Passed
<1>2. Typed /\ Course /\ Passed /\ [Next]_vars => Passed'
  BY PassedNext
<1>3. Spec => []Passed
  BY <1>1, <1>2, AlwaysCourse, PTL DEF Spec
<1>. QED BY <1>3, AlwaysLayout, PTL

-----------------------------------------------------------------------------
(* The reading sides of a state. *)

\* The default limit, half of what the length field can express.
LEMMA DefaultLimit == DefaultMaxFrameLen \in Nat
<1>1. MaxU32 \in Nat
  BY Widths
<1>2. (MaxU32 + 1) \div 2 \in Nat
  <2> DEFINE n == MaxU32
  <2>. HIDE DEF n
  <2>1. n \in Nat
    BY <1>1 DEF n
  <2>2. (n + 1) \div 2 \in Nat
    BY <2>1
  <2>. QED BY <2>2 DEF n
<1>. QED BY <1>2 DEF DefaultMaxFrameLen

\* Within is the number of the accepted payloads before the first that is not readable.
LEMMA WithinIs ==
    ASSUME Typed
    PROVE  /\ Within \in 0..Len(accepted) /\ Len(accepted) \in Nat
           /\ FirstLong(accepted, DefaultMaxFrameLen, Within + 1)
           /\ EndingOf(accepted, Within + 1, Within) = EndWithin
<1> DEFINE N == Len(accepted)
           T == {i \in DOMAIN accepted : ~Readable(accepted[i])} \cup {N + 1}
           t == IndexMin(T)
           limit == DefaultMaxFrameLen
<1>1. N \in Nat /\ DOMAIN accepted = 1..N /\ limit \in Nat
      /\ \A i \in 1..N : Len(accepted[i]) \in Nat
  <2>1. accepted \in Seq(Fitting) /\ Run(format, accepted)
    BY Runs
  <2>2. N \in Nat /\ DOMAIN accepted = 1..N
    BY <2>1, LenProperties
  <2>3. \A i \in 1..N : Len(accepted[i]) \in Nat
    BY <2>1, LenProperties DEF Run, Framed
  <2>. QED BY <2>2, <2>3, DefaultLimit
<1>. HIDE DEF limit
<1>2. \A i \in 1..N : Readable(accepted[i]) <=> Len(accepted[i]) <= limit
  BY DEF Readable, limit
<1>3. t \in T /\ \A i \in T : t <= i
  <2>1. T \in SUBSET Nat /\ T # {}
    BY <1>1
  <2>. HIDE DEF T
  <2>. QED BY <2>1, IndexMinIs
<1>4. Within = t - 1
  BY DEF Within
<1>. HIDE DEF t
<1>5. t \in 1..(N + 1)
  BY <1>1, <1>3
<1>6. ASSUME NEW i \in 1..(t - 1) PROVE Len(accepted[i]) <= limit
  <2>1. i \in 1..N /\ ~(t <= i)
    BY <1>1, <1>5
  <2>2. Readable(accepted[i])
    BY <1>1, <1>3, <2>1
  <2>. QED BY <1>2, <2>1, <2>2
<1>7. ASSUME t <= N PROVE Len(accepted[t]) > limit
  <2>1. t \in 1..N /\ t # N + 1
    BY <1>1, <1>5, <1>7
  <2>2. ~Readable(accepted[t])
    BY <1>3, <2>1
  <2>3. Len(accepted[t]) \in Nat /\ ~(Len(accepted[t]) <= limit)
    BY <1>1, <1>2, <2>1, <2>2
  <2>. QED BY <1>1, <2>3
<1>8. FirstLong(accepted, limit, t)
  BY <1>5, <1>6, <1>7 DEF FirstLong
<1>9. Within \in 0..N /\ Within + 1 = t /\ (Within + 1) - 1 = Within
  BY <1>1, <1>4, <1>5
<1>10. EndingOf(accepted, Within + 1, Within) = EndWithin
  BY <1>9 DEF EndingOf, EndWithin
<1>. QED BY <1>1, <1>8, <1>9, <1>10 DEF limit

\* The tightest bound is one of the bounds, or the default.
LEMMA TightestIs ==
    ASSUME Typed
    PROVE  /\ Tightest \in Nat /\ Tightest <= DefaultMaxFrameLen
           /\ \/ Tightest = DefaultMaxFrameLen
              \/ \E k \in DOMAIN stack : stack[k].kind = "bounded" /\ Tightest = stack[k].max
<1> DEFINE B == {stack[k].max : k \in {j \in DOMAIN stack : stack[j].kind = "bounded"}}
           S == {DefaultMaxFrameLen} \cup B
<1>1. \A k \in DOMAIN stack : stack[k].kind = "bounded" => stack[k].max \in Nat
  BY Given DEF IsAdapter
<1>2. S \in SUBSET Nat /\ S # {}
  BY <1>1, DefaultLimit
<1>3. IndexMin(S) \in S /\ \A i \in S : IndexMin(S) <= i
  <2>. HIDE DEF S
  <2>. QED BY <1>2, IndexMinIs
<1>4. Tightest = IndexMin(S)
  BY DEF Tightest
<1>. QED BY <1>2, <1>3, <1>4

\* The reader built like the writer has its observers, and validators that it has too.
LEMMA MirrorIs ==
    ASSUME Typed
    PROVE  /\ Mirror.format = format /\ Mirror.max = Tightest
           /\ Len(Mirror.adapters) \in Nat
           /\ DOMAIN Mirror.adapters = 1..Len(Mirror.adapters)
           /\ \A k \in DOMAIN Mirror.adapters :
                 \/ Mirror.adapters[k].kind = "observe"
                 \/ \E j \in DOMAIN stack :
                       /\ stack[j].kind = "validate"
                       /\ Mirror.adapters[k].validator = stack[j].validator
<1> DEFINE n == Len(stack)
           A == {[kind |-> "observe"]} \cup
                {[kind |-> "validate", validator |-> stack[j].validator] :
                    j \in {i \in DOMAIN stack : stack[i].kind = "validate"}}
           V == [format : {format}, max : {Tightest}, adapters : Seq(A)]
           of(k) == stack[Len(stack) + 1 - k]
           bare == WithMaxFrameLen(NewDeframer(format), Tightest)
           over(k, v) == CASE of(k).kind = "bounded"  -> v
                           [] of(k).kind = "validate" -> ValidatedBy(v, of(k).validator)
                           [] of(k).kind = "observe"  -> ObservedBy(v)
           step == [k \in 1..n |-> [v \in V |-> over(k, v)]]
           h == CHOOSE h : h = [k \in 0..Len(stack) |->
                   IF k = 0 THEN WithMaxFrameLen(NewDeframer(format), Tightest)
                   ELSE CASE stack[Len(stack) + 1 - k].kind = "bounded"  -> h[k - 1]
                          [] stack[Len(stack) + 1 - k].kind = "validate" ->
                                ValidatedBy(h[k - 1], stack[Len(stack) + 1 - k].validator)
                          [] stack[Len(stack) + 1 - k].kind = "observe"  -> ObservedBy(h[k - 1])]
<1>1. Mirror = h[n]
  BY DEF Mirror
<1>2. n \in Nat /\ DOMAIN stack = 1..n /\ \A k \in 1..n : n + 1 - k \in 1..n
  BY Given
<1>3. bare \in V
  <2>1. bare = [format |-> format, max |-> Tightest, adapters |-> <<>>]
    BY DEF WithMaxFrameLen, NewDeframer
  <2>2. <<>> \in Seq(A)
    OBVIOUS
  <2>. HIDE DEF A, bare
  <2>. QED BY <2>1, <2>2
<1>4. ASSUME NEW v \in V, NEW a \in A PROVE [v EXCEPT !.adapters = Append(@, a)] \in V
  <2>1. v.adapters \in Seq(A)
    OBVIOUS
  <2>2. Append(v.adapters, a) \in Seq(A)
    <3>. HIDE DEF A
    <3>. QED BY <2>1, AppendProperties
  <2>. HIDE DEF A
  <2>. QED BY <2>2
<1>5. ASSUME NEW k \in 1..n, NEW v \in V PROVE over(k, v) \in V
  <2>1. n + 1 - k \in DOMAIN stack /\ IsAdapter(of(k))
    <3>1. n + 1 - k \in 1..n
      BY <1>2
    <3>. QED BY <1>2, <3>1, Given
  <2>2. CASE of(k).kind = "bounded"
    BY <2>2
  <2>3. CASE of(k).kind = "validate"
    <3> DEFINE a == [kind |-> "validate", validator |-> of(k).validator]
    <3>1. a \in A
      BY <2>1, <2>3
    <3>. HIDE DEF V, A, a, of
    <3>2. [v EXCEPT !.adapters = Append(@, a)] \in V
      BY <1>4, <3>1
    <3>. QED BY <2>3, <3>2 DEF ValidatedBy, a
  <2>4. CASE of(k).kind = "observe"
    <3> DEFINE a == [kind |-> "observe"]
    <3>1. a \in A
      OBVIOUS
    <3>. HIDE DEF V, A, a, of
    <3>2. [v EXCEPT !.adapters = Append(@, a)] \in V
      BY <1>4, <3>1
    <3>. QED BY <2>4, <3>2 DEF ObservedBy, a
  <2>. QED BY <2>1, <2>2, <2>3, <2>4 DEF IsAdapter
<1>6. Steps(n, V, bare, step)
  <2>. HIDE DEF V, bare, over, n
  <2>1. step \in [1..n -> [V -> V]]
    BY <1>5
  <2>. HIDE DEF step
  <2>. QED BY <1>2, <1>3, <2>1 DEF Steps
<1>. HIDE DEF bare, n, V, over
<1>7. PICK g \in [0..n -> V] : g[0] = bare /\ \A k \in 1..n : g[k] = step[k][g[k - 1]]
  <2>. HIDE DEF step
  <2>. QED BY <1>6, StepsUp
<1>8. ASSUME NEW k \in 0..n PROVE g[k] = IF k = 0 THEN bare ELSE over(k, g[k - 1])
  <2>1. CASE k = 0
    BY <1>7, <2>1
  <2>2. CASE k # 0
    <3>1. k \in 1..n /\ k - 1 \in 0..n
      BY <1>2, <2>2
    <3>2. g[k - 1] \in V
      BY <1>7, <3>1
    <3>. QED BY <1>7, <2>2, <3>1, <3>2
  <2>. QED BY <2>1, <2>2
<1>9. g = [k \in 0..n |-> IF k = 0 THEN bare ELSE over(k, g[k - 1])]
  BY <1>7, <1>8
<1>10. h = [k \in 0..n |-> IF k = 0 THEN bare ELSE over(k, h[k - 1])]
  <2>1. \E x : x = [k \in 0..Len(stack) |->
                   IF k = 0 THEN WithMaxFrameLen(NewDeframer(format), Tightest)
                   ELSE CASE stack[Len(stack) + 1 - k].kind = "bounded"  -> x[k - 1]
                          [] stack[Len(stack) + 1 - k].kind = "validate" ->
                                ValidatedBy(x[k - 1], stack[Len(stack) + 1 - k].validator)
                          [] stack[Len(stack) + 1 - k].kind = "observe"  -> ObservedBy(x[k - 1])]
    BY <1>9 DEF n, bare, over
  <2>. QED BY <2>1 DEF n, bare, over
<1>. HIDE DEF h
<1>11. \A k \in 1..n : h[k - 1] \in V => h[k] = step[k][h[k - 1]]
  <2>1. ASSUME NEW k \in 1..n, h[k - 1] \in V PROVE h[k] = step[k][h[k - 1]]
    <3>1. k \in 0..n /\ k # 0
      BY <1>2
    <3>2. h[k] = over(k, h[k - 1])
      BY <1>10, <3>1
    <3>. QED BY <2>1, <3>2
  <2>. QED BY <2>1
<1>12. h[0] = bare
  <2>1. 0 \in 0..n
    BY <1>2
  <2>. QED BY <1>10, <2>1
<1>13. h[n] \in V
  <2>. HIDE DEF step
  <2>1. \A k \in 0..n : h[k] \in V
    BY <1>6, <1>11, <1>12, UpInRange
  <2>2. n \in 0..n
    BY <1>2
  <2>. QED BY <2>1, <2>2
<1>14. Mirror.format = format /\ Mirror.max = Tightest /\ Mirror.adapters \in Seq(A)
  <2>. HIDE DEF A
  <2>. QED BY <1>1, <1>13 DEF V
<1>15. Len(Mirror.adapters) \in Nat /\ DOMAIN Mirror.adapters = 1..Len(Mirror.adapters)
       /\ \A k \in DOMAIN Mirror.adapters : Mirror.adapters[k] \in A
  <2>. HIDE DEF A
  <2>. QED BY <1>14, LenProperties, ElementOfSeq
<1>16. ASSUME NEW a \in A
       PROVE  \/ a.kind = "observe"
              \/ \E j \in DOMAIN stack : stack[j].kind = "validate" /\ a.validator = stack[j].validator
  OBVIOUS
<1>. HIDE DEF A
<1>. QED BY <1>14, <1>15, <1>16

\* The plain reader of a clean stream.
LEMMA PlainStream ==
    ASSUME Typed, Layout, Clean
    PROVE  Streams(Plain(format), accepted, sink, Within + 1) /\ Plain(format).format = format
<1> DEFINE d == Plain(format)
<1>1. d.format = format /\ d.max = DefaultMaxFrameLen /\ d.adapters = <<>>
  BY DEF Plain, NewDeframer
<1>. HIDE DEF d
<1>2. Len(d.adapters) \in Nat /\ DOMAIN d.adapters = 1..Len(d.adapters) /\ DOMAIN d.adapters = {}
  BY <1>1
<1>3. /\ sink \in Seq(Byte) /\ Run(format, accepted) /\ Exactly(format, accepted, sink)
      /\ IsFormat(format)
  BY CleanStream, Given
<1>4. FirstLong(accepted, DefaultMaxFrameLen, Within + 1)
  BY WithinIs
<1>5. Streams(d, accepted, sink, Within + 1)
  BY <1>1, <1>2, <1>3, <1>4, DefaultLimit DEF Streams, IsDeframer
<1>. QED BY <1>1, <1>5 DEF d

\* The reader built like the writer refuses nothing that the writer has accepted.
LEMMA MirrorStream ==
    ASSUME Typed, Layout, Passed, Clean
    PROVE  Streams(Mirror, accepted, sink, Within + 1)
<1> DEFINE d == Mirror
           N == Len(accepted)
           t == Within + 1
           limit == DefaultMaxFrameLen
<1>1. /\ d.format = format /\ d.max = Tightest
      /\ Len(d.adapters) \in Nat /\ DOMAIN d.adapters = 1..Len(d.adapters)
      /\ \A k \in DOMAIN d.adapters :
            \/ d.adapters[k].kind = "observe"
            \/ \E j \in DOMAIN stack :
                  stack[j].kind = "validate" /\ d.adapters[k].validator = stack[j].validator
  BY MirrorIs
<1>. HIDE DEF d
<1>2. /\ sink \in Seq(Byte) /\ Run(format, accepted) /\ Exactly(format, accepted, sink)
      /\ IsFormat(format)
  BY CleanStream, Given
<1>3. FirstLong(accepted, limit, t) /\ N \in Nat /\ t \in 1..(N + 1)
  BY WithinIs
<1>4. /\ Tightest \in Nat /\ Tightest <= limit /\ limit \in Nat
      /\ \/ Tightest = limit
         \/ \E k \in DOMAIN stack : stack[k].kind = "bounded" /\ Tightest = stack[k].max
  BY TightestIs, DefaultLimit
<1>5. \A i \in 1..N : Len(accepted[i]) \in Nat
  BY <1>2, LenProperties DEF Run, Framed
<1>. HIDE DEF limit, t
<1>6. ASSUME NEW i \in 1..N, NEW k \in DOMAIN stack, stack[k].kind = "bounded"
      PROVE  Len(accepted[i]) <= stack[k].max
  <2>1. stack[k].max \in Nat
    BY <1>6, Given DEF IsAdapter
  <2>2. ~(Len(accepted[i]) > stack[k].max)
    BY <1>6 DEF Passed, Refuses
  <2>. QED BY <1>5, <2>1, <2>2
<1>7. FirstLong(accepted, Tightest, t)
  <2>1. ASSUME NEW i \in 1..(t - 1) PROVE Len(accepted[i]) <= Tightest
    <3>1. i \in 1..N /\ Len(accepted[i]) <= limit
      BY <1>3 DEF FirstLong
    <3>. QED BY <1>4, <1>6, <3>1
  <2>2. ASSUME t <= N PROVE Len(accepted[t]) > Tightest
    <3>1. Len(accepted[t]) > limit /\ t \in 1..N
      BY <1>3, <2>2 DEF FirstLong
    <3>. QED BY <1>4, <1>5, <3>1
  <2>. QED BY <1>3, <2>1, <2>2 DEF FirstLong
<1>8. ASSUME NEW i \in 1..N, NEW k \in DOMAIN d.adapters PROVE ~Stops(d.adapters[k], accepted[i])
  <2>1. ASSUME NEW j \in DOMAIN stack, stack[j].kind = "validate",
               d.adapters[k].validator = stack[j].validator
        PROVE  ~Stops(d.adapters[k], accepted[i])
    <3>1. ~Refuses(stack[j], accepted[i])
      BY DEF Passed
    <3>2. Verdict(stack[j].validator, accepted[i]) = "ok"
      BY <2>1, <3>1 DEF Refuses
    <3>. QED BY <2>1, <3>2 DEF Stops
  <2>. QED BY <1>1, <2>1 DEF Stops
<1>9. Streams(d, accepted, sink, t)
  BY <1>1, <1>2, <1>4, <1>7, <1>8 DEF Streams, IsDeframer
<1>. QED BY <1>9 DEF d, t

\* All of a stream, for a reader of raw payloads.
LEMMA RawRooted ==
    ASSUME Typed
    PROVE  /\ Rooted(Raw, accepted, Within + 1, Within)
           /\ 0 \in 0..Within /\ 0 + 1 = 1 /\ (Within + 1) - 1 = Within
<1>1. Within \in Nat /\ (Within + 1) - 1 = Within /\ Within \in 0..Within
  BY WithinIs
<1>. QED BY <1>1 DEF Rooted

(***************************************************************************)
(* A reader with the writer's validators and observers, and with the       *)
(* tightest of its bounds as max_frame_len, reads all that the writer has  *)
(* accepted and its observers are given all of it, whatever the adapters   *)
(* are and in whatever order; only the reader's default limit may end it   *)
(* before.                                                                 *)
(***************************************************************************)
THEOREM MirrorRead == Spec => []MirrorReads
<1>1. ASSUME Typed, Layout, Passed PROVE MirrorReads
  <2> DEFINE d == Mirror
             W == Within
             t == W + 1
             first == Ends(d.format, accepted)[0]
  <2>. SUFFICES ASSUME Clean
                PROVE  LET read  == ReadAll(Mirror, Raw, sink)
                           given == SubSeq(accepted, 1, Within)
                       IN  /\ read.payloads = given
                           /\ read.end = EndWithin
                           /\ \A k \in DOMAIN Mirror.adapters :
                                 Mirror.adapters[k].kind = "observe" => read.seen[k] = given
    BY DEF MirrorReads
  <2>1. Streams(d, accepted, sink, t)
    BY <1>1, MirrorStream
  <2>2. /\ Rooted(Raw, accepted, t, W) /\ 0 \in 0..W /\ 0 + 1 = 1 /\ t - 1 = W
        /\ EndingOf(accepted, t, W) = EndWithin
    BY <1>1, RawRooted, WithinIs
  <2>3. first = 0
    BY <2>1, EndsOf DEF Streams
  <2> DEFINE zero == 0
  <2>4. zero \in 0..W /\ zero + 1 = 1
    BY <2>2
  <2>. HIDE DEF zero, d, t, W
  <2>5. LET read == Process(d, Raw, sink, Ends(d.format, accepted)[zero])
        IN  /\ read.payloads = SubSeq(accepted, zero + 1, W)
            /\ read.end = EndingOf(accepted, t, W)
            /\ W = t - 1 => \A k \in DOMAIN d.adapters :
                  d.adapters[k].kind = "observe" => read.seen[k] = SubSeq(accepted, zero + 1, W)
    BY <2>1, <2>2, <2>4, StreamRead
  <2>6. LET read == Process(d, Raw, sink, 0)
        IN  /\ read.payloads = SubSeq(accepted, 1, W)
            /\ read.end = EndWithin
            /\ \A k \in DOMAIN d.adapters :
                  d.adapters[k].kind = "observe" => read.seen[k] = SubSeq(accepted, 1, W)
    <3>1. Ends(d.format, accepted)[zero] = 0
      BY <2>3 DEF zero
    <3>. QED BY <2>2, <2>4, <2>5, <3>1
  <2>. QED BY <2>6 DEF ReadAll, d, W
<1>. QED BY <1>1, AlwaysPassed, PTL

\* A validator that says "ok" has none of its parts object.
LEMMA PartsAgree ==
    ASSUME NEW v, IsValidator(v), NEW p, Verdict(v, p) = "ok", NEW part \in Range(Parts(v))
    PROVE  IsPart(part) /\ PartVerdict(part, p) = "ok"
<1>1. CASE v.kind = "composite"
  <2> DEFINE parts == v.parts
  <2>1. parts \in Seq(Range(parts)) /\ \A x \in Range(parts) : IsPart(x)
    BY <1>1 DEF IsValidator, IsPart
  <2>2. Len(parts) \in Nat /\ DOMAIN parts = 1..Len(parts)
    BY <2>1, LenProperties
  <2>3. Parts(v) = parts /\ FirstFailure(parts, p) = "ok"
    BY <1>1 DEF Verdict, Parts
  <2>. HIDE DEF parts
  <2>4. FromFirst(parts, p, Len(parts), FirstFailure(parts, p))
    BY <2>2, FirstFailureIs
  <2>5. \A i \in 1..Len(parts) : PartVerdict(parts[i], p) = "ok"
    BY <2>3, <2>4 DEF FromFirst
  <2>6. PICK i \in DOMAIN parts : part = parts[i]
    BY <2>3 DEF Range
  <2>. QED BY <2>1, <2>2, <2>3, <2>5, <2>6
<1>2. CASE v.kind # "composite"
  <2>1. IsPart(v) /\ Verdict(v, p) = PartVerdict(v, p) /\ Parts(v) = <<v>>
    BY <1>2 DEF IsValidator, Verdict, Parts
  <2>2. part = v
    BY <2>1 DEF Range
  <2>. QED BY <2>1, <2>2
<1>. QED BY <1>1, <1>2

\* A writer that vouches for a type has accepted roots of it alone.
LEMMA VouchedRoots ==
    ASSUME Typed, Passed, NEW type, Vouched(type), NEW i \in 1..Len(accepted)
    PROVE  Verifies(type, DefaultLimits, accepted[i])
<1> DEFINE p == accepted[i]
<1>1. PICK k \in DOMAIN stack :
        /\ stack[k].kind = "validate"
        /\ \E v \in Range(Parts(stack[k].validator)) :
              /\ v.kind = "typed" /\ v.type = type
              /\ v.limits.depth <= DefaultLimits.depth
              /\ v.limits.tables <= DefaultLimits.tables
  BY DEF Vouched
<1>2. PICK v \in Range(Parts(stack[k].validator)) :
        /\ v.kind = "typed" /\ v.type = type
        /\ v.limits.depth <= DefaultLimits.depth
        /\ v.limits.tables <= DefaultLimits.tables
  BY <1>1
<1>3. IsValidator(stack[k].validator)
  BY <1>1, Given DEF IsAdapter
<1>4. Verdict(stack[k].validator, p) = "ok"
  <2>1. ~Refuses(stack[k], p)
    BY DEF Passed
  <2>. QED BY <1>1, <2>1 DEF Refuses
<1>. HIDE DEF p
<1>5. IsPart(v) /\ PartVerdict(v, p) = "ok"
  BY <1>3, <1>4, PartsAgree
<1>6. v.name # "ok" /\ v.limits.depth \in Nat /\ v.limits.tables \in Nat
  BY <1>2, <1>5 DEF IsPart
<1>7. TypedVerdict(v, p) = "ok"
  BY <1>2, <1>5 DEF PartVerdict
<1>8. Verifies(type, v.limits, p)
  BY <1>2, <1>6, <1>7 DEF TypedVerdict, Fails
<1>9. p \in Payloads
  <2>1. accepted \in Seq(Fitting)
    BY Runs
  <2>. QED BY <2>1, ElementOfSeq DEF p, Fitting
<1>10. Shape(p).depth \in Nat /\ Shape(p).tables \in Nat
  BY <1>9, ExamplesAssumption
<1>11. DefaultLimits.depth \in Nat /\ DefaultLimits.tables \in Nat
  BY ValidationAssumption
<1>12. Verifies(type, DefaultLimits, p)
  BY <1>2, <1>6, <1>8, <1>10, <1>11 DEF Verifies
<1>. QED BY <1>12 DEF p

(***************************************************************************)
(* A typed scan gives the roots up to the first payload that has none and  *)
(* fails there, which it never does on a stream whose writer validated the *)
(* type, with any validators and adapters around that one; and a loop that *)
(* leaves at the first payload it wants can be gone on with at the next.   *)
(***************************************************************************)
THEOREM TypedRead == Spec => []TypedReads
<1>1. ASSUME Typed, Layout, Passed, Clean, NEW type \in Types
      PROVE  LET rootless == {i \in 1..Within : ~Verifies(type, DefaultLimits, accepted[i])}
                 rooted   == IndexMin(rootless \cup {Within + 1}) - 1
                 read     == ReadAll(Plain(format), type, sink)
             IN  /\ read.payloads = SubSeq(accepted, 1, rooted)
                 /\ read.end = IF rootless = {} THEN EndWithin ELSE "FlatbuffersError"
                 /\ Vouched(type) => rootless = {}
  <2> DEFINE d == Plain(format)
             W == Within
             t == W + 1
             R == {i \in 1..W : ~Verifies(type, DefaultLimits, accepted[i])}
             least == IndexMin(R \cup {W + 1})
             r == least - 1
             zero == 0
             first == Ends(d.format, accepted)[0]
  <2>1. Streams(d, accepted, sink, t)
    BY <1>1, PlainStream
  <2>2. W \in 0..Len(accepted) /\ Len(accepted) \in Nat /\ EndingOf(accepted, t, W) = EndWithin
    BY <1>1, WithinIs
  <2>3. type # Raw
    BY <1>1, ExamplesAssumption
  <2>4. least \in R \cup {W + 1} /\ \A i \in R \cup {W + 1} : least <= i
    <3> DEFINE S == R \cup {W + 1}
    <3>1. S \in SUBSET Nat /\ S # {}
      BY <2>2
    <3>. HIDE DEF S
    <3>2. IndexMin(S) \in S /\ \A i \in S : IndexMin(S) <= i
      BY <3>1, IndexMinIs
    <3>. QED BY <3>2 DEF S
  <2>. HIDE DEF d, W, least
  <2>5. W \in Nat /\ least \in 1..(W + 1) /\ r \in 0..W /\ r + 1 = least /\ t - 1 = W
    BY <2>2, <2>4
  <2>6. ASSUME NEW i \in 1..r PROVE Verifies(type, DefaultLimits, accepted[i])
    <3>1. i \in 1..W /\ ~(least <= i)
      BY <2>5
    <3>. QED BY <2>4, <3>1
  <2>7. r # W => ~Verifies(type, DefaultLimits, accepted[r + 1])
    <3>1. r # W => least # W + 1
      BY <2>5
    <3>. QED BY <2>4, <2>5, <3>1
  <2>8. r = W <=> R = {}
    <3>1. R = {} => least = W + 1
      BY <2>4
    <3>2. least = W + 1 => R = {}
      <4>1. ASSUME least = W + 1, NEW i \in R PROVE FALSE
        <5>1. i \in 1..W /\ least <= i
          BY <2>4
        <5>. QED BY <2>5, <4>1, <5>1
      <4>. HIDE DEF R
      <4>. QED BY <4>1
    <3>3. r = W <=> least = W + 1
      BY <2>5
    <3>. HIDE DEF r
    <3>. QED BY <3>1, <3>2, <3>3
  <2>9. Rooted(type, accepted, t, r)
    BY <2>3, <2>5, <2>6, <2>7 DEF Rooted
  <2>10. zero \in 0..r /\ zero + 1 = 1
    BY <2>5
  <2>11. Ends(d.format, accepted)[zero] = 0
    BY <2>1, EndsOf DEF Streams
  <2>12. EndingOf(accepted, t, r) = IF R = {} THEN EndWithin ELSE "FlatbuffersError"
    <3>1. CASE r = W
      BY <2>2, <2>8, <3>1
    <3>2. CASE r # W
      BY <2>5, <2>8, <3>2 DEF EndingOf
    <3>. QED BY <3>1, <3>2
  <2>. HIDE DEF zero, r, t, R
  <2>13. LET read == Process(d, type, sink, Ends(d.format, accepted)[zero])
         IN  /\ read.payloads = SubSeq(accepted, zero + 1, r)
             /\ read.end = EndingOf(accepted, t, r)
    BY <2>1, <2>9, <2>10, StreamRead
  <2>14. LET read == Process(d, type, sink, 0)
         IN  /\ read.payloads = SubSeq(accepted, 1, r)
             /\ read.end = IF R = {} THEN EndWithin ELSE "FlatbuffersError"
    BY <2>10, <2>11, <2>12, <2>13
  <2>15. Vouched(type) => R = {}
    <3>1. ASSUME Vouched(type), NEW i \in R PROVE FALSE
      <4>1. i \in 1..Len(accepted) /\ ~Verifies(type, DefaultLimits, accepted[i])
        BY <2>2, <2>5 DEF R
      <4>. QED BY <1>1, <3>1, <4>1, VouchedRoots
    <3>. QED BY <3>1
  <2>. QED BY <2>14, <2>15 DEF ReadAll, d, r, least, R, W
<1>2. ASSUME Typed, Layout, Clean, NEW p \in Payloads
      PROVE  LET hits == {i \in 1..Within : accepted[i] = p}
                 scan == FirstWanted(Plain(format), Raw, {p}, sink)
             IN  /\ scan.examined = IndexMin(hits \cup {Within})
                 /\ scan.end = IF hits = {} THEN EndWithin ELSE "found"
                 /\ Process(Plain(format), Raw, sink, scan.next).payloads
                       = SubSeq(accepted, scan.examined + 1, Within)
  <2> DEFINE d == Plain(format)
             W == Within
             t == W + 1
             H == {i \in 1..W : accepted[i] = p}
             s == IndexMin(H \cup {W})
             wanted == {p}
             scan == FirstWanted(d, Raw, wanted, sink)
             E == Ends(d.format, accepted)
             end == IF H = {} THEN EndWithin ELSE "found"
  <2>1. Streams(d, accepted, sink, t)
    BY <1>2, PlainStream
  <2>2. W \in 0..Len(accepted) /\ Len(accepted) \in Nat /\ EndingOf(accepted, t, W) = EndWithin
        /\ Rooted(Raw, accepted, t, W)
    BY <1>2, WithinIs, RawRooted
  <2>3. s \in H \cup {W} /\ \A i \in H \cup {W} : s <= i
    <3> DEFINE S == H \cup {W}
    <3>1. S \in SUBSET Nat /\ S # {}
      BY <2>2
    <3>. HIDE DEF S
    <3>2. IndexMin(S) \in S /\ \A i \in S : IndexMin(S) <= i
      BY <3>1, IndexMinIs
    <3>. QED BY <3>2 DEF S
  <2>. HIDE DEF d, W, s
  <2>4. W \in Nat /\ s \in 0..W
    BY <2>2, <2>3
  <2>5. scan = [examined |-> s, end |-> end, next |-> E[s]]
    <3>1. CASE H = {}
      <4>1. s = W /\ \A i \in 1..W : accepted[i] \notin wanted
        BY <2>3, <3>1
      <4>. HIDE DEF wanted, t
      <4>2. scan = [examined |-> W, end |-> EndingOf(accepted, t, W), next |-> E[W]]
        BY <2>1, <2>2, <4>1, StreamHasNone
      <4>. QED BY <2>2, <3>1, <4>1, <4>2
    <3>2. CASE H # {}
      <4>1. s \in 1..W /\ accepted[s] \in wanted
        <5>1. s \in H
          <6>1. PICK i \in H : TRUE
            BY <3>2
          <6>2. s <= i /\ i \in 1..W
            BY <2>3, <6>1
          <6>3. s = W => i = s
            BY <2>4, <6>2
          <6>. QED BY <2>3, <6>1, <6>3
        <5>. QED BY <5>1
      <4>2. \A i \in 1..(s - 1) : accepted[i] \notin wanted
        <5>1. ASSUME NEW i \in 1..(s - 1) PROVE accepted[i] # p
          <6>1. i \in 1..W /\ ~(s <= i)
            BY <2>4, <4>1
          <6>2. i \notin H
            BY <2>3, <6>1
          <6>. QED BY <6>1, <6>2
        <5>. QED BY <5>1
      <4>3. end = "found"
        BY <3>2
      <4>. HIDE DEF wanted, t, end
      <4>4. scan = [examined |-> s, end |-> "found", next |-> E[s]]
        BY <2>1, <2>2, <4>1, <4>2, StreamFinds
      <4>. QED BY <4>3, <4>4
    <3>. QED BY <3>1, <3>2
  <2>. HIDE DEF t, E, end, scan
  <2>6. Process(d, Raw, sink, E[s]).payloads = SubSeq(accepted, s + 1, W)
    <3>1. LET read == Process(d, Raw, sink, Ends(d.format, accepted)[s])
          IN  read.payloads = SubSeq(accepted, s + 1, W)
      BY <2>1, <2>2, <2>4, StreamRead
    <3>. QED BY <3>1 DEF E
  <2>7. /\ scan.examined = s /\ scan.end = end
        /\ Process(d, Raw, sink, scan.next).payloads = SubSeq(accepted, scan.examined + 1, W)
    BY <2>5, <2>6
  <2>. QED BY <2>7 DEF scan, d, s, W, end, H, wanted
<1>3. ASSUME Typed, Layout, Passed PROVE TypedReads
  <2>. SUFFICES ASSUME Clean PROVE TypedReads
    BY DEF TypedReads
  <2>. QED BY <1>1, <1>2, <1>3 DEF TypedReads
<1>. QED BY <1>3, AlwaysPassed, PTL

-----------------------------------------------------------------------------
(* The streams of the example programs. *)

\* From offset e on, a sequence is this one.
GoesOn(all, e, s) == Len(all) = e + Len(s) /\ \A k \in 1..Len(s) : all[e + k] = s[k]

\* The next piece of a sequence that is put together of pieces.
LEMMA NextPiece ==
    ASSUME NEW all, NEW e \in Nat, NEW a \in Seq(Byte), NEW b \in Seq(Byte),
           GoesOn(all, e, a \o b)
    PROVE  (\A k \in 1..Len(a) : all[e + k] = a[k]) /\ GoesOn(all, e + Len(a), b)
<1> DEFINE c == a \o b
           m == Len(a)
           n == Len(b)
<1>1. m \in Nat /\ n \in Nat /\ Len(c) = m + n
  BY LenProperties, Glued
<1>2. (\A k \in 1..m : c[k] = a[k]) /\ \A k \in 1..n : c[m + k] = b[k]
  BY GluedBytes
<1>3. Len(all) = e + Len(c) /\ \A k \in 1..Len(c) : all[e + k] = c[k]
  BY DEF GoesOn
<1>. HIDE DEF c, m, n
<1>4. ASSUME NEW k \in 1..m PROVE all[e + k] = a[k]
  <2>1. k \in 1..Len(c)
    BY <1>1
  <2>. QED BY <1>2, <1>3, <2>1
<1>5. ASSUME NEW k \in 1..n PROVE all[(e + m) + k] = b[k]
  <2> DEFINE j == m + k
  <2>1. j \in 1..Len(c) /\ (e + m) + k = e + j
    BY <1>1
  <2>2. c[j] = b[k]
    BY <1>2
  <2>. HIDE DEF j
  <2>. QED BY <1>3, <2>1, <2>2
<1>6. Len(all) = (e + m) + n
  BY <1>1, <1>3
<1>. QED BY <1>4, <1>5, <1>6 DEF GoesOn, m, n

\* What a program writes is its frames, one after the other.
LEMMA StreamHolds ==
    ASSUME NEW f, NEW run, Run(f, run)
    PROVE  Stream(f, run) \in Seq(Byte) /\ Exactly(f, run, Stream(f, run))
<1> DEFINE n == Len(run)
           of(i) == Frame(f, run[i])
           frames == [k \in DOMAIN run |-> Frame(f, run[k])]
           E == Ends(f, run)
<1>1. n \in Nat /\ DOMAIN run = 1..n /\ \A i \in 1..n : Framed(f, run[i])
  BY LenProperties DEF Run
<1>2. \A i \in 1..n : of(i) \in Seq(Byte)
  BY <1>1, FrameShape
<1>. HIDE DEF n
<1>3. /\ frames \in Seq(Seq(Byte)) /\ Len(frames) = n
      /\ \A i \in 1..n : frames[i] = of(i)
  <2>. HIDE DEF of
  <2>1. frames = [k \in 1..n |-> of(k)]
    BY <1>1 DEF of
  <2> DEFINE s == [k \in 1..n |-> of(k)]
  <2>2. s \in Seq(Seq(Byte)) /\ Len(s) = n /\ \A i \in 1..n : s[i] = of(i)
    BY <1>1, <1>2
  <2>. QED BY <2>1, <2>2
<1>4. PICK g : JoinedBy(frames, g) /\ Stream(f, run) = g[1]
  <2>1. Stream(f, run) = Joined(frames)
    BY DEF Stream
  <2>. HIDE DEF frames
  <2>. QED BY <1>3, <2>1, JoinedRecursion
<1>. HIDE DEF frames, of
<1>5. /\ \A k \in 1..(n + 1) : g[k] \in Seq(Byte)
      /\ g[n + 1] = <<>> /\ \A k \in 1..n : g[k] = of(k) \o g[k + 1]
  BY <1>3, <1>4 DEF JoinedBy
<1>6. /\ E[0] = 0 /\ \A i \in 0..n : E[i] \in Nat
      /\ \A i \in 1..n : E[i] = E[i - 1] + Len(of(i))
  <2>1. E \in [0..Len(run) -> Nat] /\ E[0] = 0
        /\ \A i \in 1..Len(run) : E[i] = E[i - 1] + Len(Frame(f, run[i]))
    BY EndsOf
  <2>. HIDE DEF E
  <2>. QED BY <2>1 DEF n, of
<1>. HIDE DEF E
<1> DEFINE all == g[1]
           claim(m) == GoesOn(all, E[m], g[m + 1])
           S == {m \in Nat : m <= n => claim(m)}
<1>7. all \in Seq(Byte) /\ Len(all) \in Nat
  <2>1. 1 \in 1..(n + 1)
    BY <1>1
  <2>. QED BY <1>5, <2>1, LenProperties
<1>8. 0 \in S
  <2>1. E[0] + Len(g[0 + 1]) = Len(all) /\ \A k \in 1..Len(all) : E[0] + k = k
    BY <1>6, <1>7
  <2>. QED BY <2>1 DEF GoesOn
<1>9. ASSUME NEW i \in 1..n, claim(i - 1)
      PROVE  claim(i) /\ \A k \in 1..Len(of(i)) : all[E[i - 1] + k] = of(i)[k]
  <2> DEFINE a == of(i)
             b == g[i + 1]
             e == E[i - 1]
  <2>1. i - 1 \in 0..n /\ (i - 1) + 1 = i /\ i \in 1..(n + 1) /\ i + 1 \in 1..(n + 1)
    BY <1>1
  <2>2. a \in Seq(Byte) /\ b \in Seq(Byte) /\ e \in Nat /\ g[i] = a \o b
        /\ E[i] = e + Len(a)
    BY <1>2, <1>5, <1>6, <2>1
  <2>3. GoesOn(all, e, a \o b)
    BY <1>9, <2>1, <2>2
  <2>. HIDE DEF a, b, e, all
  <2>4. (\A k \in 1..Len(a) : all[e + k] = a[k]) /\ GoesOn(all, e + Len(a), b)
    BY <2>2, <2>3, NextPiece
  <2>. QED BY <2>2, <2>4 DEF a, b, e
<1>10. ASSUME NEW m \in S, m < n PROVE m + 1 \in S
  <2> DEFINE i == m + 1
  <2>1. m \in Nat /\ i \in 1..n /\ i - 1 = m /\ m <= n
    BY <1>1, <1>10
  <2>2. claim(m)
    BY <2>1
  <2>. HIDE DEF claim, i
  <2>3. claim(i)
    BY <1>9, <2>1, <2>2
  <2>. QED BY <2>1, <2>3 DEF i
<1>11. ASSUME NEW m \in 0..n PROVE claim(m)
  <2>1. S \in SUBSET Nat /\ m \in Nat /\ m <= n /\ \A j \in S : j < m => j + 1 \in S
    <3>1. \A j \in S : j \in Nat
      OBVIOUS
    <3>. HIDE DEF S
    <3>. QED BY <1>1, <1>10, <3>1
  <2>2. m \in S
    <3>. HIDE DEF S
    <3>. QED BY <1>8, <2>1, CountUp
  <2>. QED BY <2>1, <2>2
<1>12. Len(all) = E[n]
  <2>1. n \in 0..n /\ Len(g[n + 1]) = 0 /\ E[n] \in Nat
    <3>1. Len(<<>>) = 0 /\ n \in 0..n
      BY <1>1
    <3>. QED BY <1>5, <1>6, <3>1
  <2>. HIDE DEF all
  <2>2. Len(all) = E[n] + Len(g[n + 1])
    BY <1>11, <2>1 DEF GoesOn
  <2>. QED BY <2>1, <2>2
<1>13. ASSUME NEW i \in 1..n, NEW k \in 1..Len(of(i)) PROVE all[E[i - 1] + k] = of(i)[k]
  <2> DEFINE j == i - 1
  <2>1. j \in 0..n
    BY <1>1
  <2>. HIDE DEF claim, j, all
  <2>2. claim(j)
    BY <1>11, <2>1
  <2>. QED BY <1>9, <2>2 DEF j
<1>. HIDE DEF all
<1>14. E[n] <= Len(all)
  BY <1>7, <1>12
<1>15. Exactly(f, run, all)
  BY <1>12, <1>13, <1>14 DEF Exactly, Holds, n, of, E
<1>. QED BY <1>4, <1>7, <1>15 DEF all

\* A reader reads all the payloads of a stream, and its observers hear of all.
ReadsThem(d, type, run) ==
    LET read == ReadAll(d, type, Stream(d.format, run))
    IN  /\ read.payloads = run
        /\ read.end = "None"
        /\ \A k \in DOMAIN d.adapters : d.adapters[k].kind = "observe" => read.seen[k] = run

\* A program's reader, without an adapter that stops a payload and with a limit that is
\* wide enough, reads them all, and its observers hear of all.
LEMMA RunIsRead ==
    ASSUME NEW d, IsDeframer(d), NEW run, Run(d.format, run),
           \A i \in 1..Len(run) : Len(run[i]) <= d.max,
           \A i \in 1..Len(run) : \A k \in DOMAIN d.adapters : ~Stops(d.adapters[k], run[i]),
           NEW type, \A i \in 1..Len(run) : type = Raw \/ Verifies(type, DefaultLimits, run[i])
    PROVE  ReadsThem(d, type, run)
<1> DEFINE n == Len(run)
           t == n + 1
           bytes == Stream(d.format, run)
           first == Ends(d.format, run)[0]
           m == 0
<1>1. n \in Nat /\ run \in Seq(Seq(Byte)) /\ t - 1 = n /\ n \in 0..(t - 1) /\ t \in 1..(n + 1)
      /\ m + 1 = 1 /\ m \in 0..n /\ ~(t <= n)
  BY LenProperties DEF Run
<1>2. FirstLong(run, d.max, t)
  BY <1>1 DEF FirstLong
<1>3. bytes \in Seq(Byte) /\ Exactly(d.format, run, bytes)
  BY StreamHolds
<1>. HIDE DEF bytes, t
<1>4. Streams(d, run, bytes, t)
  BY <1>2, <1>3 DEF Streams
<1>5. Rooted(type, run, t, n)
  BY <1>1 DEF Rooted
<1>6. first = 0
  BY EndsOf
<1>7. SubSeq(run, 1, n) = run
  BY <1>1, SubSeqFull
<1>8. EndingOf(run, t, n) = "None"
  BY <1>1 DEF EndingOf
<1>. HIDE DEF m
<1>9. LET read == Process(d, type, bytes, Ends(d.format, run)[m])
      IN  /\ read.payloads = SubSeq(run, m + 1, n)
          /\ read.end = EndingOf(run, t, n)
          /\ n = t - 1 => \A k \in DOMAIN d.adapters :
                d.adapters[k].kind = "observe" => read.seen[k] = SubSeq(run, m + 1, n)
  BY <1>1, <1>4, <1>5, StreamRead
<1>10. Ends(d.format, run)[m] = 0
  BY <1>6 DEF m
<1>. QED BY <1>1, <1>7, <1>8, <1>9, <1>10 DEF ReadsThem, ReadAll, bytes

\* What the recursion of a sum comes to, number by number.
SumsTo(numbers, u) ==
    /\ u[0] = 0 /\ \A k \in 0..Len(numbers) : u[k] \in Int
    /\ \A k \in 1..Len(numbers) : u[k] = u[k - 1] + numbers[k]

\* A sum is the last value of such a function.
LEMMA SummedOf ==
    ASSUME NEW numbers, Len(numbers) \in Nat, \A k \in 1..Len(numbers) : numbers[k] \in Int
    PROVE  \E u : SumsTo(numbers, u) /\ Summed(numbers) = u[Len(numbers)]
<1> DEFINE n == Len(numbers)
           zero == 0
           step == [k \in 1..n |-> [v \in Int |-> v + numbers[k]]]
           u == CHOOSE g : g = [k \in 0..n |-> IF k = 0 THEN 0 ELSE g[k - 1] + numbers[k]]
<1>1. n \in Nat /\ \A k \in 1..n : numbers[k] \in Int
  OBVIOUS
<1>2. Summed(numbers) = u[n]
  BY DEF Summed
<1>. HIDE DEF n
<1>3. Steps(n, Int, zero, step)
  <2>1. step \in [1..n -> [Int -> Int]]
    BY <1>1
  <2>. QED BY <1>1, <2>1 DEF Steps
<1>4. PICK g \in [0..n -> Int] : g[0] = zero /\ \A k \in 1..n : g[k] = step[k][g[k - 1]]
  <2>. HIDE DEF step, zero
  <2>. QED BY <1>3, StepsUp
<1>5. g = [k \in 0..n |-> IF k = 0 THEN 0 ELSE g[k - 1] + numbers[k]]
  <2>1. ASSUME NEW k \in 0..n PROVE g[k] = IF k = 0 THEN 0 ELSE g[k - 1] + numbers[k]
    <3>1. k # 0 => k \in 1..n /\ k - 1 \in 0..n
      BY <1>1
    <3>. QED BY <1>4, <3>1
  <2>. QED BY <1>4, <2>1
<1>6. u = [k \in 0..n |-> IF k = 0 THEN 0 ELSE u[k - 1] + numbers[k]]
  BY <1>5
<1>. HIDE DEF u
<1>7. u[0] = zero /\ \A k \in 1..n : u[k] = u[k - 1] + numbers[k]
  <2>1. 0 \in 0..n /\ \A k \in 1..n : k \in 0..n /\ k # 0
    BY <1>1
  <2>. QED BY <1>6, <2>1
<1>8. \A k \in 0..n : u[k] \in Int
  <2>1. \A k \in 1..n : u[k - 1] \in Int => u[k] = step[k][u[k - 1]]
    BY <1>7
  <2>2. u[0] = zero
    BY <1>7
  <2>. HIDE DEF step, zero
  <2>. QED BY <1>3, <2>1, <2>2, UpInRange
<1>9. SumsTo(numbers, u)
  BY <1>7, <1>8 DEF SumsTo, n
<1>. QED BY <1>2, <1>9 DEF n

\* Payloads that a program writes in a format.
Program(f, run) ==
    /\ Framed(f, <<>>) /\ run \in Seq(Seq(Byte))
    /\ \A i \in 1..Len(run) : Framed(f, run[i]) /\ Readable(run[i])

\* A format can frame what a reader with the default limit takes.
LEMMA ProgramRuns ==
    ASSUME NEW f, NEW run, Program(f, run)
    PROVE  Run(f, run) /\ \A i \in 1..Len(run) : Len(run[i]) <= DefaultMaxFrameLen
<1>1. DefaultMaxFrameLen <= MaxU32 /\ DefaultMaxFrameLen \in Nat /\ MaxU32 \in Nat
  <2> DEFINE m == MaxU32
  <2>1. m \in Nat
    BY Widths
  <2>2. DefaultMaxFrameLen = (m + 1) \div 2
    BY DEF DefaultMaxFrameLen
  <2>. HIDE DEF m
  <2>3. (m + 1) \div 2 \in Nat /\ (m + 1) \div 2 <= m
    BY <2>1
  <2>. QED BY <2>1, <2>2, <2>3 DEF m
<1>2. ASSUME NEW i \in 1..Len(run) PROVE Fits(run[i]) /\ Len(run[i]) <= DefaultMaxFrameLen
  <2>1. Len(run[i]) \in Nat /\ Len(run[i]) <= DefaultMaxFrameLen
    BY LenProperties DEF Program, Framed, Readable
  <2>. QED BY <1>1, <2>1 DEF Fits
<1>. QED BY <1>2 DEF Run, Program

\* The plain reader of a format.
LEMMA PlainIs ==
    ASSUME NEW f, IsFormat(f)
    PROVE  /\ IsDeframer(Plain(f)) /\ Plain(f).format = f
           /\ Plain(f).max = DefaultMaxFrameLen /\ Plain(f).adapters = <<>>
<1> DEFINE d == Plain(f)
<1>1. d.format = f /\ d.max = DefaultMaxFrameLen /\ d.adapters = <<>>
  BY DEF Plain, NewDeframer
<1>. HIDE DEF d
<1>2. Len(d.adapters) \in Nat /\ DOMAIN d.adapters = 1..Len(d.adapters)
  BY <1>1
<1>3. IsDeframer(d)
  BY <1>1, <1>2, DefaultLimit DEF IsDeframer
<1>. QED BY <1>1, <1>3 DEF d

\* It reads what a program writes, as payloads or as roots of their type.
LEMMA PlainReads ==
    ASSUME NEW f, NEW run, Program(f, run),
           NEW type, \A i \in 1..Len(run) : type = Raw \/ Verifies(type, DefaultLimits, run[i])
    PROVE  LET read == ReadAll(Plain(f), type, Stream(f, run))
           IN  read.payloads = run /\ read.end = "None"
<1> DEFINE d == Plain(f)
<1>1. /\ IsDeframer(d) /\ d.format = f /\ d.max = DefaultMaxFrameLen
      /\ DOMAIN d.adapters = {}
  <2>1. IsFormat(f)
    BY DEF Program, Framed
  <2>2. IsDeframer(d) /\ d.format = f /\ d.max = DefaultMaxFrameLen /\ d.adapters = <<>>
    BY <2>1, PlainIs
  <2>. QED BY <2>2
<1>. HIDE DEF d
<1>2. Run(d.format, run) /\ \A i \in 1..Len(run) : Len(run[i]) <= d.max
  BY <1>1, ProgramRuns
<1>3. \A i \in 1..Len(run) : \A k \in DOMAIN d.adapters : ~Stops(d.adapters[k], run[i])
  BY <1>1
<1>4. ReadsThem(d, type, run)
  BY <1>1, <1>2, <1>3, RunIsRead
<1>. QED BY <1>1, <1>4 DEF ReadsThem, d

\* Runs of one and of two payloads.
LEMMA ShortRuns ==
    ASSUME NEW p \in Seq(Byte), NEW q \in Seq(Byte)
    PROVE  /\ <<p>> \in Seq(Seq(Byte)) /\ Len(<<p>>) = 1 /\ <<p>>[1] = p
           /\ <<p, q>> \in Seq(Seq(Byte)) /\ Len(<<p, q>>) = 2 /\ <<p, q>>[1] = p /\ <<p, q>>[2] = q
OBVIOUS

\* The overhead of two frames is that of their headers.
LEMMA Overhead ==
    ASSUME NEW f, NEW p, NEW q, Program(f, <<p, q>>)
    PROVE  MeasureOverhead(f, <<p, q>>) = HeaderSize(f)
<1> DEFINE run == <<p, q>>
           a == Len(p)
           b == Len(q)
           h == HeaderSize(f)
           all == Len(Stream(f, run))
           numbers == [k \in DOMAIN run |-> Len(run[k])]
           E == Ends(f, run)
<1>1. /\ Len(run) = 2 /\ DOMAIN run = 1..2 /\ run[1] = p /\ run[2] = q
      /\ Framed(f, p) /\ Framed(f, q)
  <2>1. Len(run) = 2 /\ DOMAIN run = 1..2 /\ run[1] = p /\ run[2] = q
    OBVIOUS
  <2>2. 1 \in 1..2 /\ 2 \in 1..2
    OBVIOUS
  <2>. HIDE DEF run
  <2>3. \A i \in 1..2 : Framed(f, run[i])
    BY <2>1 DEF Program, run
  <2>. QED BY <2>1, <2>2, <2>3
<1>2. a \in Nat /\ b \in Nat /\ h \in Nat
  <2>1. p \in Seq(Byte) /\ q \in Seq(Byte)
    BY <1>1 DEF Framed
  <2>. QED BY <1>1, <2>1, LenProperties, Fields
<1>3. Run(f, run)
  BY ProgramRuns
<1>. HIDE DEF run
<1>4. all = E[2]
  BY <1>1, <1>3, StreamHolds DEF Exactly
<1>5. E[0] = 0 /\ E[1] = E[0] + (h + a) /\ E[2] = E[1] + (h + b)
  <2>1. E[0] = 0 /\ \A i \in 1..Len(run) : E[i] = E[i - 1] + Len(Frame(f, run[i]))
    BY <1>3, EndsOf
  <2>2. Len(Frame(f, p)) = h + a /\ Len(Frame(f, q)) = h + b
    BY <1>1, FrameShape
  <2>3. 1 \in 1..2 /\ 2 \in 1..2 /\ 1 - 1 = 0 /\ 2 - 1 = 1
    OBVIOUS
  <2>. HIDE DEF E
  <2>. QED BY <1>1, <2>1, <2>2, <2>3
<1>6. Len(numbers) = 2 /\ numbers[1] = a /\ numbers[2] = b
  <2>1. numbers = [k \in 1..2 |-> Len(run[k])]
    BY <1>1
  <2>. QED BY <1>1, <2>1
<1>7. Total(run) = a + b
  <2>1. Total(run) = Summed(numbers)
    BY DEF Total
  <2>. HIDE DEF numbers, a, b
  <2>2. Len(numbers) \in Nat /\ \A k \in 1..Len(numbers) : numbers[k] \in Int
    <3>1. \A k \in 1..2 : k = 1 \/ k = 2
      OBVIOUS
    <3>. QED BY <1>2, <1>6, <3>1
  <2>3. PICK u : SumsTo(numbers, u) /\ Summed(numbers) = u[Len(numbers)]
    BY <2>2, SummedOf
  <2>4. u[0] = 0 /\ u[1] = u[0] + numbers[1] /\ u[2] = u[1] + numbers[2]
    <3>1. 1 \in 1..2 /\ 2 \in 1..2 /\ 1 - 1 = 0 /\ 2 - 1 = 1
      OBVIOUS
    <3>. QED BY <1>6, <2>3, <3>1 DEF SumsTo
  <2>. QED BY <1>2, <1>6, <2>1, <2>3, <2>4
<1>. HIDE DEF E, a, b, h, all
<1>8. (all - Total(run)) \div 2 = h
  BY <1>2, <1>4, <1>5, <1>7
<1>. QED BY <1>1, <1>8 DEF MeasureOverhead, all, h, run

\* sized_checksums_example
LEMMA SizedChecksumsHold ==
    ASSUME NEW f, NEW p, NEW q, Program(f, <<p, q>>), f.kind # "magic"
    PROVE  SizedChecksums(f, <<p, q>>)
<1> DEFINE run == <<p, q>>
<1>1. HeaderSize(f) = 4 + SizeOf(f.alg)
  <2>1. IsFormat(f)
    BY DEF Program, Framed
  <2>2. CASE f.kind = "default"
    <3>1. f.alg = NoChecksum /\ SizeOf(f.alg) = 0
      BY <2>1, <2>2 DEF IsFormat, NoChecksum, Algorithm, SizeOf
    <3>. QED BY <2>2, <3>1 DEF HeaderSize
  <2>3. CASE f.kind = "checksum"
    BY <2>3 DEF HeaderSize
  <2>. QED BY <2>1, <2>2, <2>3 DEF IsFormat
<1>2. ReadAll(Plain(f), Raw, Stream(f, run)).payloads = run
  <2> DEFINE type == Raw
  <2>1. \A i \in 1..Len(run) : type = Raw \/ Verifies(type, DefaultLimits, run[i])
    OBVIOUS
  <2>. HIDE DEF run, type
  <2>2. ReadAll(Plain(f), type, Stream(f, run)).payloads = run
    BY <2>1, PlainReads DEF run
  <2>. QED BY <2>2 DEF type
<1>. HIDE DEF run
<1>. QED BY <1>1, <1>2, Overhead DEF SizedChecksums, run

\* The observer of a reader hears of everything a program writes.
LEMMA ObservedReads ==
    ASSUME NEW f, NEW run, Program(f, run),
           NEW type, \A i \in 1..Len(run) : type = Raw \/ Verifies(type, DefaultLimits, run[i])
    PROVE  ReadAll(ObservedBy(Plain(f)), type, Stream(f, run)).seen[1] = run
<1> DEFINE d == ObservedBy(Plain(f))
<1>1. /\ IsDeframer(d) /\ d.format = f /\ d.max = DefaultMaxFrameLen
      /\ DOMAIN d.adapters = {1} /\ d.adapters[1].kind = "observe"
  <2> DEFINE e == Plain(f)
  <2>1. IsFormat(f)
    BY DEF Program, Framed
  <2>2. e.format = f /\ e.max = DefaultMaxFrameLen /\ e.adapters = <<>>
    BY <2>1, PlainIs
  <2>3. d = [format |-> f, max |-> DefaultMaxFrameLen, adapters |-> <<[kind |-> "observe"]>>]
    BY DEF ObservedBy, Plain, NewDeframer
  <2>. HIDE DEF d
  <2>4. d.format = f /\ d.max = DefaultMaxFrameLen /\ d.adapters = <<[kind |-> "observe"]>>
    BY <2>3
  <2>5. DOMAIN d.adapters = 1..1 /\ Len(d.adapters) = 1 /\ d.adapters[1].kind = "observe"
    BY <2>4
  <2>6. 1..1 = {1} /\ 1 \in Nat
    OBVIOUS
  <2>. QED BY <2>1, <2>4, <2>5, <2>6, DefaultLimit DEF IsDeframer
<1>. HIDE DEF d
<1>2. Run(d.format, run) /\ \A i \in 1..Len(run) : Len(run[i]) <= d.max
  BY <1>1, ProgramRuns
<1>3. \A i \in 1..Len(run) : \A k \in DOMAIN d.adapters : ~Stops(d.adapters[k], run[i])
  BY <1>1 DEF Stops
<1>4. IsDeframer(d)
  BY <1>1
<1>5. ReadsThem(d, type, run)
  BY <1>2, <1>3, <1>4, RunIsRead
<1>6. ReadAll(d, type, Stream(f, run)).seen[1] = run
  BY <1>1, <1>5 DEF ReadsThem
<1>. QED BY <1>6 DEF d

\* observer_adapters_example
LEMMA ObserverAdaptersHold ==
    ASSUME NEW f, NEW run, Program(f, run)
    PROVE  ObserverAdapters(f, run)
<1> DEFINE type == Raw
<1>1. \A i \in 1..Len(run) : type = Raw \/ Verifies(type, DefaultLimits, run[i])
  OBVIOUS
<1>. HIDE DEF type
<1>2. ReadAll(ObservedBy(Plain(f)), type, Stream(f, run)).seen[1] = run
  BY <1>1, ObservedReads
<1>. QED BY <1>2 DEF ObserverAdapters, type

\* typed_reading_example
LEMMA TypedReadingHolds ==
    ASSUME NEW f, NEW run, Program(f, run),
           NEW type, \A i \in 1..Len(run) : Verifies(type, DefaultLimits, run[i])
    PROVE  TypedReading(f, type, run)
BY PlainReads DEF TypedReading

\* custom_framer_example
LEMMA CustomFramerHolds ==
    ASSUME NEW type, NEW p, Program(MagicHeader, <<p>>), Verifies(type, DefaultLimits, p)
    PROVE  CustomFramer(type, p)
<1> DEFINE run == <<p>>
           f == MagicHeader
<1>1. \A i \in 1..Len(run) : run[i] = p
  OBVIOUS
<1>. HIDE DEF run, f
<1>2. ReadAll(Plain(f), type, Stream(f, run)).payloads = run
  BY <1>1, PlainReads DEF run, f
<1>. QED BY <1>2 DEF CustomFramer, run, f

\* The stream of one payload is its frame.
LEMMA StreamOfOne ==
    ASSUME NEW f, NEW p, Program(f, <<p>>)
    PROVE  /\ Stream(f, <<p>>) \in Seq(Byte)
           /\ Len(Stream(f, <<p>>)) = HeaderSize(f) + Len(p)
           /\ \A k \in 1..Len(Stream(f, <<p>>)) : Stream(f, <<p>>)[k] = Frame(f, p)[k]
<1> DEFINE run == <<p>>
           wire == Stream(f, run)
           E == Ends(f, run)
           l == Len(Frame(f, p))
<1>1. Len(run) = 1 /\ run[1] = p /\ 1 \in 1..1 /\ 1 - 1 = 0
  OBVIOUS
<1>2. Run(f, run)
  BY ProgramRuns
<1>. HIDE DEF run
<1>3. Framed(f, p)
  BY <1>1, <1>2 DEF Run
<1>4. l = HeaderSize(f) + Len(p) /\ l \in Nat
  <2>1. Frame(f, p) \in Seq(Byte) /\ l = HeaderSize(f) + Len(p)
    BY <1>3, FrameShape
  <2>. QED BY <2>1, LenProperties
<1>5. E[0] = 0 /\ E[1] = E[0] + l
  BY <1>1, <1>2, EndsOf
<1>6. wire \in Seq(Byte) /\ Exactly(f, run, wire)
  BY <1>2, StreamHolds
<1>. HIDE DEF wire, E, l
<1>7. Len(wire) = E[1] /\ \A k \in 1..l : wire[E[0] + k] = Frame(f, p)[k]
  BY <1>1, <1>6 DEF Exactly, Holds, E, l
<1>8. Len(wire) = l
  BY <1>4, <1>5, <1>7
<1>9. \A k \in 1..l : E[0] + k = k
  BY <1>5
<1>. QED BY <1>4, <1>6, <1>7, <1>8, <1>9 DEF wire, run

\* Flipping changes the last byte.
LEMMA Flipped ==
    ASSUME NEW bytes \in Seq(Byte), bytes # <<>>
    PROVE  /\ Flip(bytes) \in Seq(Byte) /\ Len(bytes) \in Nat \ {0}
           /\ Len(Flip(bytes)) = Len(bytes)
           /\ Flip(bytes)[Len(bytes)] = (bytes[Len(bytes)] + 1) % Base
           /\ \A k \in 1..Len(bytes) : k # Len(bytes) => Flip(bytes)[k] = bytes[k]
<1> DEFINE n == Len(bytes)
           new == (bytes[n] + 1) % Base
           s == [k \in 1..n |-> IF k = n THEN new ELSE bytes[k]]
<1>1. n \in Nat \ {0} /\ bytes \in [1..n -> Byte] /\ n \in 1..n
  BY EmptySeq, LenProperties
<1>2. new \in Byte
  <2>1. bytes[n] \in Nat /\ Base \in Nat \ {0}
    BY <1>1, ChecksumAssumption DEF Byte
  <2> DEFINE v == bytes[n]
  <2>. HIDE DEF v
  <2>2. (v + 1) % Base \in 0..(Base - 1)
    BY <2>1 DEF v
  <2>. QED BY <2>2 DEF Byte, v
<1>3. Flip(bytes) = [bytes EXCEPT ![n] = new]
  BY DEF Flip
<1>. HIDE DEF n, new
<1>4. [bytes EXCEPT ![n] = new] = s
  BY <1>1
<1>5. s \in [1..n -> Byte]
  BY <1>1, <1>2
<1>6. s \in Seq(Byte) /\ Len(s) = n
  <2>. HIDE DEF s
  <2>. QED BY <1>1, <1>5, SeqDef
<1>7. s[n] = new /\ \A k \in 1..n : k # n => s[k] = bytes[k]
  BY <1>1
<1>. HIDE DEF s
<1>. QED BY <1>1, <1>3, <1>4, <1>6, <1>7 DEF n, new

\* The flipped stream of a payload that shows the flip.
LEMMA FlippedFrame ==
    ASSUME NEW f, NEW p, Program(f, <<p>>), f.kind = "checksum", p # <<>>,
           Calculate(f.alg, Flip(p)) \in 0..MaxU64,
           SumField(f.alg, Flip(p)) # SumField(f.alg, p)
    PROVE  Mismatched(f, Flip(Stream(f, <<p>>)), 0, Flip(p), DefaultMaxFrameLen)
<1> DEFINE wire == Stream(f, <<p>>)
           D == Flip(wire)
           n == Len(p)
           h == HeaderSize(f)
           size == SizeOf(f.alg)
           after == Flip(p)
           start == 0
           b == 4
           sum == SumField(f.alg, p)
<1>1. /\ IsFormat(f) /\ p \in Seq(Byte) /\ Framed(f, p) /\ n <= DefaultMaxFrameLen
      /\ Fits(p)
  <2> DEFINE run == <<p>>
  <2>1. Len(run) = 1 /\ run[1] = p /\ 1 \in 1..1
    OBVIOUS
  <2>2. Run(f, run) /\ \A i \in 1..Len(run) : Len(run[i]) <= DefaultMaxFrameLen
    BY ProgramRuns
  <2>. HIDE DEF run
  <2>3. Framed(f, p) /\ n <= DefaultMaxFrameLen /\ Fits(p)
    BY <2>1, <2>2 DEF Run
  <2>. QED BY <2>3 DEF Framed
<1>2. /\ size \in 0..8 /\ h = b + size /\ h \in Nat /\ size \in Nat
      /\ sum \in Seq(Byte) /\ Len(sum) = size /\ Len(LengthField(p)) = 4
  <2>1. size \in 0..8 /\ h \in Nat /\ sum \in Seq(Byte) /\ Len(sum) = size /\ Len(LengthField(p)) = 4
    BY <1>1, Fields
  <2>. QED BY <2>1 DEF HeaderSize
<1>3. /\ n \in Nat \ {0} /\ after \in Seq(Byte) /\ Len(after) = n
      /\ after[n] = (p[n] + 1) % Base /\ \A k \in 1..n : k # n => after[k] = p[k]
  BY <1>1, Flipped
<1>4. wire \in Seq(Byte) /\ Len(wire) = h + n /\ \A k \in 1..Len(wire) : wire[k] = Frame(f, p)[k]
  BY StreamOfOne
<1>5. /\ \A k \in 1..4 : Frame(f, p)[k] = LengthField(p)[k]
      /\ \A k \in 1..size : Frame(f, p)[4 + k] = sum[k]
      /\ \A k \in 1..n : Frame(f, p)[h + k] = p[k]
  <2>1. f.kind # "magic"
    OBVIOUS
  <2>. QED BY <1>1, <2>1, FrameBytes
<1>. HIDE DEF wire, after, n, h, size, sum
<1>6. wire # <<>> /\ Len(wire) \in Nat
  <2>1. Len(<<>>) = 0 /\ h + n \in Nat \ {0}
    BY <1>2, <1>3
  <2>. QED BY <1>4, <2>1
<1>7. /\ D \in Seq(Byte) /\ Len(D) = h + n /\ D[h + n] = (wire[h + n] + 1) % Base
      /\ \A k \in 1..(h + n) : k # h + n => D[k] = wire[k]
  BY <1>4, <1>6, Flipped
<1>. HIDE DEF D
<1>8. ASSUME NEW k \in 1..4 PROVE D[k] = LengthField(p)[k]
  <2>1. k \in 1..(h + n) /\ k # h + n
    BY <1>2, <1>3
  <2>. QED BY <1>4, <1>5, <1>7, <2>1
<1>9. ASSUME NEW k \in 1..size PROVE D[b + k] = sum[k]
  <2>1. b + k \in 1..(h + n) /\ b + k # h + n
    BY <1>2, <1>3
  <2>. QED BY <1>4, <1>5, <1>7, <2>1
<1>10. ASSUME NEW k \in 1..n PROVE D[h + k] = after[k]
  <2>1. h + k \in 1..(h + n)
    BY <1>2, <1>3
  <2>2. wire[h + k] = p[k]
    BY <1>4, <1>5, <2>1
  <2>3. CASE k = n
    BY <1>3, <1>7, <2>2, <2>3
  <2>4. CASE k # n
    <3>1. h + k # h + n
      BY <1>2, <1>3, <2>4
    <3>. QED BY <1>3, <1>7, <2>1, <2>2, <2>4, <3>1
  <2>. QED BY <2>3, <2>4
<1>11. DeclaredLen(D, start) = n
  <2>1. start \in Nat /\ start + 4 <= Len(D)
    BY <1>2, <1>3, <1>7
  <2>2. n \in 0..MaxU32
    BY <1>1, <1>3, Widths DEF Fits, n
  <2>3. \A k \in 1..4 : D[start + k] = ToLeBytes(n, 4)[k]
    <3>1. ASSUME NEW k \in 1..4 PROVE D[start + k] = ToLeBytes(n, 4)[k]
      <4>1. start + k = k
        OBVIOUS
      <4>2. D[k] = LengthField(p)[k]
        BY <1>8
      <4>. QED BY <4>1, <4>2 DEF LengthField, n
    <3>. QED BY <3>1
  <2>. HIDE DEF start
  <2>. QED BY <1>7, <2>1, <2>2, <2>3, LengthBack
<1>12. Slice(D, h, n) = after
  <2>1. h \in Nat /\ n \in Nat /\ h + n <= Len(D)
    BY <1>2, <1>3, <1>7
  <2>2. /\ Slice(D, h, n) \in Seq(Byte) /\ Len(Slice(D, h, n)) = n
        /\ \A k \in 1..n : Slice(D, h, n)[k] = D[h + k]
    BY <1>7, <2>1, Pieces
  <2> DEFINE s == Slice(D, h, n)
  <2>3. s = [k \in 1..n |-> s[k]] /\ after = [k \in 1..n |-> after[k]]
    <3>. HIDE DEF s
    <3>1. s \in Seq(Byte) /\ Len(s) = n
      BY <2>2 DEF s
    <3>. QED BY <1>3, <3>1, LenProperties
  <2>4. \A k \in 1..n : s[k] = after[k]
    BY <1>10, <2>2
  <2>. HIDE DEF s
  <2>5. s = after
    BY <2>3, <2>4
  <2>. QED BY <2>5 DEF s
<1>13. ~Verify(f.alg, ReadBytes(f.alg, Slice(D, b, size)), after)
  <2> DEFINE field == Slice(D, b, size)
  <2>1. b \in Nat /\ size \in Nat /\ b + size <= Len(D)
    BY <1>2, <1>3, <1>7
  <2>2. field \in Seq(Byte) /\ Len(field) = size /\ \A k \in 1..size : field[k] = D[b + k]
    <3>. HIDE DEF b
    <3>. QED BY <1>7, <2>1, Pieces
  <2>3. Calculate(f.alg, p) \in 0..MaxU64 /\ SizeOf(f.alg) \in 0..8
        /\ Calculate(f.alg, after) \in 0..MaxU64
    BY <1>1, <1>2 DEF Framed, after, size
  <2>4. SumField(f.alg, after) # SumField(f.alg, p)
    BY DEF after
  <2>. HIDE DEF field
  <2>5. PICK j \in 1..SizeOf(f.alg) : SumField(f.alg, after)[j] # SumField(f.alg, p)[j]
    BY <2>3, <2>4, SumsDiffer
  <2>6. field[j] = SumField(f.alg, p)[j]
    BY <1>9, <2>2, <2>5 DEF sum, size
  <2>7. field[j] # SumField(f.alg, after)[j] /\ Len(field) = SizeOf(f.alg)
    BY <2>2, <2>5, <2>6 DEF size
  <2>8. ~Verify(f.alg, ReadBytes(f.alg, field), after)
    BY <2>2, <2>3, <2>5, <2>7, VerifyFails
  <2>. QED BY <2>8 DEF field
<1>14. /\ start + h + Len(after) <= Len(D) /\ start + h = h /\ start + 4 = b
       /\ DefaultMaxFrameLen \in Nat /\ Len(after) <= DefaultMaxFrameLen /\ start \in Nat
  BY <1>1, <1>2, <1>3, <1>7, DefaultLimit DEF n
<1>15. Slice(D, start + h, Len(after)) = after /\ DeclaredLen(D, start) = Len(after)
  BY <1>3, <1>11, <1>12, <1>14
<1>16. ~Verify(f.alg, ReadBytes(f.alg, Slice(D, start + 4, size)), after)
  BY <1>13, <1>14
<1>. HIDE DEF start
<1>17. Mismatched(f, D, start, after, DefaultMaxFrameLen)
  BY <1>1, <1>3, <1>7, <1>14, <1>15, <1>16 DEF Mismatched, h, size
<1>. QED BY <1>17 DEF start, D, wire, after

\* sized_checksums_example, the flipped byte
LEMMA FlippedByteHolds ==
    ASSUME NEW alg, NEW p, Program(WithChecksum(alg), <<p>>), p # <<>>,
           Calculate(alg, Flip(p)) \in 0..MaxU64,
           SumField(alg, Flip(p)) # SumField(alg, p)
    PROVE  FlippedByte(alg, p)
<1> DEFINE f == WithChecksum(alg)
           d == Plain(f)
           D == Flip(Stream(f, <<p>>))
           start == 0
           none == 0
<1>1. f.kind = "checksum" /\ f.alg = alg
  BY DEF WithChecksum
<1>2. IsFormat(f)
  <2> DEFINE run == <<p>>
  <2>1. Run(f, run)
    BY ProgramRuns
  <2>. HIDE DEF run, f
  <2>2. IsFormat(f)
    BY <2>1 DEF Run, Framed
  <2>. QED BY <2>2
<1>3. d.format = f /\ d.max = DefaultMaxFrameLen /\ d.adapters = <<>>
  <2>. HIDE DEF f
  <2>. QED BY <1>2, PlainIs
<1>4. Mismatched(f, D, start, Flip(p), DefaultMaxFrameLen)
  <2>1. Calculate(f.alg, Flip(p)) \in 0..MaxU64 /\ SumField(f.alg, Flip(p)) # SumField(f.alg, p)
        /\ Program(f, <<p>>)
    BY <1>1
  <2>. HIDE DEF f
  <2>. QED BY <1>1, <2>1, FlippedFrame
<1>5. Len(d.adapters) = none /\ none \in Nat
  BY <1>3
<1>. HIDE DEF f, d, D, start, none
<1>6. ReadAndDeframe(d.format, D, start, d.max) = Result("ChecksumMismatch")
  BY <1>3, <1>4, ReadMismatch
<1>7. Result("ChecksumMismatch").kind = "ChecksumMismatch"
  BY DEF Result
<1>8. ReadBehind(d, none, D, start) = ReadAndDeframe(d.format, D, start, d.max)
  <2>1. ReadAndDeframe(d.format, D, start, d.max).kind # "Some"
    BY <1>6, <1>7
  <2>. QED BY <1>5, <2>1, Behind
<1>9. ReadMessage(d, D, start).kind = "ChecksumMismatch"
  BY <1>5, <1>6, <1>7, <1>8 DEF ReadMessage
<1>. QED BY <1>9 DEF FlippedByte, f, d, D, start

\* The payload of a run of one.
LEMMA TotalOfOne ==
    ASSUME NEW p \in Seq(Byte)
    PROVE  Total(<<p>>) = Len(p)
<1> DEFINE run == <<p>>
           n == Len(p)
           numbers == [k \in DOMAIN run |-> Len(run[k])]
<1>1. n \in Nat /\ numbers = <<n>>
  <2>1. numbers = [k \in 1..1 |-> n]
    OBVIOUS
  <2>2. n \in Nat
    BY LenProperties
  <2>. HIDE DEF numbers, n
  <2>3. Len(numbers) = 1 /\ numbers[1] = n
    BY <2>1
  <2>. QED BY <2>1, <2>2, <2>3
<1>2. Total(run) = Summed(numbers)
  BY DEF Total
<1>. HIDE DEF numbers, n
<1>3. Len(numbers) = 1 /\ numbers[1] = n
  BY <1>1
<1>4. PICK u : SumsTo(numbers, u) /\ Summed(numbers) = u[Len(numbers)]
  <2>1. Len(numbers) \in Nat /\ \A k \in 1..Len(numbers) : numbers[k] \in Int
    BY <1>1, <1>3
  <2>. QED BY <2>1, SummedOf
<1>5. u[0] = 0 /\ u[1] = u[0] + numbers[1]
  <2>1. 1 \in 1..1 /\ 1 - 1 = 0
    OBVIOUS
  <2>. QED BY <1>3, <1>4, <2>1 DEF SumsTo
<1>. QED BY <1>1, <1>2, <1>3, <1>4, <1>5 DEF n

\* A write through one adapter.
LEMMA OutcomeOfOne ==
    ASSUME NEW a, NEW p
    PROVE  LET outcome == Outcome(<<a>> \o <<>>, p)
           IN  /\ ~Refuses(a, p) => outcome = IF Fits(p) THEN "Ok" ELSE "InvalidFrame"
               /\ Refuses(a, p) /\ a.kind = "bounded" => outcome = "InvalidFrame"
<1> DEFINE framer == <<a>> \o <<>>
           refusers == {k \in DOMAIN framer : Refuses(framer[k], p)}
<1>1. DOMAIN framer = {1} /\ framer[1] = a
  <2>1. framer = <<a>>
    OBVIOUS
  <2>2. DOMAIN <<a>> = 1..1 /\ <<a>>[1] = a /\ 1..1 = {1}
    OBVIOUS
  <2>. QED BY <2>1, <2>2
<1>. HIDE DEF framer
<1>2. CASE ~Refuses(a, p)
  <2>1. refusers = {}
    BY <1>1, <1>2
  <2>2. Outcome(framer, p) = IF Fits(p) THEN "Ok" ELSE "InvalidFrame"
    BY <2>1 DEF Outcome
  <2>. QED BY <1>2, <2>2 DEF framer
<1>3. CASE Refuses(a, p)
  <2>1. refusers = {1}
    BY <1>1, <1>3
  <2>2. IndexMin({1}) = 1
    <3> DEFINE S == {1}
    <3>1. S \in SUBSET Nat /\ S # {}
      OBVIOUS
    <3>. HIDE DEF S
    <3>2. IndexMin(S) \in S
      BY <3>1, IndexMinIs
    <3>. QED BY <3>2 DEF S
  <2>3. refusers # {} /\ IndexMin(refusers) = 1
    BY <2>1, <2>2
  <2>. HIDE DEF refusers
  <2>4. a.kind = "bounded" => Outcome(framer, p) = "InvalidFrame"
    BY <1>1, <2>3 DEF Outcome, refusers
  <2>. QED BY <1>3, <2>4 DEF framer
<1>. QED BY <1>2, <1>3

\* A reader without adapters at a payload that is too long for it.
LEMMA TooLongRead ==
    ASSUME NEW d, IsDeframer(d), d.adapters = <<>>, NEW p, Run(d.format, <<p>>),
           Len(p) > d.max
    PROVE  ReadAll(d, Raw, Stream(d.format, <<p>>)).end = "InvalidFrame"
<1> DEFINE run == <<p>>
           bytes == Stream(d.format, run)
           type == Raw
           t == 1
           r == 0
           E == Ends(d.format, run)
<1>1. Len(run) = 1 /\ run[1] = p
  OBVIOUS
<1>2. Run(d.format, run)
  OBVIOUS
<1>. HIDE DEF run
<1>3. bytes \in Seq(Byte) /\ Exactly(d.format, run, bytes)
  BY <1>2, StreamHolds
<1>4. FirstLong(run, d.max, t)
  BY <1>1 DEF FirstLong
<1>5. DOMAIN d.adapters = {}
  OBVIOUS
<1>6. Rooted(type, run, t, r) /\ r \in 0..r
  BY DEF Rooted
<1>7. E[0] = 0
  BY <1>2, EndsOf
<1>8. EndingOf(run, t, r) = "InvalidFrame"
  BY <1>1 DEF EndingOf
<1>9. r = 0
  OBVIOUS
<1>. HIDE DEF bytes, t, r, type, E
<1>10. Streams(d, run, bytes, t)
  BY <1>2, <1>3, <1>4, <1>5 DEF Streams
<1>11. LET read == Process(d, type, bytes, Ends(d.format, run)[r])
       IN  /\ read.payloads = SubSeq(run, r + 1, r)
           /\ read.end = EndingOf(run, t, r)
           /\ r = t - 1 => \A k \in DOMAIN d.adapters :
                 d.adapters[k].kind = "observe" => read.seen[k] = SubSeq(run, r + 1, r)
  BY <1>6, <1>10, StreamRead
<1>12. Process(d, type, bytes, 0).end = "InvalidFrame"
  BY <1>7, <1>8, <1>9, <1>11 DEF E
<1>. QED BY <1>12 DEF ReadAll, bytes, run, type

\* bounded_adapters_example
LEMMA BoundedAdaptersHold ==
    ASSUME NEW p, NEW generous \in Nat, NEW tight \in Nat, Run(Default, <<p>>),
           tight < Len(p), Len(p) <= generous
    PROVE  BoundedAdapters(p, generous, tight)
<1> DEFINE bytes == Stream(Default, <<p>>)
           reader(max) == WithMaxFrameLen(NewDeframer(Default), max)
           run == <<p>>
           type == Raw
           f == Default
<1>1. p \in Seq(Byte) /\ Len(p) \in Nat /\ Fits(p) /\ IsFormat(Default)
  <2>1. Len(run) = 1 /\ run[1] = p /\ 1 \in 1..1
    OBVIOUS
  <2>2. Run(f, run)
    OBVIOUS
  <2>. HIDE DEF run
  <2>3. Framed(f, p) /\ Fits(p)
    BY <2>1, <2>2 DEF Run
  <2>. HIDE DEF f
  <2>4. p \in Seq(Byte) /\ Len(p) \in Nat /\ IsFormat(f)
    BY <2>3, LenProperties DEF Framed
  <2>. QED BY <2>3, <2>4 DEF f
<1>2. Outcome(Bounded(<<>>, generous), p) = "Ok"
  <2> DEFINE a == [kind |-> "bounded", max |-> generous]
  <2>1. ~Refuses(a, p)
    BY <1>1 DEF Refuses
  <2>2. Bounded(<<>>, generous) = <<a>> \o <<>>
    BY DEF Bounded
  <2>. HIDE DEF a
  <2>. QED BY <1>1, <2>1, <2>2, OutcomeOfOne
<1>3. Outcome(Bounded(<<>>, tight), p) = "InvalidFrame"
  <2> DEFINE a == [kind |-> "bounded", max |-> tight]
  <2>1. Refuses(a, p) /\ a.kind = "bounded"
    BY <1>1 DEF Refuses
  <2>2. Bounded(<<>>, tight) = <<a>> \o <<>>
    BY DEF Bounded
  <2>. HIDE DEF a
  <2>. QED BY <2>1, <2>2, OutcomeOfOne
<1>4. ASSUME NEW max \in Nat
      PROVE  /\ IsDeframer(reader(max)) /\ reader(max).format = Default
             /\ reader(max).max = max /\ reader(max).adapters = <<>>
  <2> DEFINE d == reader(max)
  <2>1. d = [format |-> Default, max |-> max, adapters |-> <<>>]
    BY DEF WithMaxFrameLen, NewDeframer
  <2>. HIDE DEF d
  <2>2. d.format = Default /\ d.max = max /\ d.adapters = <<>>
    BY <2>1
  <2>3. Len(d.adapters) \in Nat /\ DOMAIN d.adapters = 1..Len(d.adapters)
    BY <2>2
  <2>. QED BY <1>1, <2>2, <2>3 DEF IsDeframer, d
<1>5. ReadAll(reader(generous), Raw, bytes).end = "None"
      /\ ReadAll(reader(generous), Raw, bytes).payloads = <<p>>
  <2> DEFINE d == reader(generous)
  <2>1. IsDeframer(d) /\ d.format = Default /\ d.max = generous /\ d.adapters = <<>>
    BY <1>4
  <2>2. \A i \in 1..Len(run) : run[i] = p
    OBVIOUS
  <2>3. Run(Default, run)
    OBVIOUS
  <2>. HIDE DEF d, run
  <2>4. Run(d.format, run) /\ \A i \in 1..Len(run) : Len(run[i]) <= d.max
    BY <2>1, <2>2, <2>3
  <2>5. \A i \in 1..Len(run) : \A k \in DOMAIN d.adapters : ~Stops(d.adapters[k], run[i])
    BY <2>1
  <2>6. \A i \in 1..Len(run) : type = Raw \/ Verifies(type, DefaultLimits, run[i])
    OBVIOUS
  <2>7. IsDeframer(d)
    BY <2>1
  <2>. HIDE DEF type
  <2>8. ReadsThem(d, type, run)
    BY <2>4, <2>5, <2>6, <2>7, RunIsRead
  <2>9. d.format = Default
    BY <2>1
  <2>10. LET read == ReadAll(d, type, Stream(Default, run))
         IN  read.payloads = run /\ read.end = "None"
    BY <2>8, <2>9 DEF ReadsThem
  <2>. QED BY <2>10 DEF d, run, type
<1>6. ReadAll(reader(tight), Raw, bytes).end = "InvalidFrame"
  <2> DEFINE d == reader(tight)
  <2>1. IsDeframer(d) /\ d.format = Default /\ d.max = tight /\ d.adapters = <<>>
    BY <1>4
  <2>. HIDE DEF d
  <2>2. Run(d.format, <<p>>) /\ Len(p) > d.max
    BY <1>1, <2>1
  <2>3. ReadAll(d, Raw, Stream(d.format, <<p>>)).end = "InvalidFrame"
    BY <2>1, <2>2, TooLongRead
  <2>. QED BY <2>1, <2>3 DEF d
<1>7. Total(<<p>>) = Len(p)
  BY <1>1, TotalOfOne
<1>. QED BY <1>2, <1>3, <1>5, <1>6, <1>7 DEF BoundedAdapters

\* What one adapter makes of the deframer's result.
LEMMA OneBehind ==
    ASSUME NEW d, NEW bytes, NEW q
    PROVE  ReadBehind(d, 1, bytes, q)
             = Through(d.adapters[1], ReadAndDeframe(d.format, bytes, q, d.max))
<1> DEFINE inner == ReadAndDeframe(d.format, bytes, q, d.max)
           got == Through(d.adapters[1], inner)
           h == CHOOSE h : h = [j \in 0..1 |-> IF j = 0 THEN ReadAndDeframe(d.format, bytes, q, d.max)
                                               ELSE Through(d.adapters[j], h[j - 1])]
           g == [j \in 0..1 |-> IF j = 0 THEN inner ELSE got]
<1>1. ReadBehind(d, 1, bytes, q) = h[1]
  BY DEF ReadBehind
<1>2. g = [j \in 0..1 |-> IF j = 0 THEN inner ELSE Through(d.adapters[j], g[j - 1])]
  <2>1. g[0] = inner /\ \A j \in 0..1 : j = 0 \/ (j = 1 /\ j - 1 = 0)
    OBVIOUS
  <2>2. ASSUME NEW j \in 0..1
        PROVE  (IF j = 0 THEN inner ELSE got) = IF j = 0 THEN inner ELSE Through(d.adapters[j], g[j - 1])
    <3>. HIDE DEF g, inner
    <3>. QED BY <2>1
  <2>. HIDE DEF inner, got
  <2>. QED BY <2>2
<1>3. h = [j \in 0..1 |-> IF j = 0 THEN inner ELSE Through(d.adapters[j], h[j - 1])]
  BY <1>2
<1>. HIDE DEF h, g
<1>4. h[0] = inner /\ h[1] = Through(d.adapters[1], h[0])
  <2>1. 0 \in 0..1 /\ 1 \in 0..1 /\ 1 # 0 /\ 1 - 1 = 0
    OBVIOUS
  <2>. HIDE DEF inner
  <2>. QED BY <1>3, <2>1
<1>. QED BY <1>1, <1>4

\* A payload is read through a validator, or stopped by it.
LEMMA ValidatedReads ==
    ASSUME NEW f, NEW p, Program(f, <<p>>), NEW v
    PROVE  ReadAll(ValidatedBy(Plain(f), v), Raw, Stream(f, <<p>>)).end
             = IF Verdict(v, p) = "ok" THEN "None" ELSE "ValidationFailed"
<1> DEFINE d == ValidatedBy(Plain(f), v)
           run == <<p>>
           type == Raw
           bytes == Stream(f, run)
           start == 0
           adapter == [kind |-> "validate", validator |-> v]
<1>1. /\ IsDeframer(d) /\ d.format = f /\ d.max = DefaultMaxFrameLen
      /\ Len(d.adapters) = 1 /\ DOMAIN d.adapters = {1} /\ d.adapters[1] = adapter
  <2>1. IsFormat(f)
    BY DEF Program, Framed
  <2>2. d = [format |-> f, max |-> DefaultMaxFrameLen, adapters |-> <<adapter>>]
    BY DEF ValidatedBy, Plain, NewDeframer
  <2>. HIDE DEF d, adapter
  <2>3. d.format = f /\ d.max = DefaultMaxFrameLen /\ d.adapters = <<adapter>>
    BY <2>2
  <2>4. DOMAIN d.adapters = 1..1 /\ Len(d.adapters) = 1 /\ d.adapters[1] = adapter
    BY <2>3
  <2>5. 1..1 = {1} /\ 1 \in Nat
    OBVIOUS
  <2>. QED BY <2>1, <2>3, <2>4, <2>5, DefaultLimit DEF IsDeframer
<1>2. Len(run) = 1 /\ run[1] = p /\ \A i \in 1..Len(run) : run[i] = p
  OBVIOUS
<1>3. Run(f, run) /\ \A i \in 1..Len(run) : Len(run[i]) <= DefaultMaxFrameLen
  BY ProgramRuns
<1>. HIDE DEF d
<1>4. CASE Verdict(v, p) = "ok"
  <2>1. Run(d.format, run) /\ \A i \in 1..Len(run) : Len(run[i]) <= d.max
    BY <1>1, <1>3
  <2>2. \A i \in 1..Len(run) : \A k \in DOMAIN d.adapters : ~Stops(d.adapters[k], run[i])
    BY <1>1, <1>2, <1>4 DEF Stops
  <2>3. IsDeframer(d)
    BY <1>1
  <2>4. \A i \in 1..Len(run) : type = Raw \/ Verifies(type, DefaultLimits, run[i])
    OBVIOUS
  <2>. HIDE DEF type, run
  <2>5. ReadsThem(d, type, run)
    BY <2>1, <2>2, <2>3, <2>4, RunIsRead
  <2>6. d.format = f
    BY <1>1
  <2>7. ReadAll(d, type, Stream(f, run)).end = "None"
    BY <2>5, <2>6 DEF ReadsThem
  <2>. QED BY <1>4, <2>7 DEF d, type, run
<1>5. CASE Verdict(v, p) # "ok"
  <2> DEFINE inner == ReadAndDeframe(d.format, bytes, start, d.max)
             failed == Result("ValidationFailed")
  <2>1. bytes \in Seq(Byte) /\ Exactly(f, run, bytes)
    <3>. HIDE DEF run
    <3>. QED BY <1>3, StreamHolds
  <2>2. start \in 0..Len(bytes)
    <3>. HIDE DEF bytes
    <3>. QED BY <2>1, LenProperties
  <2>3. inner.kind = "Some" /\ inner.payload = p
    <3> DEFINE t == 2
               E == Ends(f, run)
    <3>. HIDE DEF run, bytes
    <3>1. FirstLong(run, DefaultMaxFrameLen, t)
      BY <1>2, <1>3 DEF FirstLong
    <3>2. E[0] = 0
      BY <1>3, EndsOf
    <3>. HIDE DEF t
    <3>3. \A i \in 1..(t - 1) : ReadAndDeframe(f, bytes, E[i - 1], DefaultMaxFrameLen) = Some(run[i], E[i])
      BY <1>3, <2>1, <3>1, DefaultLimit, FramesRead
    <3>4. 1 \in 1..(t - 1) /\ 1 - 1 = 0
      BY DEF t
    <3>. HIDE DEF E
    <3>5. inner = Some(p, E[1])
      BY <1>1, <1>2, <3>2, <3>3, <3>4
    <3>. QED BY <3>5 DEF Some
  <2>. HIDE DEF bytes, inner
  <2>4. Through(adapter, inner) = failed
    BY <1>5, <2>3 DEF Through
  <2>5. ReadMessage(d, bytes, start) = failed
    <3>1. ReadBehind(d, 1, bytes, start) = Through(d.adapters[1], inner)
      BY OneBehind DEF inner
    <3>. HIDE DEF adapter, failed, start
    <3>. QED BY <1>1, <2>4, <3>1 DEF ReadMessage
  <2>6. failed.kind = "ValidationFailed"
    BY DEF Result
  <2>7. Message(d, type, bytes, start) = failed
    BY <2>5, <2>6 DEF Message, FromPayload
  <2>. HIDE DEF failed, start, type
  <2>8. PICK h : Collects(d, type, bytes, h) /\ Process(d, type, bytes, start) = h[start]
    BY <1>1, <2>1, Processing
  <2>9. h[start] = Collected(failed, CalledBack(d, bytes, start), h)
    BY <2>2, <2>7, <2>8 DEF Collects
  <2>10. Process(d, type, bytes, start).end = "ValidationFailed"
    BY <2>6, <2>8, <2>9 DEF Collected
  <2>11. start = 0
    BY DEF start
  <2>. QED BY <1>5, <2>10, <2>11 DEF ReadAll, d, type, bytes
<1>. QED BY <1>4, <1>5

\* validation_example
LEMMA ValidationExampleHolds ==
    ASSUME NEW event, NEW invalid, Program(Default, <<event>>), Program(Default, <<invalid>>),
           RootVerdict(TableRootValidator, event) = "ok",
           RootVerdict(TableRootValidator, invalid) # "ok"
    PROVE  ValidationExample(event, invalid)
<1> DEFINE size == SizeValidator(1, MaxU32)
           root == TableRootValidator
           both == Add(Add(EmptyComposite, size), root)
           f == Default
<1>1. Len(event) \in Nat /\ Len(event) <= MaxU32 /\ MaxU32 \in Nat
  <2> DEFINE run == <<event>>
  <2>1. Len(run) = 1 /\ run[1] = event /\ 1 \in 1..1
    OBVIOUS
  <2>2. Run(f, run)
    BY ProgramRuns
  <2>. HIDE DEF run, f
  <2>3. Framed(f, event) /\ Fits(event)
    BY <2>1, <2>2 DEF Run
  <2>. QED BY <2>3, LenProperties, Widths DEF Framed, Fits
<1>2. root.kind = "root" /\ root.name = "TableRootValidator" /\ size.kind = "size"
      /\ size.name = "SizeValidator" /\ size.min = 1 /\ size.max = MaxU32
  BY DEF TableRootValidator, TableRootWithLimits, SizeValidator
<1>3. both.kind = "composite" /\ both.parts = Append(<<size>>, root)
  <2>. HIDE DEF size, root
  <2>1. Add(EmptyComposite, size)
          = [kind |-> "composite", name |-> "CompositeValidator", parts |-> <<size>>]
    BY DEF Add, EmptyComposite
  <2>. QED BY <2>1 DEF Add
<1>. HIDE DEF size, root, both
<1>4. ~(Len(event) < 4)
  BY <1>2 DEF RootVerdict, Fails, root
<1>5. PartVerdict(root, event) = "ok" /\ PartVerdict(root, invalid) # "ok"
      /\ PartVerdict(size, event) = "ok"
  <2>1. PartVerdict(root, event) = "ok" /\ PartVerdict(root, invalid) # "ok"
    BY <1>2 DEF PartVerdict, root
  <2>2. PartVerdict(size, event) = SizeVerdict(size, event)
    BY <1>2 DEF PartVerdict
  <2>3. ~(Len(event) < 1) /\ ~(Len(event) > MaxU32)
    BY <1>1, <1>4
  <2>4. SizeVerdict(size, event) = "ok"
    BY <1>2, <2>3 DEF SizeVerdict, Fails
  <2>. QED BY <2>1, <2>2, <2>4
<1>6. Verdict(root, event) = "ok" /\ Verdict(root, invalid) # "ok"
  BY <1>2, <1>5 DEF Verdict
<1>7. Verdict(NoValidator, event) = "ok"
  BY DEF Verdict, PartVerdict, NoValidator
<1>8. Verdict(both, event) = "ok"
  <2> DEFINE parts == Append(<<size>>, root)
             S == {size, root}
  <2>1. Len(parts) = 2 /\ Len(parts) \in Nat /\ \A i \in 1..2 : parts[i] = size \/ parts[i] = root
    <3>1. <<size>> \in Seq(S) /\ Len(<<size>>) = 1
      OBVIOUS
    <3>2. parts \in Seq(S) /\ Len(parts) = 2
      BY <3>1, AppendProperties
    <3>3. \A i \in 1..Len(parts) : parts[i] \in S
      <4>. HIDE DEF parts, S
      <4>. QED BY <3>2, ElementOfSeq
    <3>. QED BY <3>2, <3>3
  <2>2. Verdict(both, event) = FirstFailure(parts, event)
    BY <1>3 DEF Verdict
  <2>. HIDE DEF parts
  <2>3. \A i \in 1..2 : PartVerdict(parts[i], event) = "ok"
    BY <1>5, <2>1
  <2>4. FromFirst(parts, event, 2, FirstFailure(parts, event))
    BY <2>1, FirstFailureIs
  <2>5. FirstFailure(parts, event) = "ok"
    BY <2>3, <2>4 DEF FromFirst
  <2>. QED BY <2>2, <2>5
<1>9. Outcome(WithValidator(<<>>, root), event) = "Ok"
  <2> DEFINE a == [kind |-> "validate", validator |-> root]
  <2>1. ~Refuses(a, event)
    BY <1>6 DEF Refuses
  <2>2. WithValidator(<<>>, root) = <<a>> \o <<>>
    BY DEF WithValidator
  <2>. HIDE DEF a
  <2>3. Fits(event)
    BY <1>1 DEF Fits
  <2>. QED BY <2>1, <2>2, <2>3, OutcomeOfOne
<1>10. ASSUME NEW v, NEW p \in {event, invalid}
       PROVE  ReadAll(ValidatedBy(Plain(f), v), Raw, Stream(f, <<p>>)).end
                = IF Verdict(v, p) = "ok" THEN "None" ELSE "ValidationFailed"
  <2>1. Program(f, <<p>>)
    OBVIOUS
  <2>. HIDE DEF f
  <2>. QED BY <2>1, ValidatedReads
<1>11. \A v \in {NoValidator, root, both} :
          ReadAll(ValidatedBy(Plain(f), v), Raw, Stream(f, <<event>>)).end = "None"
  <2>. HIDE DEF f
  <2>. QED BY <1>6, <1>7, <1>8, <1>10
<1>12. ReadAll(ValidatedBy(Plain(f), root), Raw, Stream(f, <<invalid>>)).end = "ValidationFailed"
  <2>. HIDE DEF f
  <2>. QED BY <1>6, <1>10
<1>. QED BY <1>9, <1>11, <1>12 DEF ValidationExample, f, root, both, size

\* typed_reading_flatc_example
LEMMA TypedReadingFlatcHolds ==
    ASSUME NEW event, Program(Default, <<event, event, event>>),
           NEW type, Verifies(type, DefaultLimits, event)
    PROVE  TypedReadingFlatc(type, event)
<1> DEFINE events == <<event, event, event>>
           f == Default
<1>1. Len(events) = 3 /\ \A i \in 1..Len(events) : events[i] = event
  OBVIOUS
<1>2. Program(f, events)
  OBVIOUS
<1>. HIDE DEF events, f
<1>3. ReadAll(Plain(f), type, Stream(f, events)).payloads = events
  BY <1>1, <1>2, PlainReads
<1>. QED BY <1>3 DEF TypedReadingFlatc, events, f

\* The payloads of messages.
Texts(messages) == [k \in DOMAIN messages |-> messages[k].payload]
IsMessage(message) == message.builder \in Builders /\ message.payload \in Seq(Byte)

\* multiple_builders_example: each builder holds the last message of its kind.
LEMMA MultipleBuildersHold ==
    ASSUME NEW messages, Len(messages) \in Nat, DOMAIN messages = 1..Len(messages),
           \A k \in 1..Len(messages) : IsMessage(messages[k]),
           Program(Default, Texts(messages))
    PROVE  MultipleBuilders(messages)
<1> DEFINE n == Len(messages)
           V == [Builders -> Seq(Byte)]
           first == [b \in Builders |-> <<>>]
           step == [k \in 1..n |-> [v \in V |-> Serialized(v, messages[k])]]
           held == CHOOSE g : g = [k \in 0..n |-> IF k = 0 THEN [b \in Builders |-> <<>>]
                                                  ELSE Serialized(g[k - 1], messages[k])]
           texts == Texts(messages)
           written == [k \in DOMAIN messages |-> held[k][messages[k].builder]]
           f == Default
           type == Raw
           read == ReadAll(Plain(f), type, Stream(f, written)).payloads
<1>1. n \in Nat /\ DOMAIN messages = 1..n /\ \A k \in 1..n : IsMessage(messages[k])
  OBVIOUS
<1>2. MultipleBuilders(messages) <=> Len(read) = n /\ \A i \in DOMAIN messages : read[i] = messages[i].payload
  BY DEF MultipleBuilders
<1>. HIDE DEF n
<1>3. \A k \in 1..n : \A v \in V : Serialized(v, messages[k]) \in V
                                   /\ Serialized(v, messages[k])[messages[k].builder] = messages[k].payload
  <2>1. ASSUME NEW k \in 1..n, NEW v \in V
        PROVE  Serialized(v, messages[k]) \in V
               /\ Serialized(v, messages[k])[messages[k].builder] = messages[k].payload
    <3> DEFINE b == messages[k].builder
               p == messages[k].payload
               T == Seq(Byte)
    <3>1. b \in Builders /\ p \in T
      BY <1>1 DEF IsMessage
    <3>2. Serialized(v, messages[k]) = [v EXCEPT ![b] = p]
      BY DEF Serialized
    <3>3. v \in [Builders -> T]
      OBVIOUS
    <3>. HIDE DEF b, p, T
    <3>4. [v EXCEPT ![b] = p] \in [Builders -> T] /\ [v EXCEPT ![b] = p][b] = p
      BY <3>1, <3>3
    <3>. QED BY <3>2, <3>4 DEF b, p, T
  <2>. QED BY <2>1
<1>4. Steps(n, V, first, step)
  <2>1. first \in V
    <3>1. <<>> \in Seq(Byte)
      OBVIOUS
    <3>. QED BY <3>1
  <2>2. step \in [1..n -> [V -> V]]
    <3>. HIDE DEF V
    <3>. QED BY <1>3
  <2>. HIDE DEF V, first, step
  <2>. QED BY <1>1, <2>1, <2>2 DEF Steps
<1>5. PICK g \in [0..n -> V] : g[0] = first /\ \A k \in 1..n : g[k] = step[k][g[k - 1]]
  <2>. HIDE DEF V, first, step
  <2>. QED BY <1>4, StepsUp
<1>6. g = [k \in 0..n |-> IF k = 0 THEN first ELSE Serialized(g[k - 1], messages[k])]
  <2>1. ASSUME NEW k \in 0..n
        PROVE  g[k] = IF k = 0 THEN first ELSE Serialized(g[k - 1], messages[k])
    <3>1. k # 0 => k \in 1..n /\ k - 1 \in 0..n
      BY <1>1
    <3>. HIDE DEF V, first
    <3>. QED BY <1>5, <3>1
  <2>. HIDE DEF V, first
  <2>. QED BY <1>5, <2>1
<1>7. held = [k \in 0..n |-> IF k = 0 THEN first ELSE Serialized(held[k - 1], messages[k])]
  BY <1>6
<1>. HIDE DEF held
<1>8. held[0] = first /\ \A k \in 1..n : held[k] = Serialized(held[k - 1], messages[k])
  <2>1. 0 \in 0..n /\ \A k \in 1..n : k \in 0..n /\ k # 0
    BY <1>1
  <2>. HIDE DEF first
  <2>. QED BY <1>7, <2>1
<1>9. \A k \in 0..n : held[k] \in V
  <2>1. \A k \in 1..n : held[k - 1] \in V => held[k] = step[k][held[k - 1]]
    <3>. HIDE DEF V
    <3>. QED BY <1>8
  <2>2. held[0] = first
    BY <1>8
  <2>. HIDE DEF V, first, step
  <2>. QED BY <1>4, <2>1, <2>2, UpInRange
<1>10. ASSUME NEW k \in 1..n PROVE held[k][messages[k].builder] = messages[k].payload
  <2>1. k - 1 \in 0..n
    BY <1>1
  <2>. HIDE DEF V
  <2>2. held[k - 1] \in V
    BY <1>9, <2>1
  <2>3. Serialized(held[k - 1], messages[k])[messages[k].builder] = messages[k].payload
    BY <1>3, <2>2
  <2>4. held[k] = Serialized(held[k - 1], messages[k])
    BY <1>8
  <2>. QED BY <2>3, <2>4
<1>11. written = texts /\ Len(texts) = n /\ \A i \in 1..n : texts[i] = messages[i].payload
  <2>1. texts = [k \in 1..n |-> messages[k].payload]
    BY <1>1 DEF Texts
  <2>2. written = [k \in 1..n |-> held[k][messages[k].builder]]
    BY <1>1
  <2>3. Len([k \in 1..n |-> messages[k].payload]) = n
    BY <1>1
  <2>. HIDE DEF texts, written
  <2>. QED BY <1>10, <2>1, <2>2, <2>3
<1>12. Program(f, texts) /\ \A i \in 1..Len(texts) : type = Raw \/ Verifies(type, DefaultLimits, texts[i])
  OBVIOUS
<1>. HIDE DEF texts, written, type, f
<1>13. ReadAll(Plain(f), type, Stream(f, texts)).payloads = texts
  BY <1>12, PlainReads
<1>14. read = texts
  BY <1>11, <1>13
<1>. HIDE DEF read
<1>. QED BY <1>1, <1>2, <1>11, <1>14 DEF n

\* The workload of the example.
LEMMA WorkloadHolds ==
    ASSUME NEW a \in Seq(Byte), NEW b \in Seq(Byte), NEW c \in Seq(Byte),
           \A run \in Seq({a, b, c}) : Program(Default, run)
    PROVE  MultipleBuilders(Workload(a, b, c))
<1> DEFINE m == Workload(a, b, c)
           ca == [builder |-> "control", payload |-> a]
           cb == [builder |-> "telemetry", payload |-> b]
           cc == [builder |-> "file", payload |-> c]
<1>1. m = <<ca, ca, cb, cc, ca, ca>>
  BY DEF Workload
<1>2. IsMessage(ca) /\ IsMessage(cb) /\ IsMessage(cc)
      /\ ca.payload = a /\ cb.payload = b /\ cc.payload = c
  BY DEF IsMessage, Builders
<1>. HIDE DEF m, ca, cb, cc
<1>3. Len(m) = 6 /\ DOMAIN m = 1..6 /\ \A k \in 1..6 : m[k] \in {ca, cb, cc}
  BY <1>1
<1>4. \A k \in 1..6 : IsMessage(m[k]) /\ m[k].payload \in {a, b, c}
  BY <1>2, <1>3
<1>5. Texts(m) \in Seq({a, b, c})
  <2> DEFINE S == {a, b, c}
             s == [k \in 1..6 |-> m[k].payload]
  <2>1. s \in [1..6 -> S]
    BY <1>4
  <2>2. Texts(m) = s
    BY <1>3 DEF Texts
  <2>. HIDE DEF S, s
  <2>3. s \in Seq(S)
    <3> DEFINE n == 6
    <3>1. n \in Nat /\ s \in [1..n -> S]
      BY <2>1
    <3>. HIDE DEF n
    <3>. QED BY <3>1, SeqDef
  <2>. QED BY <2>2, <2>3 DEF S
<1>6. Program(Default, Texts(m))
  BY <1>5
<1>7. Len(m) \in Nat /\ DOMAIN m = 1..Len(m) /\ \A k \in 1..Len(m) : IsMessage(m[k])
  BY <1>3, <1>4
<1>8. MultipleBuilders(m)
  BY <1>6, <1>7, MultipleBuildersHold
<1>. QED BY <1>8 DEF m

\* adaptive_policy: its configuration, and the states of its policy.
SmallBlobs == Memory!Wrapped(Memory!WithBaseline(Memory!NewAdaptive(4, 10), 16 * 1024), TRUE)
BlobStates ==
    [config : {SmallBlobs}, over : Nat, since : {Memory!NoTime}, large : BOOLEAN, small : Nat]

\* A consultation counts the blobs in a row that leave the builder over-provisioned.
BlobVerdict(s, over, verdict) ==
    /\ verdict.state \in BlobStates
    /\ verdict.state.over = IF over /\ s.over + 1 < 10 THEN s.over + 1 ELSE 0
    /\ verdict.reason = IF over /\ s.over + 1 >= 10 THEN "MessageCount" ELSE "none"

\* So does each of them.
LEMMA BlobVerdicts ==
    ASSUME NEW s \in BlobStates, NEW size \in Nat \ {0}, NEW cap \in Nat
    PROVE  BlobVerdict(s, cap >= 4 * size, Memory!ShouldReset(s, size, cap, 0))
<1> DEFINE c == SmallBlobs
           none == Memory!NoTime
           t == Memory!Observe(s, size, cap, none)
           over == cap >= 4 * size
           v == Memory!ShouldReset(s, size, cap, 0)
<1>1. c.kind = "adaptive" /\ c.ratio = 4 /\ c.wait = 10 /\ c.cooldown = none
  BY DEF SmallBlobs, Memory!Wrapped, Memory!WithBaseline, Memory!NewAdaptive
<1>2. s.config = c /\ s.over \in Nat /\ s.since = none
  BY DEF BlobStates
<1>3. Memory!Overprovisioned(c, size, cap) <=> over
  <2>1. Memory!Overprovisioned(c, size, cap) <=> cap >= size * c.ratio
    BY DEF Memory!Overprovisioned
  <2>. HIDE DEF c
  <2>2. size * c.ratio = 4 * size
    BY <1>1
  <2>. QED BY <2>1, <2>2
<1>4. v = Memory!Adaptive(s, size, cap, 0)
  <2>. HIDE DEF c
  <2>. QED BY <1>1, <1>2 DEF Memory!ShouldReset
<1>. HIDE DEF v
<1> DEFINE k == s.over + 1
<1>5. CASE over
  <2>1. t = [s EXCEPT !.over = s.over + 1, !.since = none]
    <3>. HIDE DEF c, over
    <3>. QED BY <1>2, <1>3, <1>5 DEF Memory!Observe
  <2>2. t \in BlobStates /\ t.over = s.over + 1 /\ t.since = none
    <3> DEFINE n == s.over + 1
    <3>1. n \in Nat
      BY <1>2
    <3>2. t = [s EXCEPT !.over = n, !.since = none]
      BY <2>1
    <3>. HIDE DEF t, c, over, n
    <3>3. t \in BlobStates /\ t.over = n /\ t.since = none
      BY <3>1, <3>2 DEF BlobStates
    <3>. QED BY <3>3 DEF n
  <2>3. v = IF s.over + 1 >= 10
            THEN [state |-> Memory!AfterFire(t), reason |-> "MessageCount"]
            ELSE [state |-> t, reason |-> "none"]
    <3>. HIDE DEF c, over, t
    <3>. QED BY <1>1, <1>2, <1>3, <1>4, <1>5, <2>2 DEF Memory!Adaptive, Memory!Quiet, t
  <2>4. Memory!AfterFire(t) \in BlobStates /\ Memory!AfterFire(t).over = 0
    <3>. HIDE DEF t
    <3>. QED BY <2>2 DEF Memory!AfterFire, BlobStates
  <2>. HIDE DEF t
  <2>5. CASE s.over + 1 >= 10
    <3>1. v.state = Memory!AfterFire(t) /\ v.reason = "MessageCount"
      BY <2>3, <2>5
    <3>2. v.state \in BlobStates /\ v.state.over = 0
      BY <2>4, <3>1
    <3>3. k >= 10 /\ k \in Nat
      BY <1>2, <2>5
    <3>. HIDE DEF k
    <3>4. /\ v.state.over = IF over /\ k < 10 THEN k ELSE 0
          /\ v.reason = IF over /\ k >= 10 THEN "MessageCount" ELSE "none"
      BY <1>5, <3>1, <3>2, <3>3
    <3>. QED BY <3>2, <3>4 DEF BlobVerdict, k, v
  <2>6. CASE ~(s.over + 1 >= 10)
    <3>1. v.state = t /\ v.reason = "none"
      BY <2>3, <2>6
    <3>2. v.state \in BlobStates /\ v.state.over = s.over + 1
      BY <2>2, <3>1
    <3>3. ~(k >= 10) /\ k \in Nat /\ v.state.over = k
      BY <1>2, <2>6, <3>2
    <3>. HIDE DEF k
    <3>4. /\ v.state.over = IF over /\ k < 10 THEN k ELSE 0
          /\ v.reason = IF over /\ k >= 10 THEN "MessageCount" ELSE "none"
      BY <1>5, <3>1, <3>3
    <3>. QED BY <3>2, <3>4 DEF BlobVerdict, k, v
  <2>. QED BY <2>5, <2>6
<1>6. CASE ~over
  <2>1. t = [s EXCEPT !.over = 0, !.since = none]
    <3>. HIDE DEF c, over
    <3>. QED BY <1>2, <1>3, <1>6 DEF Memory!Observe
  <2>2. t \in BlobStates /\ t.over = 0 /\ t.since = none
    <3>. HIDE DEF t, c, over
    <3>. QED BY <1>2, <2>1 DEF BlobStates
  <2>3. v = [state |-> t, reason |-> "none"]
    <3>. HIDE DEF c, over, t
    <3>. QED BY <1>1, <1>2, <1>3, <1>4, <1>6, <2>2 DEF Memory!Adaptive, Memory!Quiet, t
  <2>. HIDE DEF t
  <2>4. v.state = t /\ v.reason = "none"
    BY <2>3
  <2>. QED BY <1>6, <2>2, <2>4 DEF BlobVerdict, v, over
<1>. QED BY <1>5, <1>6

\* The program's builder, and one write through it.
BuilderStates == [policy : BlobStates, cap : Nat, reason : {"none", "MessageCount"}]
WriteBlob(s, size) ==
    LET verdict == Memory!ShouldReset(s.policy, size, s.cap, 0)
    IN  IF s.cap <= SmallBlobs.baseline
        THEN [s EXCEPT !.reason = "none"]
        ELSE [policy |-> verdict.state,
              cap    |-> IF verdict.reason = "none" THEN s.cap ELSE SmallBlobs.baseline,
              reason |-> verdict.reason]

\* What it makes of the blobs in a row, the capacity and the reason.
BlobWritten(s, size, r) ==
    LET idle == s.cap <= 16 * 1024
        last == s.cap >= 4 * size /\ s.policy.over + 1 >= 10
    IN  /\ r \in BuilderStates
        /\ idle => r.policy = s.policy /\ r.cap = s.cap /\ r.reason = "none"
        /\ ~idle => /\ r.policy.over = IF s.cap >= 4 * size /\ s.policy.over + 1 < 10
                                       THEN s.policy.over + 1 ELSE 0
                    /\ r.cap = IF last THEN 16 * 1024 ELSE s.cap
                    /\ r.reason = IF last THEN "MessageCount" ELSE "none"

\* So does each write.
LEMMA BlobWrites ==
    ASSUME NEW s \in BuilderStates, NEW size \in Nat \ {0}
    PROVE  BlobWritten(s, size, WriteBlob(s, size))
<1> DEFINE v == Memory!ShouldReset(s.policy, size, s.cap, 0)
           base == 16 * 1024
           cap == s.cap
           r == WriteBlob(s, size)
           over == cap >= 4 * size
           k == s.policy.over + 1
<1>1. SmallBlobs.baseline = base /\ base \in Nat
  BY DEF SmallBlobs, Memory!Wrapped, Memory!WithBaseline, Memory!NewAdaptive
<1>2. s.policy \in BlobStates /\ cap \in Nat /\ s.reason \in {"none", "MessageCount"}
      /\ s.policy.over \in Nat
  <2>1. s.policy \in BlobStates /\ cap \in Nat /\ s.reason \in {"none", "MessageCount"}
    BY DEF BuilderStates
  <2> DEFINE q == s.policy
  <2>. HIDE DEF q
  <2>2. q \in BlobStates => q.over \in Nat
    BY DEF BlobStates
  <2>. QED BY <2>1, <2>2 DEF q
<1>3. k \in Nat
  BY <1>2
<1>4. BlobVerdict(s.policy, over, v)
  <2> DEFINE q == s.policy
  <2>1. q \in BlobStates /\ cap \in Nat
    BY <1>2
  <2>. HIDE DEF q, cap
  <2>2. BlobVerdict(q, cap >= 4 * size, Memory!ShouldReset(q, size, cap, 0))
    BY <2>1, BlobVerdicts
  <2>. QED BY <2>2 DEF q, cap
<1>5. /\ v.state \in BlobStates
      /\ v.state.over = IF over /\ k < 10 THEN k ELSE 0
      /\ v.reason = IF over /\ k >= 10 THEN "MessageCount" ELSE "none"
  BY <1>4 DEF BlobVerdict
<1>. HIDE DEF v, k
<1>6. CASE cap <= base
  <2>1. r = [s EXCEPT !.reason = "none"]
    BY <1>1, <1>6 DEF WriteBlob
  <2>2. r \in BuilderStates /\ r.policy = s.policy /\ r.cap = s.cap /\ r.reason = "none"
    <3>. HIDE DEF r
    <3>. QED BY <2>1 DEF BuilderStates
  <2>. HIDE DEF r
  <2>3. BlobWritten(s, size, r)
    BY <1>6, <2>2 DEF BlobWritten
  <2>. QED BY <2>3 DEF r
<1>7. CASE ~(cap <= base)
  <2> DEFINE c == IF v.reason = "none" THEN cap ELSE base
  <2>1. r = [policy |-> v.state, cap |-> IF v.reason = "none" THEN s.cap ELSE SmallBlobs.baseline,
             reason |-> v.reason]
    BY <1>1, <1>7 DEF WriteBlob, v
  <2>2. r = [policy |-> v.state, cap |-> c, reason |-> v.reason]
    <3>. HIDE DEF r
    <3>. QED BY <1>1, <2>1
  <2>3. c = IF over /\ k >= 10 THEN base ELSE cap
    BY <1>5
  <2>4. c \in Nat /\ v.reason \in {"none", "MessageCount"}
    BY <1>1, <1>2, <1>5, <2>3
  <2>5. r \in BuilderStates
    <3>. HIDE DEF r, c
    <3>. QED BY <1>5, <2>2, <2>4 DEF BuilderStates
  <2>6. r.policy = v.state /\ r.cap = c /\ r.reason = v.reason
    <3>. HIDE DEF r, c
    <3>. QED BY <2>2
  <2>. HIDE DEF c, r
  <2>7. /\ r.policy.over = IF over /\ k < 10 THEN k ELSE 0
        /\ r.cap = IF over /\ k >= 10 THEN base ELSE cap
        /\ r.reason = IF over /\ k >= 10 THEN "MessageCount" ELSE "none"
    BY <1>5, <2>3, <2>6
  <2>8. BlobWritten(s, size, r)
    BY <1>7, <2>5, <2>7 DEF BlobWritten, k
  <2>. QED BY <2>8 DEF r
<1>. QED BY <1>6, <1>7

\* adaptive_policy
LEMMA AdaptivePolicyHolds ==
    ASSUME NEW grown \in {1024 * 1024 + 8, 2 * 1024 * 1024}
    PROVE  AdaptivePolicy(grown)
<1> DEFINE V == BuilderStates
           start == [policy |-> Memory!NewPolicy(SmallBlobs), cap |-> grown, reason |-> "none"]
           large == WriteBlob(start, 8 + 1024 * 1024)
           size == 8 + 100
           step == [i \in 1..15 |-> [v \in V |-> WriteBlob(v, size)]]
           next(h) == [i \in 0..15 |-> IF i = 0 THEN large ELSE WriteBlob(h[i - 1], size)]
           small == CHOOSE g : g = next(g)
           n == 15
<1>1. AdaptivePolicy(grown) <=> /\ large.reason = "none"
                               /\ \A i \in 1..15 : small[i].reason = IF i = 10 THEN "MessageCount" ELSE "none"
  BY DEF AdaptivePolicy, WriteBlob, SmallBlobs
<1>2. grown \in Nat /\ ~(grown <= 16 * 1024) /\ ~(grown >= 4 * (8 + 1024 * 1024)) /\ grown >= 4 * (8 + 100)
  OBVIOUS
<1>3. start \in V /\ start.policy.over = 0 /\ start.cap = grown
  <2>1. Memory!NewPolicy(SmallBlobs) \in BlobStates /\ Memory!NewPolicy(SmallBlobs).over = 0
    BY DEF Memory!NewPolicy, BlobStates
  <2>. QED BY <1>2, <2>1 DEF BuilderStates
<1>. HIDE DEF start
<1>4. large \in V /\ large.policy.over = 0 /\ large.cap = grown /\ large.reason = "none"
  <2> DEFINE big == 8 + 1024 * 1024
  <2>1. big \in Nat \ {0} /\ ~(grown >= 4 * big)
    BY <1>2
  <2>. HIDE DEF big
  <2>2. BlobWritten(start, big, WriteBlob(start, big))
    BY <1>3, <2>1, BlobWrites
  <2>. QED BY <1>2, <1>3, <2>1, <2>2 DEF BlobWritten, big
<1>. HIDE DEF large
<1>5. size \in Nat \ {0} /\ grown >= 4 * size /\ n \in Nat
  BY <1>2
<1>. HIDE DEF size
<1>6. \A v \in V : BlobWritten(v, size, WriteBlob(v, size)) /\ WriteBlob(v, size) \in V
  <2>1. ASSUME NEW v \in V PROVE BlobWritten(v, size, WriteBlob(v, size)) /\ WriteBlob(v, size) \in V
    <3>1. BlobWritten(v, size, WriteBlob(v, size))
      BY <1>5, BlobWrites
    <3>. QED BY <3>1 DEF BlobWritten
  <2>. QED BY <2>1
<1>. HIDE DEF V
<1>7. Steps(n, V, large, step)
  <2>1. step \in [1..15 -> [V -> V]]
    BY <1>6
  <2>. HIDE DEF step
  <2>. QED BY <1>4, <1>5, <2>1 DEF Steps
<1>8. PICK g \in [0..n -> V] : g[0] = large /\ \A i \in 1..n : g[i] = step[i][g[i - 1]]
  <2>. HIDE DEF step, n
  <2>. QED BY <1>7, StepsUp
<1>9. g = next(g)
  <2>1. ASSUME NEW i \in 0..15 PROVE g[i] = IF i = 0 THEN large ELSE WriteBlob(g[i - 1], size)
    <3>1. CASE i = 0
      BY <1>8, <3>1
    <3>2. CASE i # 0
      <4>1. i \in 1..15 /\ i - 1 \in 0..15
        BY <3>2
      <4>2. g[i - 1] \in V /\ g[i] = step[i][g[i - 1]]
        <5>. HIDE DEF step
        <5>. QED BY <1>8, <4>1
      <4>3. g[i] = WriteBlob(g[i - 1], size)
        BY <4>1, <4>2
      <4>. QED BY <3>2, <4>3
    <3>. QED BY <3>1, <3>2
  <2>. QED BY <1>8, <2>1
<1>10. small = [i \in 0..15 |-> IF i = 0 THEN large ELSE WriteBlob(small[i - 1], size)]
  <2>1. small = next(small)
    <3>. HIDE DEF next
    <3>. QED BY <1>9
  <2>. HIDE DEF small
  <2>. QED BY <2>1
<1>. HIDE DEF small
<1>11. small[0] = large /\ \A i \in 1..15 : small[i] = WriteBlob(small[i - 1], size)
  <2>1. 0 \in 0..15 /\ \A i \in 1..15 : i \in 0..15 /\ i # 0
    OBVIOUS
  <2>. QED BY <1>10, <2>1
<1> DEFINE over(i) == IF i < 10 THEN i ELSE 0
           reached(i) == /\ small[i] \in V /\ small[i].policy.over = over(i)
                         /\ small[i].cap = IF i < 10 THEN grown ELSE 16 * 1024
                         /\ small[i].reason = IF i = 10 THEN "MessageCount" ELSE "none"
           S == {i \in Nat : i <= 15 => reached(i)}
<1>12. 0 \in S
  BY <1>4, <1>11
<1>13. ASSUME NEW m \in S, m < 15 PROVE m + 1 \in S
  <2> DEFINE i == m + 1
             s == small[m]
             r == small[i]
  <2>1. m \in Nat /\ i \in 1..15 /\ i - 1 = m /\ m <= 15
    BY <1>13
  <2>2. /\ s \in V /\ s.policy.over = over(m) /\ s.cap = IF m < 10 THEN grown ELSE 16 * 1024
    BY <2>1
  <2>3. r = WriteBlob(s, size)
    BY <1>11, <2>1
  <2>. HIDE DEF s, r, i
  <2>4. BlobWritten(s, size, r) /\ r \in V
    BY <1>6, <2>2, <2>3
  <2>5. CASE m < 10
    <3>1. s.policy.over = m /\ s.cap = grown
      BY <2>2, <2>5
    <3>2. /\ r.policy.over = IF m + 1 < 10 THEN m + 1 ELSE 0
          /\ r.cap = IF m + 1 >= 10 THEN 16 * 1024 ELSE grown
          /\ r.reason = IF m + 1 >= 10 THEN "MessageCount" ELSE "none"
      BY <1>2, <1>5, <2>4, <3>1 DEF BlobWritten
    <3>3. m + 1 >= 10 <=> m + 1 = 10
      BY <2>1, <2>5
    <3>4. reached(i)
      BY <2>1, <2>4, <3>2, <3>3 DEF i, r
    <3>. QED BY <2>1, <3>4 DEF i
  <2>6. CASE ~(m < 10)
    <3>1. s.policy.over = 0 /\ s.cap = 16 * 1024
      BY <2>2, <2>6
    <3>2. r.policy.over = 0 /\ r.cap = 16 * 1024 /\ r.reason = "none"
      BY <2>4, <3>1 DEF BlobWritten
    <3>3. ~(m + 1 < 10) /\ m + 1 # 10
      BY <2>1, <2>6
    <3>4. reached(i)
      BY <2>4, <3>2, <3>3 DEF i, r
    <3>. QED BY <2>1, <3>4 DEF i
  <2>. QED BY <2>5, <2>6
<1>14. ASSUME NEW i \in 1..15 PROVE small[i].reason = IF i = 10 THEN "MessageCount" ELSE "none"
  <2>1. S \in SUBSET Nat /\ i \in Nat /\ i <= 15 /\ \A m \in S : m < i => m + 1 \in S
    <3>1. \A m \in S : m \in Nat
      OBVIOUS
    <3>. HIDE DEF S
    <3>. QED BY <1>13, <3>1
  <2>2. i \in S
    <3>. HIDE DEF S
    <3>. QED BY <1>12, <2>1, CountUp
  <2>. QED BY <2>1, <2>2
<1>. HIDE DEF small, large
<1>. QED BY <1>1, <1>4, <1>14

-----------------------------------------------------------------------------
(* telemetry_agent: its alerts and its sums. *)

\* The numbers of q periods whose place in the period is behind t.
Behinds(P, t, q) == {i \in 0..(P * q - 1) : i % P > t}

\* There are as many in each period.
LEMMA BehindsCounted ==
    ASSUME NEW P \in Nat \ {0}, NEW t \in 0..(P - 1), NEW q \in Nat
    PROVE  IsFiniteSet(Behinds(P, t, q)) /\ Cardinality(Behinds(P, t, q)) = q * (P - 1 - t)
<1> DEFINE w == P - 1 - t
           S == {m \in Nat : IsFiniteSet(Behinds(P, t, m)) /\ Cardinality(Behinds(P, t, m)) = m * w}
<1>1. w \in Nat
  OBVIOUS
<1>2. 0 \in S
  <2>1. P * 0 = 0 /\ 0 * w = 0
    BY <1>1
  <2>2. Behinds(P, t, 0) = {}
    BY <2>1 DEF Behinds
  <2>. HIDE DEF w
  <2>. QED BY <2>1, <2>2, FS_EmptySet
<1>3. ASSUME NEW m \in S, m < q PROVE m + 1 \in S
  <2> DEFINE b == P * m
             A == Behinds(P, t, m)
             B == (b + t + 1)..(b + P - 1)
             C == Behinds(P, t, m + 1)
  <2>1. m \in Nat /\ IsFiniteSet(A) /\ Cardinality(A) = m * w
    BY <1>3
  <2>2. b \in Nat /\ P * (m + 1) = b + P /\ m * w \in Nat /\ (m + 1) * w = m * w + w
    BY <1>1, <2>1
  <2>3. ASSUME NEW i \in b..(b + P - 1) PROVE i % P = i - b
    <3> DEFINE r == i - b
    <3>1. r \in 0..(P - 1) /\ i = r + b
      BY <2>2
    <3>2. (r + P * m) % P = r
      <4>. HIDE DEF r
      <4>. QED BY <2>1, <3>1, Quotient
    <3>. QED BY <3>1, <3>2
  <2>. HIDE DEF b
  <2>4. A = {i \in 0..(b - 1) : i % P > t} /\ C = {i \in 0..(b + P - 1) : i % P > t}
    BY <2>2 DEF Behinds, b
  <2>5. C = A \cup B
    <3>. HIDE DEF A, C
    <3>1. ASSUME NEW i \in C PROVE i \in A \cup B
      <4>1. i \in 0..(b + P - 1) /\ i % P > t
        BY <2>4
      <4>2. CASE i < b
        BY <2>2, <2>4, <4>1, <4>2
      <4>3. CASE i >= b
        <5>1. i % P = i - b
          BY <2>2, <2>3, <4>1, <4>3
        <5>. QED BY <2>2, <4>1, <4>3, <5>1
      <4>. QED BY <2>2, <4>1, <4>2, <4>3
    <3>2. ASSUME NEW i \in A PROVE i \in C
      BY <2>2, <2>4
    <3>3. ASSUME NEW i \in B PROVE i \in C
      <4>1. i \in b..(b + P - 1) /\ i \in 0..(b + P - 1) /\ i - b > t
        BY <2>2
      <4>2. i % P = i - b
        BY <2>3, <4>1
      <4>. QED BY <2>4, <4>1, <4>2
    <3>. HIDE DEF B
    <3>. QED BY <3>1, <3>2, <3>3
  <2>6. A \cap B = {}
    <3>. HIDE DEF A
    <3>. QED BY <2>2, <2>4
  <2>7. IsFiniteSet(B) /\ Cardinality(B) = w
    <3> DEFINE x == b + t + 1
               y == b + P - 1
    <3>1. x \in Int /\ y \in Int /\ (IF x > y THEN 0 ELSE y - x + 1) = w
      BY <2>2
    <3>. HIDE DEF x, y
    <3>2. IsFiniteSet(x..y) /\ Cardinality(x..y) = IF x > y THEN 0 ELSE y - x + 1
      BY <3>1, FS_Interval
    <3>. QED BY <3>1, <3>2 DEF x, y
  <2>. HIDE DEF A, B, C, w
  <2>8. IsFiniteSet(C) /\ Cardinality(C) = Cardinality(A) + Cardinality(B) - Cardinality(A \cap B)
    BY <2>1, <2>5, <2>7, FS_Union
  <2>9. Cardinality(A \cap B) = 0
    BY <2>6, FS_EmptySet
  <2>10. Cardinality(C) = (m + 1) * w
    BY <1>1, <2>1, <2>2, <2>7, <2>8, <2>9
  <2>. QED BY <2>1, <2>8, <2>10 DEF C
<1>4. S \in SUBSET Nat
  OBVIOUS
<1>5. q \in S
  <2>. HIDE DEF S
  <2>. QED BY <1>2, <1>3, <1>4, CountUp
<1>. QED BY <1>5

\* What telemetry_agent measures in a tick.
LEMMA Channels ==
    ASSUME NEW i
    PROVE  /\ ChannelsAt(i).timestamp = i
           /\ ChannelsAt(i).speed = 5 * (i % 200)
           /\ ChannelsAt(i).rpm = 800 + i
           /\ ChannelsAt(i).temp = 20 + (i % 40)
           /\ ChannelsAt(i).battery = 100000 - 45 * i
BY DEF ChannelsAt

\* When telemetry_agent raises its alerts.
LEMMA AlertTicks ==
    /\ SpeedAlerts = Behinds(200, 160, 10)
    /\ TempAlerts = Behinds(40, 30, 50)
    /\ BatteryAlerts = 1778..1999
<1>1. Ticks = 0..1999
  BY DEF Ticks, EVENT_COUNT
<1>2. \A i : (i \in SpeedAlerts <=> i \in 0..1999 /\ ChannelsAt(i).speed > 800)
  BY <1>1 DEF SpeedAlerts
<1>3. \A i : (i \in TempAlerts <=> i \in 0..1999 /\ ChannelsAt(i).temp > 50)
  BY <1>1 DEF TempAlerts
<1>4. \A i : (i \in BatteryAlerts <=> i \in 0..1999 /\ ChannelsAt(i).battery < 20000)
  BY <1>1 DEF BatteryAlerts
<1>5. SpeedAlerts = Behinds(200, 160, 10)
  <2> DEFINE D == 0..1999
             late(x) == x % 200 > 160
  <2>1. ASSUME NEW i PROVE i \in SpeedAlerts <=> i \in D /\ late(i)
    <3>1. CASE i \in D
      <4> DEFINE r == i % 200
                 v == ChannelsAt(i).speed
      <4>1. r \in Nat
        BY <3>1
      <4>2. v = 5 * r
        <5>1. ChannelsAt(i).speed = 5 * (i % 200)
          BY Channels
        <5>. QED BY <5>1
      <4>3. (i \in SpeedAlerts <=> v > 800) /\ (late(i) <=> r > 160)
        BY <1>2, <3>1
      <4>. HIDE DEF r, v, late, D
      <4>4. v > 800 <=> r > 160
        BY <4>1, <4>2
      <4>. QED BY <3>1, <4>3, <4>4
    <3>2. CASE i \notin D
      BY <1>2, <3>2
    <3>. QED BY <3>1, <3>2
  <2>2. D = 0..(200 * 10 - 1)
    OBVIOUS
  <2>3. ASSUME NEW i PROVE i \in Behinds(200, 160, 10) <=> i \in D /\ late(i)
    <3>. HIDE DEF D
    <3>. QED BY <2>2 DEF Behinds
  <2>. HIDE DEF D, late
  <2>. QED BY <2>1, <2>3
<1>6. TempAlerts = Behinds(40, 30, 50)
  <2> DEFINE D == 0..1999
             late(x) == x % 40 > 30
  <2>1. ASSUME NEW i PROVE i \in TempAlerts <=> i \in D /\ late(i)
    <3>1. CASE i \in D
      <4> DEFINE r == i % 40
                 v == ChannelsAt(i).temp
      <4>1. r \in Nat
        BY <3>1
      <4>2. v = 20 + r
        <5>1. ChannelsAt(i).temp = 20 + (i % 40)
          BY Channels
        <5>. QED BY <5>1
      <4>3. (i \in TempAlerts <=> v > 50) /\ (late(i) <=> r > 30)
        BY <1>3, <3>1
      <4>. HIDE DEF r, v, late, D
      <4>4. v > 50 <=> r > 30
        BY <4>1, <4>2
      <4>. QED BY <3>1, <4>3, <4>4
    <3>2. CASE i \notin D
      BY <1>3, <3>2
    <3>. QED BY <3>1, <3>2
  <2>2. D = 0..(40 * 50 - 1)
    OBVIOUS
  <2>3. ASSUME NEW i PROVE i \in Behinds(40, 30, 50) <=> i \in D /\ late(i)
    <3>. HIDE DEF D
    <3>. QED BY <2>2 DEF Behinds
  <2>. HIDE DEF D, late
  <2>. QED BY <2>1, <2>3
<1>7. BatteryAlerts = 1778..1999
  <2>1. ASSUME NEW i PROVE i \in BatteryAlerts <=> i \in 1778..1999
    <3>1. CASE i \in 0..1999
      <4> DEFINE v == ChannelsAt(i).battery
      <4>1. v = 100000 - 45 * i
        BY Channels
      <4>2. i \in BatteryAlerts <=> v < 20000
        BY <1>4, <3>1
      <4>. HIDE DEF v
      <4>3. v < 20000 <=> i \in 1778..1999
        BY <3>1, <4>1
      <4>. QED BY <4>2, <4>3
    <3>2. CASE i \notin 0..1999
      <4>1. i \notin 1778..1999
        BY <3>2
      <4>. QED BY <1>4, <3>2, <4>1
    <3>. QED BY <3>1, <3>2
  <2> DEFINE late == 1778..1999
  <2>2. ASSUME NEW i PROVE i \in BatteryAlerts <=> i \in late
    BY <2>1
  <2>. HIDE DEF late
  <2>3. BatteryAlerts = late
    BY <2>2
  <2>. QED BY <2>3 DEF late
<1>. QED BY <1>5, <1>6, <1>7

\* How many they are.
LEMMA AlertsCounted ==
    /\ Cardinality(SpeedAlerts) = 390
    /\ Cardinality(TempAlerts) = 450
    /\ Cardinality(BatteryAlerts) = 222
<1>1. Cardinality(SpeedAlerts) = 390
  <2> DEFINE P == 200
             t == 160
             q == 10
  <2>1. P \in Nat \ {0} /\ t \in 0..(P - 1) /\ q \in Nat /\ q * (P - 1 - t) = 390
    OBVIOUS
  <2>2. SpeedAlerts = Behinds(P, t, q)
    BY AlertTicks
  <2>. HIDE DEF P, t, q
  <2>. QED BY <2>1, <2>2, BehindsCounted
<1>2. Cardinality(TempAlerts) = 450
  <2> DEFINE P == 40
             t == 30
             q == 50
  <2>1. P \in Nat \ {0} /\ t \in 0..(P - 1) /\ q \in Nat /\ q * (P - 1 - t) = 450
    OBVIOUS
  <2>2. TempAlerts = Behinds(P, t, q)
    BY AlertTicks
  <2>. HIDE DEF P, t, q
  <2>. QED BY <2>1, <2>2, BehindsCounted
<1>3. Cardinality(BatteryAlerts) = 222
  <2> DEFINE a == 1778
             b == 1999
  <2>1. a \in Int /\ b \in Int /\ (IF a > b THEN 0 ELSE b - a + 1) = 222
    OBVIOUS
  <2>2. BatteryAlerts = a..b
    BY AlertTicks
  <2>. HIDE DEF a, b
  <2>. QED BY <2>1, <2>2, FS_Interval
<1>. QED BY <1>1, <1>2, <1>3

\* The first of the speed alerts.
LEMMA FirstSpeedAlert == IndexMin(SpeedAlerts) = 161
<1> DEFINE last == 200 * 10 - 1
           first == IndexMin(SpeedAlerts)
<1>1. last = 1999
  OBVIOUS
<1>2. ASSUME NEW i PROVE i \in SpeedAlerts <=> i \in 0..last /\ i % 200 > 160
  BY AlertTicks DEF Behinds
<1>. HIDE DEF last
<1>3. SpeedAlerts \in SUBSET Nat
  <2>1. SpeedAlerts \subseteq Ticks
    BY DEF SpeedAlerts
  <2>2. Ticks \subseteq Nat
    BY DEF Ticks, EVENT_COUNT
  <2>. QED BY <2>1, <2>2
<1>4. 161 \in SpeedAlerts
  <2>1. 161 \in 0..1999 /\ 161 % 200 > 160
    OBVIOUS
  <2>. QED BY <1>1, <1>2, <2>1
<1>5. ASSUME NEW i \in SpeedAlerts PROVE 161 <= i
  <2>1. i \in 0..1999 /\ i % 200 > 160
    BY <1>1, <1>2
  <2>2. i < 200 => i % 200 = i
    BY <2>1
  <2>. QED BY <2>1, <2>2
<1>6. first \in SpeedAlerts /\ \A i \in SpeedAlerts : first <= i
  <2>1. SpeedAlerts # {}
    BY <1>4
  <2>. QED BY <1>3, <2>1, IndexMinIs
<1>. HIDE DEF first
<1>7. first \in Nat /\ first <= 161 /\ 161 <= first
  BY <1>3, <1>4, <1>5, <1>6
<1>8. first = 161
  BY <1>7
<1>. QED BY <1>8 DEF first

\* n numbers that grow evenly, from a by b.
Even(numbers, n, a, b) ==
    /\ n \in Nat /\ a \in Int /\ b \in Int /\ Len(numbers) = n
    /\ \A k \in 1..n : numbers[k] = a + b * (k - 1)

\* What they come to.
LEMMA EvenSum ==
    ASSUME NEW numbers, NEW n, NEW a, NEW b, Even(numbers, n, a, b)
    PROVE  Summed(numbers) \in Int /\ 2 * Summed(numbers) = n * (2 * a + b * (n - 1))
<1>. n \in Nat /\ a \in Int /\ b \in Int /\ Len(numbers) = n
  BY DEF Even
<1>0. \A k \in 1..n : numbers[k] = a + b * (k - 1)
  BY DEF Even
<1>1. \A k \in 1..n : numbers[k] \in Int
  BY <1>0
<1>2. PICK u : SumsTo(numbers, u) /\ Summed(numbers) = u[n]
  BY <1>1, SummedOf
<1> DEFINE S == {m \in Nat : m <= n => 2 * u[m] = m * (2 * a + b * (m - 1))}
<1>3. 0 \in S
  <2>1. 0 * (2 * a + b * (0 - 1)) = 0
    OBVIOUS
  <2>. QED BY <1>2, <2>1 DEF SumsTo
<1>4. ASSUME NEW m \in S, m < n PROVE m + 1 \in S
  <2>1. m \in Nat /\ m \in 0..n /\ m + 1 \in 1..n /\ 2 * u[m] = m * (2 * a + b * (m - 1))
    BY <1>4
  <2>2. u[m] \in Int /\ u[m + 1] = u[m] + (a + b * m)
    <3>1. u[m] \in Int /\ u[m + 1] = u[(m + 1) - 1] + numbers[m + 1]
      BY <1>2, <2>1 DEF SumsTo
    <3>2. numbers[m + 1] = a + b * ((m + 1) - 1) /\ (m + 1) - 1 = m
      BY <1>0, <2>1
    <3>. QED BY <3>1, <3>2
  <2>3. m * (2 * a + b * (m - 1)) + 2 * (a + b * m) = (m + 1) * (2 * a + b * ((m + 1) - 1))
    <3> DEFINE bm == b * m
               c == 2 * a
    <3>1. bm \in Int /\ c \in Int /\ b * (m - 1) = bm - b /\ b * ((m + 1) - 1) = bm
      BY <2>1
    <3>2. m * b = bm
      BY <2>1
    <3>. HIDE DEF bm, c
    <3>3. m * (c + (bm - b)) + (c + 2 * bm) = (m + 1) * (c + bm)
      BY <2>1, <3>1, <3>2
    <3>. QED BY <2>1, <3>1, <3>3 DEF c, bm
  <2> DEFINE x == u[m]
             y == u[m + 1]
             w == a + b * m
             old == m * (2 * a + b * (m - 1))
             new == (m + 1) * (2 * a + b * ((m + 1) - 1))
  <2>4. x \in Int /\ w \in Int /\ y = x + w /\ 2 * x = old /\ old + 2 * w = new /\ old \in Int
    BY <2>1, <2>2, <2>3
  <2>. HIDE DEF x, y, w, old, new
  <2>5. 2 * y = new
    BY <2>4
  <2>. QED BY <2>1, <2>5 DEF y, new
<1>5. S \in SUBSET Nat
  OBVIOUS
<1>6. n \in S
  <2>. HIDE DEF S
  <2>. QED BY <1>3, <1>4, <1>5, CountUp
<1>7. u[n] \in Int
  BY <1>2 DEF SumsTo
<1>. QED BY <1>2, <1>6, <1>7

\* A channel whose q periods of P ticks grow evenly by d, and each of them by b:
\* the first of them comes to `first`, and each next one to `grow` more.
Periods(channel, P, q, a, b, d, first, grow) ==
    /\ P \in Nat \ {0} /\ q \in Nat /\ P * q = EVENT_COUNT
    /\ a \in Int /\ b \in Int /\ d \in Int /\ first \in Int /\ grow \in Int
    /\ \A c \in 1..q : \A j \in 1..P :
          ChannelsAt(P * (c - 1) + j - 1)[channel] = (a + d * (c - 1)) + b * (j - 1)
    /\ 2 * first = P * (2 * a + b * (P - 1)) /\ grow = P * d

\* What it comes to.
LEMMA ChannelSum ==
    ASSUME NEW channel, NEW P, NEW q, NEW a, NEW b, NEW d, NEW first, NEW grow,
           Periods(channel, P, q, a, b, d, first, grow)
    PROVE  2 * SumOf(channel, P) = q * (2 * first + grow * (q - 1))
<1>. /\ P \in Nat \ {0} /\ q \in Nat /\ P * q = EVENT_COUNT
     /\ a \in Int /\ b \in Int /\ d \in Int /\ first \in Int /\ grow \in Int
     /\ 2 * first = P * (2 * a + b * (P - 1)) /\ grow = P * d
  BY DEF Periods
<1>0. \A c \in 1..q : \A j \in 1..P :
          ChannelsAt(P * (c - 1) + j - 1)[channel] = (a + d * (c - 1)) + b * (j - 1)
  BY DEF Periods
<1> DEFINE block(c) == [j \in 1..P |-> ChannelsAt(P * (c - 1) + j - 1)[channel]]
           blocks == [c \in 1..q |-> Summed(block(c))]
<1>1. SumOf(channel, P) = Summed(blocks)
  <2> DEFINE e == EVENT_COUNT
  <2>1. e \div P = q
    <3> DEFINE zero == 0
    <3>1. zero \in 0..(P - 1) /\ zero + P * q = e
      OBVIOUS
    <3>2. (zero + P * q) \div P = q
      <4>. HIDE DEF zero, e
      <4>. QED BY <3>1, Quotient
    <3>. HIDE DEF zero, e
    <3>. QED BY <3>1, <3>2
  <2>. QED BY <2>1 DEF SumOf
<1>2. ASSUME NEW c \in 1..q PROVE Summed(block(c)) = first + grow * (c - 1)
  <2> DEFINE from == a + d * (c - 1)
             s == Summed(block(c))
             numbers == block(c)
  <2>1. from \in Int
    OBVIOUS
  <2>2. Even(numbers, P, from, b)
    <3>1. Len(numbers) = P /\ \A j \in 1..P : numbers[j] = from + b * (j - 1)
      BY <1>0
    <3>. HIDE DEF numbers, from
    <3>. QED BY <2>1, <3>1 DEF Even
  <2>3. Summed(numbers) \in Int /\ 2 * Summed(numbers) = P * (2 * from + b * (P - 1))
    <3>. HIDE DEF from, numbers
    <3>. QED BY <2>2, EvenSum
  <2>4. P * (2 * from + b * (P - 1)) = 2 * (first + grow * (c - 1))
    <3> DEFINE e == c - 1
               w == b * (P - 1)
               de == d * e
               old == P * (2 * a + w)
    <3>1. e \in Int /\ w \in Int /\ de \in Int /\ from = a + de /\ 2 * first = old
      OBVIOUS
    <3>2. grow * e = P * de
      OBVIOUS
    <3>. HIDE DEF e, w, de, from
    <3>3. P * (2 * (a + de) + w) = P * (2 * a + w) + 2 * (P * de)
      BY <3>1
    <3>4. grow * e \in Int
      BY <3>1
    <3>. QED BY <3>1, <3>2, <3>3, <3>4 DEF e, w
  <2> DEFINE t == first + grow * (c - 1)
             r == P * (2 * from + b * (P - 1))
  <2>6. t \in Int /\ s \in Int /\ 2 * s = r /\ r = 2 * t
    BY <2>3, <2>4
  <2>. HIDE DEF s, t, r
  <2>7. s = t
    BY <2>6
  <2>. QED BY <2>7 DEF s, t
<1>3. Even(blocks, q, first, grow)
  <2>1. Len(blocks) = q
    OBVIOUS
  <2>2. \A c \in 1..q : blocks[c] = Summed(block(c))
    OBVIOUS
  <2>3. first \in Int /\ grow \in Int /\ q \in Nat
    OBVIOUS
  <2>. HIDE DEF blocks, block
  <2>4. \A c \in 1..q : blocks[c] = first + grow * (c - 1)
    BY <1>2, <2>2
  <2>. QED BY <2>1, <2>3, <2>4 DEF Even
<1>4. 2 * Summed(blocks) = q * (2 * first + grow * (q - 1))
  <2>. HIDE DEF blocks
  <2>. QED BY <1>3, EvenSum
<1>. QED BY <1>1, <1>4

\* The sums of telemetry_agent.
LEMMA ChannelSums ==
    /\ 2 * SumOf("speed", 200) = 995 * EVENT_COUNT
    /\ 2 * SumOf("temp", 40) = 79 * EVENT_COUNT
    /\ 2 * SumOf("rpm", 40) = 3599 * EVENT_COUNT
<1>1. 2 * SumOf("speed", 200) = 995 * EVENT_COUNT
  <2> DEFINE channel == "speed"
             P == 200
             q == 10
             a == 0
             b == 5
             d == 0
             first == 99500
             grow == 0
  <2>1. /\ P \in Nat \ {0} /\ q \in Nat /\ a \in Int /\ b \in Int /\ d \in Int
        /\ first \in Int /\ grow \in Int
        /\ 2 * first = P * (2 * a + b * (P - 1)) /\ grow = P * d
    OBVIOUS
  <2>2. P * q = EVENT_COUNT
    BY DEF EVENT_COUNT
  <2>3. ASSUME NEW c \in 1..q, NEW j \in 1..P
        PROVE  ChannelsAt(P * (c - 1) + j - 1)[channel] = (a + d * (c - 1)) + b * (j - 1)
    <3> DEFINE i == P * (c - 1) + j - 1
               v == ChannelsAt(i)[channel]
    <3>1. i % 200 = j - 1
      <4> DEFINE r == j - 1
                 e == c - 1
      <4>1. r \in 0..(P - 1) /\ e \in Nat /\ i = r + P * e
        OBVIOUS
      <4>. HIDE DEF r, e, i
      <4>2. (r + P * e) % P = r
        <5>. HIDE DEF P
        <5>. QED BY <2>1, <4>1, Quotient
      <4>. QED BY <4>1, <4>2 DEF r
    <3>2. v = 5 * (i % 200)
      <4>. HIDE DEF i
      <4>. QED BY DEF ChannelsAt
    <3>. HIDE DEF i, v
    <3>3. v = (a + d * (c - 1)) + b * (j - 1)
      BY <3>1, <3>2
    <3>. QED BY <3>3 DEF i, v
  <2> DEFINE sum == SumOf(channel, P)
             all == q * (2 * first + grow * (q - 1))
  <2>4. 2 * sum = all
    <3>. HIDE DEF channel, P, q, a, b, d, first, grow
    <3>1. Periods(channel, P, q, a, b, d, first, grow)
      BY <2>1, <2>2, <2>3 DEF Periods
    <3>. QED BY <3>1, ChannelSum
  <2>5. all = 1990000
    OBVIOUS
  <2>. HIDE DEF all
  <2>6. 2 * SumOf("speed", 200) = 1990000
    BY <2>4, <2>5
  <2>. QED BY <2>6 DEF EVENT_COUNT
<1>2. 2 * SumOf("temp", 40) = 79 * EVENT_COUNT
  <2> DEFINE channel == "temp"
             P == 40
             q == 50
             a == 20
             b == 1
             d == 0
             first == 1580
             grow == 0
  <2>1. /\ P \in Nat \ {0} /\ q \in Nat /\ a \in Int /\ b \in Int /\ d \in Int
        /\ first \in Int /\ grow \in Int
        /\ 2 * first = P * (2 * a + b * (P - 1)) /\ grow = P * d
    OBVIOUS
  <2>2. P * q = EVENT_COUNT
    BY DEF EVENT_COUNT
  <2>3. ASSUME NEW c \in 1..q, NEW j \in 1..P
        PROVE  ChannelsAt(P * (c - 1) + j - 1)[channel] = (a + d * (c - 1)) + b * (j - 1)
    <3> DEFINE i == P * (c - 1) + j - 1
               v == ChannelsAt(i)[channel]
    <3>1. i % 40 = j - 1
      <4> DEFINE r == j - 1
                 e == c - 1
      <4>1. r \in 0..(P - 1) /\ e \in Nat /\ i = r + P * e
        OBVIOUS
      <4>. HIDE DEF r, e, i
      <4>2. (r + P * e) % P = r
        <5>. HIDE DEF P
        <5>. QED BY <2>1, <4>1, Quotient
      <4>. QED BY <4>1, <4>2 DEF r
    <3>2. v = 20 + (i % 40)
      <4>. HIDE DEF i
      <4>. QED BY DEF ChannelsAt
    <3>. HIDE DEF i, v
    <3>3. v = (a + d * (c - 1)) + b * (j - 1)
      BY <3>1, <3>2
    <3>. QED BY <3>3 DEF i, v
  <2> DEFINE sum == SumOf(channel, P)
             all == q * (2 * first + grow * (q - 1))
  <2>4. 2 * sum = all
    <3>. HIDE DEF channel, P, q, a, b, d, first, grow
    <3>1. Periods(channel, P, q, a, b, d, first, grow)
      BY <2>1, <2>2, <2>3 DEF Periods
    <3>. QED BY <3>1, ChannelSum
  <2>5. all = 158000
    OBVIOUS
  <2>. HIDE DEF all
  <2>6. 2 * SumOf("temp", 40) = 158000
    BY <2>4, <2>5
  <2>. QED BY <2>6 DEF EVENT_COUNT
<1>3. 2 * SumOf("rpm", 40) = 3599 * EVENT_COUNT
  <2> DEFINE channel == "rpm"
             P == 40
             q == 50
             a == 800
             b == 1
             d == 40
             first == 32780
             grow == 1600
  <2>1. /\ P \in Nat \ {0} /\ q \in Nat /\ a \in Int /\ b \in Int /\ d \in Int
        /\ first \in Int /\ grow \in Int
        /\ 2 * first = P * (2 * a + b * (P - 1)) /\ grow = P * d
    OBVIOUS
  <2>2. P * q = EVENT_COUNT
    BY DEF EVENT_COUNT
  <2>3. ASSUME NEW c \in 1..q, NEW j \in 1..P
        PROVE  ChannelsAt(P * (c - 1) + j - 1)[channel] = (a + d * (c - 1)) + b * (j - 1)
    <3> DEFINE i == P * (c - 1) + j - 1
               v == ChannelsAt(i)[channel]
    <3>1. v = 800 + i
      <4>. HIDE DEF i
      <4>. QED BY DEF ChannelsAt
    <3>. HIDE DEF v
    <3>2. v = (a + d * (c - 1)) + b * (j - 1)
      BY <3>1
    <3>. QED BY <3>2 DEF v
  <2> DEFINE sum == SumOf(channel, P)
             all == q * (2 * first + grow * (q - 1))
  <2>4. 2 * sum = all
    <3>. HIDE DEF channel, P, q, a, b, d, first, grow
    <3>1. Periods(channel, P, q, a, b, d, first, grow)
      BY <2>1, <2>2, <2>3 DEF Periods
    <3>. QED BY <3>1, ChannelSum
  <2>5. all = 7198000
    OBVIOUS
  <2>. HIDE DEF all
  <2>6. 2 * SumOf("rpm", 40) = 7198000
    BY <2>4, <2>5
  <2>. QED BY <2>6 DEF EVENT_COUNT
<1>. QED BY <1>1, <1>2, <1>3

\* What telemetry_agent asserts.
LEMMA TelemetryAgentHolds == TelemetryAgent
<1> DEFINE first == IndexMin(SpeedAlerts)
           n == 161
<1>1. first = n /\ first + 1 = 162
  BY FirstSpeedAlert
<1>. HIDE DEF first
<1>2. ChannelsAt(first).timestamp = 161
  BY <1>1, Channels
<1>. HIDE DEF n
<1>. QED BY <1>1, <1>2, AlertsCounted, ChannelSums DEF TelemetryAgent, first

\* A format of the runs, and the payloads it can frame.
LEMMA Programs ==
    ASSUME Typed, NEW f, f.kind = format.kind, f.alg = format.alg,
           NEW run \in Seq({r \in Payloads : Readable(r)})
    PROVE  Program(f, run)
<1>1. IsFormat(format) /\ \A p \in Payloads \cup {<<>>} : Framed(format, p)
  BY Given
<1>2. IsFormat(f)
  BY <1>1 DEF IsFormat
<1>3. ASSUME NEW p \in Payloads \cup {<<>>} PROVE Framed(f, p)
  BY <1>1, <1>2 DEF Framed
<1>4. \A i \in 1..Len(run) : run[i] \in Payloads /\ Readable(run[i])
  OBVIOUS
<1>5. run \in Seq(Seq(Byte))
  <2>1. {r \in Payloads : Readable(r)} \subseteq Seq(Byte)
    BY Given
  <2>. QED BY <2>1
<1>. QED BY <1>3, <1>4, <1>5 DEF Program

\* The same for the default framer.
LEMMA DefaultHold == Typed /\ format = Default => DefaultExamplesHold
<1>. SUFFICES ASSUME Typed, format = Default PROVE DefaultExamplesHold
  OBVIOUS
<1> DEFINE R == {r \in Payloads : Readable(r)}
           f == Default
<1>1. ASSUME NEW run \in Seq(R) PROVE Program(f, run)
  <2>1. f.kind = format.kind /\ f.alg = format.alg
    OBVIOUS
  <2>. HIDE DEF f
  <2>. QED BY <2>1, Programs
<1>2. R \subseteq Seq(Byte)
  BY Given
<1>3. ASSUME NEW p \in Payloads, NEW generous \in ReaderLimits, NEW tight \in ReaderLimits,
             tight < Len(p), Len(p) <= generous
      PROVE  BoundedAdapters(p, generous, tight)
  <2> DEFINE run == <<p>>
             most == MaxWireFrameLen
  <2>1. most \in Nat /\ generous \in 0..most /\ tight \in 0..most
    BY WriteStackAssumption, Widths
  <2>2. p \in Seq(Byte) /\ Framed(f, p) /\ Framed(f, <<>>)
    BY Given
  <2>3. Fits(p)
    <3>1. Len(p) \in Nat
      BY <2>2, LenProperties
    <3>2. most <= MaxU32 /\ MaxU32 \in Nat
      BY Widths DEF MaxWireFrameLen
    <3>. HIDE DEF most
    <3>. QED BY <1>3, <2>1, <3>1, <3>2 DEF Fits
  <2>4. run \in Seq(Seq(Byte)) /\ \A i \in 1..Len(run) : run[i] = p
    BY <2>2
  <2>5. Run(f, run)
    <3>. HIDE DEF run, f
    <3>. QED BY <2>2, <2>3, <2>4 DEF Run
  <2>6. generous \in Nat /\ tight \in Nat
    <3>. HIDE DEF most
    <3>. QED BY <2>1
  <2>. QED BY <1>3, <2>5, <2>6, BoundedAdaptersHold
<1>4. ASSUME NEW event \in Payloads, NEW invalid \in Payloads,
             IsEvent(event), Readable(invalid), ~IsEvent(invalid)
      PROVE  ValidationExample(event, invalid)
  <2>1. Program(f, <<event>>) /\ Program(f, <<invalid>>)
    <3>1. event \in R /\ invalid \in R
      BY <1>4 DEF IsEvent
    <3>2. <<event>> \in Seq(R) /\ <<invalid>> \in Seq(R)
      BY <3>1
    <3>. HIDE DEF R, f
    <3>. QED BY <1>1, <3>2
  <2>2. /\ RootVerdict(TableRootValidator, event) = "ok"
        /\ RootVerdict(TableRootValidator, invalid) # "ok"
    BY <1>4 DEF IsEvent
  <2>. QED BY <2>1, <2>2, ValidationExampleHolds
<1>5. ASSUME NEW p \in R, NEW type \in Types, Verifies(type, DefaultLimits, p)
      PROVE  TypedReadingFlatc(type, p)
  <2>1. Program(f, <<p, p, p>>)
    <3>1. <<p, p, p>> \in Seq(R)
      OBVIOUS
    <3>. HIDE DEF R, f
    <3>. QED BY <1>1, <3>1
  <2>. QED BY <1>5, <2>1, TypedReadingFlatcHolds
<1>6. ASSUME NEW control \in R, NEW telemetry \in R, NEW file \in R
      PROVE  MultipleBuilders(Workload(control, telemetry, file))
  <2>1. control \in Seq(Byte) /\ telemetry \in Seq(Byte) /\ file \in Seq(Byte)
    BY <1>2
  <2>2. ASSUME NEW run \in Seq({control, telemetry, file}) PROVE Program(Default, run)
    <3>1. run \in Seq(R)
      OBVIOUS
    <3>. QED BY <1>1, <3>1
  <2>. QED BY <2>1, <2>2, WorkloadHolds
<1>7. \A grown \in {1024 * 1024 + 8, 2 * 1024 * 1024} : AdaptivePolicy(grown)
  BY AdaptivePolicyHolds
<1>. QED BY <1>3, <1>4, <1>5, <1>6, <1>7, TelemetryAgentHolds DEF DefaultExamplesHold

(***************************************************************************)
(* The assertions of the example programs hold, in every format and for    *)
(* all payloads of the kind each of them writes: every one reads back what *)
(* it wrote, refuses what it says it refuses, and counts what it prints.   *)
(***************************************************************************)
THEOREM ExamplesProved == Spec => []ExamplesHold
<1>1. ASSUME Typed PROVE ExamplesHold
  <2> DEFINE R == {r \in Payloads : Readable(r)}
  <2>1. ASSUME NEW run \in Seq(R) PROVE Program(format, run)
    BY <1>1, <2>1, Programs
  <2>2. ASSUME NEW p \in R, NEW q \in R
        PROVE  /\ format.kind # "magic" => SizedChecksums(format, <<p, q>>)
               /\ ObserverAdapters(format, <<p, q>>)
               /\ \A type \in Types :
                     Verifies(type, DefaultLimits, p) /\ Verifies(type, DefaultLimits, q)
                         => TypedReading(format, type, <<p, q>>)
    <3>1. Program(format, <<p, q>>)
      <4>1. <<p, q>> \in Seq(R)
        OBVIOUS
      <4>. HIDE DEF R
      <4>. QED BY <2>1, <4>1
    <3>2. format.kind # "magic" => SizedChecksums(format, <<p, q>>)
      BY <3>1, SizedChecksumsHold
    <3>3. ObserverAdapters(format, <<p, q>>)
      BY <3>1, ObserverAdaptersHold
    <3>4. ASSUME NEW type \in Types, Verifies(type, DefaultLimits, p), Verifies(type, DefaultLimits, q)
          PROVE  TypedReading(format, type, <<p, q>>)
      <4> DEFINE run == <<p, q>>
      <4>1. \A i \in 1..Len(run) : Verifies(type, DefaultLimits, run[i])
        <5>1. \A i \in 1..Len(run) : run[i] = p \/ run[i] = q
          OBVIOUS
        <5>. HIDE DEF run
        <5>. QED BY <3>4, <5>1
      <4>. HIDE DEF run
      <4>2. Program(format, run) => TypedReading(format, type, run)
        BY <4>1, TypedReadingHolds
      <4>. QED BY <3>1, <4>2 DEF run
    <3>. QED BY <3>2, <3>3, <3>4
  <2>3. ASSUME format.kind = "checksum", NEW p \in Payloads, Flips(format.alg, p)
        PROVE  FlippedByte(format.alg, p)
    <3> DEFINE alg == format.alg
               f == WithChecksum(alg)
    <3>1. p \in R /\ p # <<>> /\ SumField(alg, Flip(p)) # SumField(alg, p)
      BY <2>3 DEF Flips
    <3>2. Program(f, <<p>>)
      <4>1. <<p>> \in Seq(R) /\ f.kind = format.kind /\ f.alg = format.alg
        BY <2>3, <3>1 DEF WithChecksum
      <4>. HIDE DEF f, alg
      <4>. QED BY <1>1, <4>1, Programs
    <3>3. Calculate(alg, Flip(p)) \in 0..MaxU64
      <4>1. format \in Formats
        BY <1>1 DEF Typed, TypeOK
      <4>2. p \in Seq(Byte)
        BY <1>1, Given
      <4>3. Len(p) \in DOMAIN p
        BY <3>1, <4>2
      <4>4. Flip(p) = Damage(p, Len(p))
        BY DEF Flip, Damage
      <4>. QED BY <2>3, <4>1, <4>3, <4>4, WriteStackAssumption
    <3>. HIDE DEF alg
    <3>4. FlippedByte(alg, p)
      BY <3>1, <3>2, <3>3, FlippedByteHolds
    <3>. QED BY <3>4 DEF alg
  <2>4. ASSUME format = MagicHeader, NEW p \in R, NEW type \in Types, Verifies(type, DefaultLimits, p)
        PROVE  CustomFramer(type, p)
    <3>1. Program(MagicHeader, <<p>>)
      <4>1. <<p>> \in Seq(R)
        OBVIOUS
      <4>. HIDE DEF R
      <4>. QED BY <2>1, <2>4, <4>1
    <3>. QED BY <2>4, <3>1, CustomFramerHolds
  <2>. QED BY <1>1, <2>2, <2>3, <2>4, DefaultHold DEF ExamplesHold
<1>. QED BY <1>1, AlwaysTypes, PTL

=============================================================================
