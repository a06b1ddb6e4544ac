---------------------------- MODULE SessionProofs ----------------------------
(***************************************************************************)
(* Theorems about Session, for every stream of frames, every stack of      *)
(* adapters, every limit and any number of failed reads.                   *)
(***************************************************************************)
EXTENDS Session, Counting, SequenceTheorems

-----------------------------------------------------------------------------
(* Where the frames start. *)

Wire == sumLen \in SumLens /\ api \in Apis /\ sent \in Seq(Kinds)

\* The frames of the stream, and what they take.
LEMMA FrameSizes ==
    ASSUME Wire
    PROVE  /\ sumLen \in Nat /\ HeaderLen \in Nat /\ HeaderLen = 4 + sumLen /\ Len(sent) \in Nat
           /\ \A i \in 1..Len(sent) : /\ sent[i] \in Kinds /\ sent[i].plen \in Nat
                                      /\ Size(sent[i]) = HeaderLen + sent[i].plen
                                      /\ Size(sent[i]) \in Nat /\ Size(sent[i]) > 0
<1>1. sumLen \in Nat /\ HeaderLen \in Nat /\ HeaderLen = 4 + sumLen
  BY SessionAssumption DEF Wire, HeaderLen, LengthField
<1>2. Len(sent) \in Nat /\ \A i \in 1..Len(sent) : sent[i] \in Kinds
  BY LenProperties, ElementOfSeq DEF Wire
<1>. QED BY <1>1, <1>2, SessionAssumption DEF Size

\* The offsets of the first n frames, and of the end of the last of them.
StartsTo(g, n) ==
    g \in [1..(n + 1) -> Nat] /\ \A i \in 1..(n + 1) :
        g[i] = IF i = 1 THEN 0 ELSE g[i - 1] + Size(sent[i - 1])

\* The recursion that defines StartOf has a solution.
LEMMA StartsExist == ASSUME Wire PROVE \E g : StartsTo(g, Len(sent))
<1> DEFINE S == {n \in Nat : n <= Len(sent) => \E g : StartsTo(g, n)}
<1>1. 0 \in S
  <2>1. StartsTo([i \in 1..1 |-> 0], 0)
    BY DEF StartsTo
  <2>. QED BY <2>1
<1>2. ASSUME NEW n \in S, n < Len(sent) PROVE n + 1 \in S
  <2>1. n \in Nat /\ Len(sent) \in Nat /\ n + 1 \in 1..Len(sent) /\ Size(sent[n + 1]) \in Nat
    BY <1>2, FrameSizes
  <2>2. PICK g : StartsTo(g, n)
    BY <1>2, <2>1
  <2> DEFINE h == [i \in 1..(n + 2) |-> IF i = n + 2 THEN g[n + 1] + Size(sent[n + 1]) ELSE g[i]]
  <2>3. g[n + 1] \in Nat /\ h \in [1..((n + 1) + 1) -> Nat]
    BY <2>1, <2>2 DEF StartsTo
  <2>4. ASSUME NEW i \in 1..((n + 1) + 1)
        PROVE  h[i] = IF i = 1 THEN 0 ELSE h[i - 1] + Size(sent[i - 1])
    <3>1. CASE i = n + 2
      <4>1. i # 1 /\ i - 1 = n + 1 /\ i - 1 \in 1..(n + 2) /\ i - 1 # n + 2
        BY <2>1, <3>1
      <4>2. h[i] = g[n + 1] + Size(sent[n + 1]) /\ h[i - 1] = g[n + 1]
        BY <2>1, <3>1, <4>1
      <4>. QED BY <4>1, <4>2
    <3>2. CASE i # n + 2
      <4>1. i \in 1..(n + 1) /\ (i # 1 => i - 1 \in 1..(n + 2) /\ i - 1 # n + 2)
        BY <2>1, <3>2
      <4>2. h[i] = g[i] /\ (i # 1 => h[i - 1] = g[i - 1])
        BY <2>1, <3>2, <4>1
      <4>. QED BY <2>2, <4>1, <4>2 DEF StartsTo
    <3>. QED BY <3>1, <3>2
  <2>5. StartsTo(h, n + 1)
    BY <2>3, <2>4 DEF StartsTo
  <2>. QED BY <2>1, <2>5
<1>3. Len(sent) \in Nat /\ S \in SUBSET Nat
  BY FrameSizes
<1>4. Len(sent) \in S
  <2>. HIDE DEF S
  <2>. QED BY <1>1, <1>2, <1>3, CountUp
<1>. QED BY <1>3, <1>4

\* StartOf solves it.
LEMMA Starts == ASSUME Wire PROVE StartsTo(StartOf, Len(sent))
<1> DEFINE N == Len(sent) + 1
<1>1. PICK g : StartsTo(g, Len(sent))
  BY StartsExist
<1>2. g = [i \in 1..N |-> IF i = 1 THEN 0 ELSE g[i - 1] + Size(sent[i - 1])]
  BY <1>1 DEF StartsTo
<1>3. StartOf = [i \in 1..N |-> IF i = 1 THEN 0 ELSE StartOf[i - 1] + Size(sent[i - 1])]
  BY <1>2 DEF StartOf
<1> DEFINE S == {n \in Nat : n <= Len(sent) => StartOf[n + 1] \in Nat}
<1>4. Len(sent) \in Nat /\ \A i \in 1..Len(sent) : Size(sent[i]) \in Nat
  BY FrameSizes
<1>5. 0 \in S
  BY <1>3, <1>4
<1>6. ASSUME NEW n \in S, n < Len(sent) PROVE n + 1 \in S
  BY <1>3, <1>4, <1>6
<1>7. ASSUME NEW i \in 1..N PROVE StartOf[i] \in Nat
  <2>1. i - 1 \in Nat /\ i - 1 <= Len(sent) /\ S \in SUBSET Nat
    BY <1>4
  <2>2. i - 1 \in S
    <3>1. \A n \in S : n < i - 1 => n + 1 \in S
      <4>. HIDE DEF S
      <4>. QED BY <1>4, <1>6, <2>1
    <3>. HIDE DEF S
    <3>. QED BY <1>5, <2>1, <3>1, CountUp
  <2>. QED BY <1>4, <2>1, <2>2
<1>. QED BY <1>3, <1>7 DEF StartsTo

\* Where a frame ends the next one starts, and each starts behind the ones before it.
LEMMA Order ==
    ASSUME Wire
    PROVE  /\ StartOf[1] = 0
           /\ \A i \in 1..(Len(sent) + 1) : StartOf[i] \in Nat
           /\ \A i \in 1..Len(sent) : StartOf[i + 1] = StartOf[i] + HeaderLen + sent[i].plen
           /\ \A i, j \in 1..(Len(sent) + 1) : i < j => StartOf[i] < StartOf[j]
<1>1. /\ Len(sent) \in Nat /\ HeaderLen \in Nat /\ HeaderLen >= 4
      /\ \A i \in 1..Len(sent) : sent[i].plen \in Nat /\ Size(sent[i]) = HeaderLen + sent[i].plen
  BY FrameSizes
<1>2. /\ \A i \in 1..(Len(sent) + 1) : StartOf[i] \in Nat
      /\ \A i \in 1..(Len(sent) + 1) :
            StartOf[i] = IF i = 1 THEN 0 ELSE StartOf[i - 1] + Size(sent[i - 1])
  BY Starts DEF StartsTo
<1>3. StartOf[1] = 0
  BY <1>1, <1>2
<1>4. ASSUME NEW i \in 1..Len(sent)
      PROVE  StartOf[i + 1] = StartOf[i] + HeaderLen + sent[i].plen
  <2>1. i + 1 \in 1..(Len(sent) + 1) /\ i + 1 # 1 /\ (i + 1) - 1 = i /\ StartOf[i] \in Nat
    BY <1>1, <1>2
  <2>2. StartOf[i + 1] = StartOf[i] + Size(sent[i])
    BY <1>2, <2>1
  <2>. QED BY <1>1, <2>1, <2>2
<1>5. ASSUME NEW i \in 1..(Len(sent) + 1), NEW j \in 1..(Len(sent) + 1), i < j
      PROVE  StartOf[i] < StartOf[j]
  <2> DEFINE S == {n \in Nat : i + 1 + n <= Len(sent) + 1 => StartOf[i] < StartOf[i + 1 + n]}
  <2>1. ASSUME NEW k \in 1..Len(sent) PROVE StartOf[k] < StartOf[k + 1]
    <3>1. StartOf[k] \in Nat /\ sent[k].plen \in Nat /\ HeaderLen \in Nat /\ HeaderLen >= 4
      BY <1>1, <1>2
    <3>2. StartOf[k + 1] = StartOf[k] + HeaderLen + sent[k].plen
      BY <1>4
    <3>. QED BY <3>1, <3>2
  <2>2. 0 \in S
    <3>1. i \in 1..Len(sent) /\ i + 1 + 0 = i + 1
      BY <1>1, <1>5
    <3>. QED BY <2>1, <3>1
  <2>3. ASSUME NEW n \in S PROVE n + 1 \in S
    <3>1. SUFFICES ASSUME i + 1 + (n + 1) <= Len(sent) + 1
                   PROVE  StartOf[i] < StartOf[i + 1 + (n + 1)]
      OBVIOUS
    <3> DEFINE k == i + 1 + n
    <3>2. k \in 1..Len(sent) /\ k + 1 = i + 1 + (n + 1) /\ k + 1 \in 1..(Len(sent) + 1)
      BY <1>1, <3>1
    <3>3. StartOf[i] < StartOf[k] /\ StartOf[k] < StartOf[k + 1]
      BY <1>1, <2>1, <3>2
    <3>4. StartOf[i] \in Nat /\ StartOf[k] \in Nat /\ StartOf[k + 1] \in Nat
      BY <1>1, <1>2, <3>2
    <3>. HIDE DEF k
    <3>. QED BY <3>2, <3>3, <3>4
  <2>4. j - (i + 1) \in Nat /\ S \in SUBSET Nat
    BY <1>1, <1>5
  <2>5. j - (i + 1) \in S
    <3>. HIDE DEF S
    <3>. QED BY <2>2, <2>3, <2>4, CountUp
  <2>6. i + 1 + (j - (i + 1)) = j
    BY <1>1
  <2>. QED BY <1>1, <2>5, <2>6
<1>. QED BY <1>2, <1>3, <1>4, <1>5

\* The frame that starts at the offset of frame i is frame i.
LEMMA Located ==
    ASSUME Wire, NEW i \in 1..Len(sent)
    PROVE  /\ FrameIndices(StartOf[i]) # {} /\ FrameAt(StartOf[i]) = sent[i]
           /\ Decoded(StartOf[i]) = {sent[i].plen}
<1>1. \A j \in 1..Len(sent) : StartOf[j] = StartOf[i] => j = i
  <2>1. Len(sent) \in Nat
    BY FrameSizes
  <2>2. \A j \in 1..Len(sent) : /\ j \in 1..(Len(sent) + 1) /\ i \in 1..(Len(sent) + 1)
                                /\ StartOf[i] \in Nat /\ StartOf[j] \in Nat
    BY <2>1, Order
  <2>3. \A j \in 1..Len(sent) : (j < i => StartOf[j] < StartOf[i])
                                    /\ (i < j => StartOf[i] < StartOf[j])
    BY <2>2, Order
  <2>. QED BY <2>1, <2>2, <2>3
<1>2. FrameIndices(StartOf[i]) = {i}
  BY <1>1 DEF FrameIndices
<1>3. (CHOOSE j \in 1..Len(sent) : StartOf[j] = StartOf[i]) = i
  BY <1>1
<1>4. FrameAt(StartOf[i]) = sent[i]
  BY <1>3 DEF FrameAt
<1>. QED BY <1>2, <1>4 DEF Decoded

\* The end of the stream is a boundary, and there is none behind it.
LEMMA Ends ==
    ASSUME Wire
    PROVE  /\ StreamEnd \in Nat /\ StreamEnd \in Boundaries /\ 0 \in Boundaries
           /\ \A p \in Boundaries : /\ p \in 0..StreamEnd
                                    /\ p # StreamEnd => \E i \in 1..Len(sent) : p = StartOf[i]
<1>1. Len(sent) \in Nat
  BY FrameSizes
<1>2. StreamEnd \in Nat /\ StreamEnd \in Boundaries /\ 0 \in Boundaries
  BY <1>1, Order DEF StreamEnd, Boundaries
<1>3. ASSUME NEW p \in Boundaries
      PROVE  /\ p \in 0..StreamEnd
             /\ p # StreamEnd => \E i \in 1..Len(sent) : p = StartOf[i]
  <2>1. PICK i \in 1..(Len(sent) + 1) : p = StartOf[i]
    BY DEF Boundaries
  <2>2. CASE i = Len(sent) + 1
    BY <1>2, <2>1, <2>2 DEF StreamEnd
  <2>3. CASE i # Len(sent) + 1
    <3>1. /\ i \in 1..Len(sent) /\ i < Len(sent) + 1 /\ Len(sent) + 1 \in 1..(Len(sent) + 1)
          /\ StartOf[i] \in Nat
      BY <1>1, <2>3, Order
    <3>2. StartOf[i] < StreamEnd
      BY <3>1, Order DEF StreamEnd
    <3>. QED BY <1>2, <2>1, <3>1, <3>2
  <2>. QED BY <2>2, <2>3
<1>. QED BY <1>2, <1>3

\* The frames never change, nor do their offsets.
LEMMA Fixed ==
    ASSUME UNCHANGED <<sumLen, api, sent>>
    PROVE  /\ StartOf' = StartOf /\ HeaderLen' = HeaderLen /\ StreamEnd' = StreamEnd
           /\ Boundaries' = Boundaries
           /\ \A p, n : /\ Decoded(p)' = Decoded(p) /\ FrameAt(p)' = FrameAt(p)
                        /\ IsFrame(p, n)' = IsFrame(p, n)
                        /\ Passing(n, p)' = Passing(n, p) /\ Wanted(p)' = Wanted(p)
           /\ \A i : AsMessage(i)' = AsMessage(i)
<1>1. StartOf' = StartOf
  BY DEF StartOf, Size, HeaderLen
<1>2. HeaderLen' = HeaderLen /\ StreamEnd' = StreamEnd /\ Boundaries' = Boundaries
  BY <1>1 DEF HeaderLen, StreamEnd, Boundaries
<1>3. ASSUME NEW p, NEW n
      PROVE  /\ Decoded(p)' = Decoded(p) /\ FrameAt(p)' = FrameAt(p)
             /\ IsFrame(p, n)' = IsFrame(p, n)
             /\ Passing(n, p)' = Passing(n, p) /\ Wanted(p)' = Wanted(p)
  <2>1. FrameIndices(p)' = FrameIndices(p) /\ FrameAt(p)' = FrameAt(p)
    BY <1>1 DEF FrameIndices, FrameAt
  <2>2. Decoded(p)' = Decoded(p) /\ IsFrame(p, n)' = IsFrame(p, n)
    BY <2>1 DEF Decoded, IsFrame
  <2>3. \A k : Passing(k, p)' = Passing(k, p)
    BY <1>1 DEF Passing, Passes
  <2>. QED BY <1>1, <2>1, <2>2, <2>3 DEF Wanted
<1>4. ASSUME NEW i PROVE AsMessage(i)' = AsMessage(i)
  BY <1>1, <1>2 DEF AsMessage, Message
<1>. QED BY <1>1, <1>2, <1>3, <1>4

-----------------------------------------------------------------------------
(* The inductive invariant: where a call stands.                           *)

Bytes == Seq(Nat \cup {Zero})
Messages == [from : Nat, bytes : Bytes]
Results == {"Some", "None", "UnexpectedEof", "InvalidFrame", "Io", "ChecksumMismatch",
            "ValidationFailed", "FlatbuffersError", "Handler"}

Types ==
    /\ TypeOK
    /\ result \in Results
    /\ derailed \in BOOLEAN
    /\ delivered \in Seq(Messages)
    /\ observed \in [1..Len(Stack) -> Seq(Messages)]

\* The reader is as far behind the start of the frame as it has read of the frame.
Cursor ==
    /\ pc = "probe" => todo = 1 /\ pos = start
    /\ pc = "header" => pos + todo = start + HeaderLen /\ pos > start
    /\ pc = "payload" => pos + todo = start + HeaderLen + declared /\ todo <= declared
    /\ pc \in {"adapt", "handler"} => pos = start + HeaderLen + declared
    /\ pc \in {"payload", "adapt", "handler"} =>
          declared \in Decoded(start) /\ declared <= MaxFrameLen

\* Unless a call has started inside a frame they all start between two, and it takes an
\* error inside a frame to make the next one start there.
Aligned ==
    /\ ~derailed /\ pc \notin {"idle", "over"} => start \in Boundaries
    /\ ~derailed /\ pc = "idle" /\ ~Derailing => pos \in Boundaries
    /\ result = "None" => pc = "over" /\ (derailed \/ pos \in Boundaries)

\* The beginning of the buffer holds what has been read of the payload.
Filled ==
    pc \in {"payload", "adapt"} =>
        \A k \in 1..(pos - (start + HeaderLen)) : buffer[k] = start + HeaderLen + (k - 1)

\* What has got through the deframer and `level` adapters.
Checked ==
    /\ pc \in {"probe", "header", "payload"} => level = 0
    /\ pc = "adapt" =>
          /\ Verified
          /\ IsFrame(start, declared) /\ (\E j \in 1..level : Stack[j] = "validate")
                => FrameAt(start).valid

Control == Types /\ Cursor /\ Aligned /\ Filled /\ Checked

-----------------------------------------------------------------------------
(* The inductive invariant: what has been given away.                      *)

\* The frames before this offset have been dealt with by the reader ...
Reached == IF pc \in {"probe", "header", "payload", "adapt"} THEN start ELSE pos

\* ... and before this one by the k-th adapter.
ReachedBy(k) == IF pc = "adapt" /\ k <= level THEN pos ELSE Reached

Deliveries == ~derailed => Exactly(delivered, Wanted(Reached))

GoodDeliveries ==
    sumLen > 0 =>
        /\ Range(delivered) \subseteq {AsMessage(i) : i \in Wanted(Reached)}
        /\ InOrder(delivered)

Observations ==
    ~derailed =>
        \A k \in 1..Len(Stack) :
            Stack[k] = "observe" => Exactly(observed[k], Passing(k - 1, ReachedBy(k)))

Inv == Control /\ Deliveries /\ GoodDeliveries /\ Observations

-----------------------------------------------------------------------------
(* Where a call stands: every step keeps Control.                          *)

\* The types as the provers want them.
LEMMA Typed ==
    ASSUME Types
    PROVE  /\ Wire /\ StreamEnd \in Nat /\ HeaderLen \in Nat /\ HeaderLen >= 4
           /\ avail \in Nat /\ avail <= StreamEnd /\ pos \in Nat /\ pos <= avail
           /\ start \in Nat /\ start <= pos /\ todo \in Nat /\ declared \in Nat
           /\ Len(buffer) \in Nat /\ DOMAIN buffer = 1..Len(buffer)
           /\ \A k \in DOMAIN buffer : buffer[k] \in Nat \cup {Zero}
           /\ level \in Nat /\ level <= Len(Stack) /\ Len(Stack) \in Nat
           /\ \A k \in 1..Len(Stack) : Stack[k] \in {"validate", "observe"}
<1>1. Wire
  BY DEF Types, TypeOK, Wire
<1>2. StreamEnd \in Nat /\ HeaderLen \in Nat /\ HeaderLen >= 4
  BY <1>1, Ends, FrameSizes
<1>3. /\ Len(buffer) \in Nat /\ DOMAIN buffer = 1..Len(buffer)
      /\ \A k \in DOMAIN buffer : buffer[k] \in Nat \cup {Zero}
  BY LenProperties, ElementOfSeq DEF Types, TypeOK
<1>4. Len(Stack) \in Nat /\ \A k \in 1..Len(Stack) : Stack[k] \in {"validate", "observe"}
  BY SessionAssumption, LenProperties, ElementOfSeq
<1>5. /\ avail \in 0..StreamEnd /\ pos \in 0..avail /\ start \in 0..pos /\ todo \in Nat
      /\ declared \in Nat /\ level \in 0..Len(Stack)
  BY DEF Types, TypeOK
<1>. QED BY <1>1, <1>2, <1>3, <1>4, <1>5

\* What four bytes decode to is a number.
LEMMA DecodedTypes == ASSUME Wire, NEW p PROVE Decoded(p) \subseteq Nat
<1>1. CASE FrameIndices(p) # {}
  <2>1. PICK i \in 1..Len(sent) : StartOf[i] = p
    BY <1>1 DEF FrameIndices
  <2>. QED BY <2>1, Located, FrameSizes
<1>2. CASE FrameIndices(p) = {}
  BY <1>2, SessionAssumption DEF Decoded
<1>. QED BY <1>1, <1>2

\* A buffer that has grown.
LEMMA Grown ==
    ASSUME Types, NEW n \in Nat
    PROVE  GrownTo(n) \in Bytes /\ n <= Len(GrownTo(n))
<1> DEFINE m == IF n > Len(buffer) THEN n ELSE Len(buffer)
           g == [k \in 1..m |-> IF k <= Len(buffer) THEN buffer[k] ELSE Zero]
<1>1. m \in Nat /\ n <= m /\ \A k \in 1..m : k <= Len(buffer) => k \in DOMAIN buffer
  BY Typed
<1>2. \A k \in 1..m : (IF k <= Len(buffer) THEN buffer[k] ELSE Zero) \in Nat \cup {Zero}
  BY <1>1, Typed
<1>3. g \in [1..m -> Nat \cup {Zero}]
  BY <1>2
<1>4. g \in Seq(Nat \cup {Zero}) /\ Len(g) = m
  <2>. HIDE DEF g, m
  <2>1. g \in Seq(Nat \cup {Zero})
    BY <1>1, <1>3, SeqDef
  <2>2. DOMAIN g = 1..m
    BY <1>3
  <2>. QED BY <1>1, <2>1, <2>2, LenProperties
<1>5. GrownTo(n) = g
  BY DEF GrownTo
<1>. QED BY <1>1, <1>4, <1>5 DEF Bytes

\* A buffer with more bytes read into it.
LEMMA FilledTypes ==
    ASSUME Types, NEW n \in Nat
    PROVE  FilledWith(n) \in Bytes /\ Len(FilledWith(n)) = Len(buffer)
<1> DEFINE first == declared - todo + 1
           g == [k \in 1..Len(buffer) |->
                    IF first <= k /\ k < first + n THEN pos + (k - first) ELSE buffer[k]]
<1>1. ASSUME NEW k \in 1..Len(buffer)
      PROVE  (IF first <= k /\ k < first + n THEN pos + (k - first) ELSE buffer[k])
                \in Nat \cup {Zero}
  <2>1. first \in Int /\ pos \in Nat /\ buffer[k] \in Nat \cup {Zero} /\ k \in Nat
    BY Typed
  <2>2. first <= k => pos + (k - first) \in Nat
    <3>. HIDE DEF first
    <3>. QED BY <2>1
  <2>. HIDE DEF first
  <2>. QED BY <2>1, <2>2
<1>2. g \in [1..Len(buffer) -> Nat \cup {Zero}]
  BY <1>1
<1>3. FilledWith(n) = g
  BY Typed DEF FilledWith
<1>4. g \in Seq(Nat \cup {Zero}) /\ Len(g) = Len(buffer)
  <2>. HIDE DEF g
  <2>1. g \in Seq(Nat \cup {Zero}) /\ DOMAIN g = 1..Len(buffer)
    BY <1>2, SeqDef, Typed
  <2>. QED BY <2>1, Typed, LenProperties
<1>. QED BY <1>3, <1>4 DEF Bytes

\* What a call that returns leaves.
LEMMA Returned ==
    ASSUME NEW r \in Results, Return(r)
    PROVE  result' = r /\ pc' \in {"idle", "over"} /\ (r = "None" => pc' = "over")
BY DEF Return, After, Results

\* The initial states.
LEMMA InitControl == ASSUME Init PROVE Control
<1>1. sent \in Seq(Kinds)
  <2>1. PICK n \in 0..MaxFrames : sent \in [1..n -> Kinds]
    BY DEF Init
  <2>2. n \in Nat
    BY SessionAssumption
  <2>. QED BY <2>1, <2>2, SeqDef
<1>2. Wire
  BY <1>1 DEF Init, Wire
<1>3. buffer \in Bytes /\ delivered \in Seq(Messages)
  BY EmptySeq DEF Init, Bytes
<1>4. Len(Stack) \in Nat /\ observed \in [1..Len(Stack) -> Seq(Messages)]
  <2>1. Len(Stack) \in Nat /\ << >> \in Seq(Messages)
    BY SessionAssumption, LenProperties, EmptySeq
  <2>. QED BY <2>1 DEF Init
<1>5. StreamEnd \in Nat /\ 0 \in Boundaries
  BY <1>2, Ends
<1>6. Types
  <2>1. sumLen \in SumLens /\ api \in Apis /\ sent \in Seq(Kinds) /\ MaxFaults \in Nat
    BY <1>2, SessionAssumption DEF Wire
  <2>2. /\ avail \in 0..StreamEnd /\ pos \in 0..avail /\ start \in 0..pos /\ todo \in Nat
        /\ declared \in Nat /\ level \in 0..Len(Stack) /\ faults \in 0..MaxFaults
    BY <1>4, <1>5, <2>1 DEF Init
  <2>3. /\ pc = "idle" /\ pc \in PCs /\ closed \in BOOLEAN /\ result \in Results
        /\ derailed \in BOOLEAN
    BY DEF Init, PCs, Results
  <2>4. TypeOK
    BY <1>3, <2>1, <2>2, <2>3 DEF TypeOK, Bytes
  <2>. QED BY <1>3, <1>4, <2>3, <2>4 DEF Types
<1>7. Cursor /\ Aligned /\ Filled /\ Checked
  BY <1>5 DEF Init, Cursor, Aligned, Filled, Checked
<1>. QED BY <1>6, <1>7 DEF Control

\* The steps of the source.
LEMMA SourceControl ==
    ASSUME Control, SourceStep
    PROVE  Control'
<1>1. /\ UNCHANGED <<sumLen, api, sent, readVars, pc, buffer, level, outVars, faults>>
      /\ avail' \in avail..StreamEnd /\ closed' \in BOOLEAN
  <2>1. avail \in Nat /\ avail <= StreamEnd /\ StreamEnd \in Nat /\ closed \in BOOLEAN
    BY Typed DEF Control, Types, TypeOK
  <2>2. ASSUME NEW n \in 1..(StreamEnd - avail), Arrive(n)
        PROVE  /\ UNCHANGED <<sumLen, api, sent, readVars, pc, buffer, level, outVars, faults>>
               /\ avail' \in avail..StreamEnd /\ closed' \in BOOLEAN
    <3>1. avail' = avail + n /\ avail + n <= StreamEnd /\ closed' = closed
      BY <2>2 DEF Arrive
    <3>. QED BY <2>1, <2>2, <3>1 DEF Arrive
  <2>3. ASSUME Close
        PROVE  /\ UNCHANGED <<sumLen, api, sent, readVars, pc, buffer, level, outVars, faults>>
               /\ avail' \in avail..StreamEnd /\ closed' \in BOOLEAN
    BY <2>1, <2>3 DEF Close
  <2>. QED BY <2>2, <2>3 DEF SourceStep
<1>2. /\ HeaderLen' = HeaderLen /\ StreamEnd' = StreamEnd /\ Boundaries' = Boundaries
      /\ \A p, n : /\ Decoded(p)' = Decoded(p) /\ FrameAt(p)' = FrameAt(p)
                   /\ IsFrame(p, n)' = IsFrame(p, n)
  BY <1>1, Fixed
<1>3. Types'
  <2>1. avail' \in 0..StreamEnd' /\ pos' \in 0..avail'
    BY <1>1, <1>2, Typed DEF Control, readVars
  <2>. QED BY <1>1, <1>2, <2>1 DEF Control, Types, TypeOK, readVars, outVars
<1>4. Cursor' /\ Filled'
  BY <1>1, <1>2 DEF Control, Cursor, Filled, readVars
<1>5. Aligned'
  BY <1>1, <1>2 DEF Control, Aligned, Derailing, readVars, outVars
<1>6. Checked'
  BY <1>1, <1>2 DEF Control, Checked, Verified, readVars
<1>. QED BY <1>3, <1>4, <1>5, <1>6 DEF Control

\* A call that is past its first byte, and no call has started inside a frame: the frame
\* it reads.
LEMMA Framed ==
    ASSUME Control, ~derailed, pc \in {"header", "payload", "adapt", "handler"}
    PROVE  \E i \in 1..Len(sent) :
              /\ start = StartOf[i] /\ pos <= StartOf[i + 1]
              /\ pc = "header" => pos + todo <= StartOf[i + 1]
              /\ pc \in {"payload", "adapt", "handler"} =>
                    declared = sent[i].plen /\ IsFrame(start, declared)
              /\ pc = "payload" => pos + todo = StartOf[i + 1]
              /\ pc \in {"adapt", "handler"} => pos = StartOf[i + 1]
<1>1. /\ Wire /\ pos \in Nat /\ start \in Nat /\ todo \in Nat /\ HeaderLen \in Nat
      /\ HeaderLen >= 4 /\ declared \in Nat /\ pos <= StreamEnd /\ StreamEnd \in Nat
  BY Typed DEF Control
<1>2. start \in Boundaries
  BY DEF Control, Aligned
<1>3. pos > start
  BY <1>1 DEF Control, Cursor
<1>4. PICK i \in 1..Len(sent) : start = StartOf[i]
  BY <1>1, <1>2, <1>3, Ends
<1>5. /\ sent[i].plen \in Nat /\ StartOf[i + 1] = start + HeaderLen + sent[i].plen
      /\ FrameIndices(start) # {} /\ FrameAt(start) = sent[i] /\ Decoded(start) = {sent[i].plen}
  BY <1>1, <1>4, FrameSizes, Order, Located
<1>6. pc \in {"payload", "adapt", "handler"} =>
         declared = sent[i].plen /\ IsFrame(start, declared)
  BY <1>5 DEF Control, Cursor, IsFrame
<1>7. /\ pc = "header" => pos + todo <= StartOf[i + 1]
      /\ pc = "payload" => pos + todo = StartOf[i + 1]
      /\ pc \in {"adapt", "handler"} => pos = StartOf[i + 1]
  BY <1>1, <1>5, <1>6 DEF Control, Cursor
<1>8. pos <= StartOf[i + 1]
  BY <1>1, <1>5, <1>7
<1>. QED BY <1>4, <1>6, <1>7, <1>8

\* A call returns, having consumed no more: at a boundary, or with an error that derails.
LEMMA ReturnControl ==
    ASSUME Control, UNCHANGED <<sourceVars, pos, start, derailed, buffer, level>>,
           NEW r \in Results, Return(r), todo' \in Nat, declared' \in Nat,
           faults' \in 0..MaxFaults, delivered' = delivered, observed' = observed,
           \/ derailed
           \/ pos \in Boundaries
           \/ r \in {"UnexpectedEof", "InvalidFrame"}
           \/ r = "Io" /\ pos # start,
           r = "None" => derailed \/ pos \in Boundaries
    PROVE  Control'
<1>1. result' = r /\ pc' \in {"idle", "over"} /\ (r = "None" => pc' = "over")
  BY Returned
<1>2. /\ HeaderLen' = HeaderLen /\ StreamEnd' = StreamEnd /\ Boundaries' = Boundaries
  BY Fixed DEF sourceVars
<1>3. Types'
  BY <1>1, <1>2 DEF Control, Types, TypeOK, sourceVars, PCs
<1>4. Cursor' /\ Filled' /\ Checked'
  BY <1>1 DEF Cursor, Filled, Checked
<1>5. Aligned'
  BY <1>1, <1>2 DEF Aligned, Derailing
<1>. QED BY <1>3, <1>4, <1>5 DEF Control

\* A call begins.
LEMMA StartReadControl == ASSUME Control, StartRead PROVE Control'
<1>1. /\ pc = "idle" /\ pc' = "probe" /\ start' = pos /\ pos' = pos /\ todo' = 1
      /\ declared' = 0 /\ level' = 0 /\ derailed' = (derailed \/ Derailing)
      /\ buffer' \in {buffer, << >>}
      /\ UNCHANGED <<sourceVars, outVars, faults>>
  BY DEF StartRead
<1>2. /\ HeaderLen' = HeaderLen /\ StreamEnd' = StreamEnd /\ Boundaries' = Boundaries
  BY <1>1, Fixed DEF sourceVars
<1>3. Types'
  <2>1. buffer' \in Seq(Nat \cup {Zero})
    BY <1>1, EmptySeq DEF Control, Types, TypeOK
  <2>2. level' \in 0..Len(Stack) /\ start' \in 0..pos'
    BY <1>1, Typed DEF Control
  <2>3. derailed' \in BOOLEAN
    BY <1>1 DEF Control, Types, Derailing
  <2>4. TypeOK'
    BY <1>1, <1>2, <2>1, <2>2 DEF Control, Types, TypeOK, sourceVars, PCs
  <2>. QED BY <1>1, <2>3, <2>4 DEF Control, Types, outVars
<1>4. Cursor' /\ Filled' /\ Checked'
  BY <1>1 DEF Cursor, Filled, Checked
<1>5. Aligned'
  BY <1>1, <1>2 DEF Control, Aligned, Derailing, outVars
<1>. QED BY <1>3, <1>4, <1>5 DEF Control

\* Bytes come in.
LEMMA ReadSomeControl == ASSUME Control, NEW n \in Nat \ {0}, ReadSome(n) PROVE Control'
<1>1. /\ pc \in {"probe", "header", "payload"} /\ n <= todo /\ pos + n <= avail
      /\ pos' = pos + n /\ start' = start /\ declared' = declared /\ derailed' = derailed
      /\ level' = level /\ todo' = (IF pc = "probe" THEN HeaderLen - 1 ELSE todo - n)
      /\ pc' = (IF pc = "probe" THEN "header" ELSE pc)
      /\ buffer' = (IF pc = "payload" THEN FilledWith(n) ELSE buffer)
      /\ UNCHANGED <<sourceVars, outVars, faults>>
  BY DEF ReadSome
<1>2. /\ HeaderLen' = HeaderLen /\ StreamEnd' = StreamEnd /\ Boundaries' = Boundaries
      /\ \A p : Decoded(p)' = Decoded(p)
  BY <1>1, Fixed DEF sourceVars
<1>3. /\ Wire /\ pos \in Nat /\ start \in Nat /\ start <= pos /\ todo \in Nat
      /\ HeaderLen \in Nat /\ HeaderLen >= 4 /\ declared \in Nat /\ avail \in Nat
      /\ Len(buffer) \in Nat /\ DOMAIN buffer = 1..Len(buffer)
  BY Typed DEF Control
<1>4. todo' \in Nat /\ pos' \in 0..avail /\ start' \in 0..pos'
  BY <1>1, <1>3
<1>5. buffer' \in Bytes /\ (pc = "payload" => Len(buffer') = Len(buffer))
  BY <1>1, FilledTypes DEF Control, Types, TypeOK, Bytes
<1>6. Types'
  <2>1. pc' \in PCs /\ (pc' \in {"payload", "adapt", "handler"} => declared' <= Len(buffer'))
    BY <1>1, <1>5 DEF Control, Types, TypeOK, PCs
  <2>2. TypeOK'
    BY <1>1, <1>2, <1>4, <1>5, <2>1 DEF Control, Types, TypeOK, sourceVars, Bytes
  <2>. QED BY <1>1, <2>2 DEF Control, Types, outVars
<1>7. Cursor'
  <2>1. CASE pc = "probe"
    BY <1>1, <1>2, <1>3, <2>1 DEF Control, Cursor
  <2>2. CASE pc = "header"
    BY <1>1, <1>2, <1>3, <2>2 DEF Control, Cursor
  <2>3. CASE pc = "payload"
    BY <1>1, <1>2, <1>3, <2>3 DEF Control, Cursor
  <2>. QED BY <1>1, <2>1, <2>2, <2>3
<1>8. Aligned'
  BY <1>1, <1>2 DEF Control, Aligned, outVars
<1>9. Filled'
  <2>1. SUFFICES ASSUME pc = "payload", NEW k \in 1..(pos' - (start + HeaderLen))
                 PROVE  buffer'[k] = start + HeaderLen + (k - 1)
    BY <1>1, <1>2 DEF Filled
  <2>2. pos + todo = start + HeaderLen + declared /\ declared <= Len(buffer)
    BY <2>1 DEF Control, Cursor, Types, TypeOK
  <2> DEFINE first == declared - todo + 1
  <2>3. first = pos - (start + HeaderLen) + 1 /\ k \in 1..Len(buffer) /\ k < first + n
    BY <1>1, <1>3, <2>2
  <2>4. buffer'[k] = IF first <= k /\ k < first + n THEN pos + (k - first) ELSE buffer[k]
    BY <1>1, <1>3, <2>1, <2>3 DEF FilledWith
  <2>5. CASE first <= k
    <3>1. pos + (k - first) = start + HeaderLen + (k - 1)
      BY <1>3, <2>3
    <3>. QED BY <2>3, <2>4, <2>5, <3>1
  <2>6. CASE ~(first <= k)
    <3>1. k \in 1..(pos - (start + HeaderLen))
      BY <1>3, <2>3, <2>6
    <3>2. buffer[k] = start + HeaderLen + (k - 1)
      BY <2>1, <3>1 DEF Control, Filled
    <3>. QED BY <2>4, <2>6, <3>2
  <2>. QED BY <2>5, <2>6
<1>10. Checked'
  BY <1>1 DEF Control, Checked
<1>. QED BY <1>6, <1>7, <1>8, <1>9, <1>10 DEF Control

\* The end of the stream.
LEMMA EndOfStreamControl == ASSUME Control, EndOfStream PROVE Control'
<1>1. /\ UNCHANGED <<sourceVars, pos, start, derailed, buffer, level>>
      /\ todo' = todo /\ declared' = declared /\ faults' = faults
      /\ delivered' = delivered /\ observed' = observed
      /\ pc \in {"probe", "header", "payload"} /\ Return(AtEof)
  BY DEF EndOfStream, readVars
<1>2. /\ AtEof = (IF pc = "probe" THEN "None" ELSE "UnexpectedEof") /\ AtEof \in Results
      /\ pc = "probe" => derailed \/ pos \in Boundaries
  BY DEF AtEof, Results, Control, Cursor, Aligned
<1>3. todo' \in Nat /\ declared' \in Nat /\ faults' \in 0..MaxFaults
  BY <1>1 DEF Control, Types, TypeOK
<1>. QED BY <1>1, <1>2, <1>3, ReturnControl

\* The source fails.
LEMMA SourceFailsControl == ASSUME Control, SourceFails PROVE Control'
<1>1. /\ UNCHANGED <<sourceVars, pos, start, derailed, buffer, level>>
      /\ todo' = todo /\ declared' = declared /\ delivered' = delivered /\ observed' = observed
      /\ pc \in {"probe", "header", "payload"} /\ faults < MaxFaults /\ faults' = faults + 1
      /\ Return("Io") \/ Return(AtEof)
  BY DEF SourceFails, readVars
<1>2. /\ AtEof = (IF pc = "probe" THEN "None" ELSE "UnexpectedEof") /\ AtEof \in Results
      /\ pc = "probe" => derailed \/ pos \in Boundaries
      /\ "Io" \in Results /\ (pos = start => derailed \/ pos \in Boundaries)
  BY <1>1 DEF AtEof, Results, Control, Cursor, Aligned
<1>3. todo' \in Nat /\ declared' \in Nat /\ faults' \in 0..MaxFaults
  <2>1. todo \in Nat /\ declared \in Nat /\ faults \in 0..MaxFaults /\ MaxFaults \in Nat
    BY SessionAssumption DEF Control, Types, TypeOK
  <2>. QED BY <1>1, <2>1
<1>4. CASE Return("Io")
  BY <1>1, <1>2, <1>3, <1>4, ReturnControl
<1>5. CASE Return(AtEof)
  BY <1>1, <1>2, <1>3, <1>5, ReturnControl
<1>. QED BY <1>1, <1>4, <1>5

\* The header is in.
LEMMA ParseHeaderControl == ASSUME Control, ParseHeader PROVE Control'
<1>1. /\ pc = "header" /\ todo = 0 /\ declared' \in Decoded(start)
      /\ UNCHANGED <<sourceVars, pos, start, derailed, level>> /\ delivered' = delivered
      /\ observed' = observed /\ faults' = faults
  BY DEF ParseHeader
<1>2. /\ Wire /\ pos \in Nat /\ start \in Nat /\ start <= pos /\ HeaderLen \in Nat
      /\ declared' \in Nat /\ MaxFrameLen \in Nat /\ faults \in 0..MaxFaults
  <2>1. Wire /\ Decoded(start) \subseteq Nat
    BY Typed, DecodedTypes DEF Control
  <2>. QED BY <1>1, <2>1, Typed, SessionAssumption DEF Control, Types, TypeOK
<1>3. CASE declared' > MaxFrameLen
  <2>1. Return("InvalidFrame") /\ todo' = todo /\ buffer' = buffer
    BY <1>3 DEF ParseHeader
  <2>2. "InvalidFrame" \in Results /\ "InvalidFrame" # "None" /\ todo' \in Nat
    BY <1>1, <2>1 DEF Results
  <2>. QED BY <1>1, <1>2, <2>1, <2>2, ReturnControl
<1>4. CASE ~(declared' > MaxFrameLen)
  <2>1. /\ pc' = "payload" /\ todo' = declared' /\ buffer' = GrownTo(declared')
        /\ result' = result
    BY <1>4 DEF ParseHeader
  <2>2. buffer' \in Bytes /\ declared' <= Len(buffer')
    <3>1. \A n \in Nat : GrownTo(n) \in Bytes /\ n <= Len(GrownTo(n))
      BY Grown DEF Control
    <3>. QED BY <1>2, <2>1, <3>1
  <2>3. /\ HeaderLen' = HeaderLen /\ StreamEnd' = StreamEnd /\ Boundaries' = Boundaries
        /\ \A p : Decoded(p)' = Decoded(p)
    BY <1>1, Fixed DEF sourceVars
  <2>4. Types'
    <3>1. TypeOK'
      BY <1>1, <1>2, <2>1, <2>2, <2>3 DEF Control, Types, TypeOK, sourceVars, PCs, Bytes
    <3>. QED BY <1>1, <2>1, <3>1 DEF Control, Types
  <2>5. pos = start + HeaderLen /\ declared' <= MaxFrameLen
    BY <1>1, <1>2, <1>4 DEF Control, Cursor
  <2>6. Cursor'
    BY <1>1, <1>2, <2>1, <2>3, <2>5 DEF Cursor
  <2>7. Aligned'
    BY <1>1, <2>1, <2>3 DEF Control, Aligned
  <2>8. Filled'
    BY <1>1, <1>2, <2>3, <2>5 DEF Filled
  <2>9. Checked'
    BY <1>1, <2>1 DEF Control, Checked
  <2>. QED BY <2>4, <2>6, <2>7, <2>8, <2>9 DEF Control
<1>. QED BY <1>3, <1>4

\* A step that leaves the reader where it stands in a frame it has read, or goes on to
\* the next adapter or the application.
LEMMA PassOnControl ==
    ASSUME Control, pc \in {"payload", "adapt"}, pc = "payload" => todo = 0,
           UNCHANGED <<sourceVars, readVars, buffer, result, faults>>,
           pc' \in {"adapt", "handler"}, level' \in 0..Len(Stack),
           delivered' \in Seq(Messages), observed' \in [1..Len(Stack) -> Seq(Messages)],
           Checked'
    PROVE  Control'
<1>1. /\ pos \in Nat /\ start \in Nat /\ HeaderLen \in Nat /\ declared \in Nat
      /\ pos = start + HeaderLen + declared
  BY Typed DEF Control, Cursor
<1>2. /\ HeaderLen' = HeaderLen /\ StreamEnd' = StreamEnd /\ Boundaries' = Boundaries
      /\ \A p : Decoded(p)' = Decoded(p)
  BY Fixed DEF sourceVars
<1>3. Types'
  <2>1. TypeOK'
    BY <1>2 DEF Control, Types, TypeOK, sourceVars, readVars, PCs
  <2>. QED BY <2>1 DEF Control, Types, readVars
<1>4. Cursor'
  BY <1>1, <1>2 DEF Control, Cursor, readVars
<1>5. Aligned'
  BY <1>2 DEF Control, Aligned, readVars
<1>6. Filled'
  BY <1>2 DEF Control, Filled, readVars
<1>. QED BY <1>3, <1>4, <1>5, <1>6 DEF Control

\* A call that returns behind a frame it has read to its end.
LEMMA ReturnBehindControl ==
    ASSUME Control, pc \in {"payload", "adapt", "handler"}, pc = "payload" => todo = 0,
           UNCHANGED <<sourceVars, readVars, buffer, level, delivered, observed, faults>>,
           NEW r \in Results \ {"None", "UnexpectedEof", "InvalidFrame", "Io"}, Return(r)
    PROVE  Control'
<1>1. ASSUME ~derailed PROVE pos \in Boundaries
  <2>1. Len(sent) \in Nat /\ pos \in Nat
    BY Typed, FrameSizes DEF Control
  <2>2. PICK i \in 1..Len(sent) : pos = StartOf[i + 1]
    BY <1>1, <2>1, Framed
  <2>. QED BY <2>1, <2>2 DEF Boundaries
<1>2. todo' \in Nat /\ declared' \in Nat /\ faults' \in 0..MaxFaults
  BY DEF Control, Types, TypeOK, readVars
<1>. QED BY <1>1, <1>2, ReturnControl DEF readVars

\* The payload is in.
LEMMA FrameReadControl == ASSUME Control, FrameRead PROVE Control'
<1>1. /\ pc = "payload" /\ todo = 0
      /\ UNCHANGED <<sourceVars, readVars, buffer, level, delivered, observed, faults>>
  BY DEF FrameRead
<1>2. CASE Verified
  <2>1. pc' = "adapt" /\ result' = result /\ level = 0
    BY <1>1, <1>2 DEF FrameRead, Control, Checked
  <2>2. Verified' = Verified
    <3>1. \A p, n : IsFrame(p, n)' = IsFrame(p, n) /\ FrameAt(p)' = FrameAt(p)
      BY <1>1, Fixed DEF sourceVars
    <3>. QED BY <1>1, <3>1 DEF Verified, readVars, sourceVars
  <2>3. level' = 0 /\ Checked'
    BY <1>1, <1>2, <2>1, <2>2 DEF Checked
  <2>4. Len(Stack) \in Nat
    BY Typed DEF Control
  <2>5. /\ level' \in 0..Len(Stack) /\ delivered' \in Seq(Messages)
        /\ observed' \in [1..Len(Stack) -> Seq(Messages)]
    BY <1>1, <2>3, <2>4 DEF Control, Types
  <2>. QED BY <1>1, <2>1, <2>3, <2>5, PassOnControl
<1>3. CASE ~Verified
  <2>1. Return("ChecksumMismatch")
    BY <1>3 DEF FrameRead
  <2>. QED BY <1>1, <2>1, ReturnBehindControl DEF Results
<1>. QED BY <1>2, <1>3

\* The bytes lent to a callback or to the application are a payload's.
LEMMA LentTypes ==
    ASSUME Control, pc = "adapt"
    PROVE  /\ Lent = Observed /\ Len(Lent) = declared /\ Message(start, Lent) \in Messages
           /\ \A k \in 1..declared : Lent[k] = start + HeaderLen + (k - 1)
<1>1. /\ buffer \in Bytes /\ declared \in Nat /\ declared <= Len(buffer) /\ Len(buffer) \in Nat
      /\ start \in Nat /\ HeaderLen \in Nat /\ pos = start + HeaderLen + declared
  BY Typed DEF Control, Types, TypeOK, Cursor, Bytes
<1>2. /\ Lent \in Bytes /\ Len(Lent) = declared
      /\ \A k \in 1..declared : Lent[k] = buffer[k]
  BY <1>1, SubSeqProperties DEF Lent, Bytes
<1>3. pos - (start + HeaderLen) = declared
  BY <1>1
<1>4. \A k \in 1..declared : buffer[k] = start + HeaderLen + (k - 1)
  BY <1>3 DEF Control, Filled
<1>. QED BY <1>1, <1>2, <1>4 DEF Observed, Lent, Message, Messages

\* What is left of Checked by the steps that leave the frame alone.
LEMMA StillVerified ==
    ASSUME Control, pc = "adapt", UNCHANGED <<sourceVars, readVars>>
    PROVE  /\ Verified' /\ (IsFrame(start, declared))' = IsFrame(start, declared)
           /\ (FrameAt(start))' = FrameAt(start)
<1>1. \A p, n : IsFrame(p, n)' = IsFrame(p, n) /\ FrameAt(p)' = FrameAt(p)
  BY Fixed DEF sourceVars
<1>2. Verified
  BY DEF Control, Checked
<1>. QED BY <1>1, <1>2 DEF Verified, readVars, sourceVars

\* An adapter that validates.
LEMMA ValidateControl == ASSUME Control, Validate PROVE Control'
<1>1. /\ pc = "adapt" /\ level < Len(Stack) /\ Stack[level + 1] = "validate"
      /\ UNCHANGED <<sourceVars, readVars, buffer, delivered, observed, faults>>
      /\ level \in Nat /\ Len(Stack) \in Nat
  BY Typed DEF Validate, Control
<1>2. PICK ok \in Verdicts :
         IF ok THEN level' = level + 1 /\ UNCHANGED <<pc, result>>
               ELSE Return("ValidationFailed") /\ UNCHANGED level
  BY DEF Validate
<1>3. CASE ok
  <2>1. level' \in 0..Len(Stack) /\ pc' = "adapt" /\ result' = result
    BY <1>1, <1>2, <1>3
  <2>2. IsFrame(start, declared) => FrameAt(start).valid
    BY <1>2, <1>3 DEF Verdicts
  <2>3. Checked'
    BY <1>1, <2>1, <2>2, StillVerified DEF Checked
  <2>4. delivered' \in Seq(Messages) /\ observed' \in [1..Len(Stack) -> Seq(Messages)]
    BY <1>1 DEF Control, Types
  <2>. QED BY <1>1, <2>1, <2>3, <2>4, PassOnControl
<1>4. CASE ~ok
  <2>1. Return("ValidationFailed") /\ level' = level
    BY <1>2, <1>4
  <2>2. "ValidationFailed" \in Results \ {"None", "UnexpectedEof", "InvalidFrame", "Io"}
    BY DEF Results
  <2>. QED BY <1>1, <2>1, <2>2, ReturnBehindControl
<1>. QED BY <1>3, <1>4

\* An adapter that observes.
LEMMA ObserveControl == ASSUME Control, Observe PROVE Control'
<1>1. /\ pc = "adapt" /\ pc' = "adapt" /\ level < Len(Stack) /\ Stack[level + 1] = "observe"
      /\ level' = level + 1
      /\ observed' = [observed EXCEPT ![level + 1] = Append(@, Message(start, Observed))]
      /\ UNCHANGED <<sourceVars, readVars, buffer, result, delivered, faults>>
      /\ level \in Nat /\ Len(Stack) \in Nat
  BY Typed DEF Observe, Control
<1>2. level' \in 0..Len(Stack) /\ level + 1 \in 1..Len(Stack) /\ level' \in Nat
  BY <1>1
<1>3. delivered' \in Seq(Messages) /\ observed' \in [1..Len(Stack) -> Seq(Messages)]
  <2>1. Message(start, Observed) \in Messages
    BY <1>1, LentTypes
  <2>2. Append(observed[level + 1], Message(start, Observed)) \in Seq(Messages)
    BY <1>2, <2>1, AppendProperties DEF Control, Types
  <2>. QED BY <1>1, <1>2, <2>2 DEF Control, Types
<1>4. Checked'
  <2>1. (\E j \in 1..level' : Stack[j] = "validate") => \E j \in 1..level : Stack[j] = "validate"
    BY <1>1
  <2>2. IsFrame(start, declared) /\ (\E j \in 1..level : Stack[j] = "validate")
           => FrameAt(start).valid
    BY <1>1 DEF Control, Checked
  <2>. QED BY <1>1, <2>1, <2>2, StillVerified DEF Checked
<1>. QED BY <1>1, <1>2, <1>3, <1>4, PassOnControl

\* The payload is handed to the application, or is no root of the type it reads.
LEMMA DeliverControl == ASSUME Control, Deliver \/ DeliverTyped PROVE Control'
<1>1. /\ pc = "adapt"
      /\ UNCHANGED <<sourceVars, readVars, buffer, level, observed, faults>>
      /\ HandOver \/ (Return("FlatbuffersError") /\ delivered' = delivered)
  BY DEF Deliver, DeliverTyped
<1>2. CASE HandOver
  <2>1. pc' = "handler" /\ delivered' = Append(delivered, Message(start, Lent)) /\ result' = result
    BY <1>2 DEF HandOver
  <2>2. delivered' \in Seq(Messages)
    BY <1>1, <2>1, LentTypes, AppendProperties DEF Control, Types
  <2>3. level' \in 0..Len(Stack) /\ observed' \in [1..Len(Stack) -> Seq(Messages)]
    BY <1>1 DEF Control, Types, TypeOK
  <2>4. Checked'
    BY <2>1 DEF Checked
  <2>. QED BY <1>1, <2>1, <2>2, <2>3, <2>4, PassOnControl
<1>3. CASE Return("FlatbuffersError") /\ delivered' = delivered
  <2>1. "FlatbuffersError" \in Results \ {"None", "UnexpectedEof", "InvalidFrame", "Io"}
    BY DEF Results
  <2>. QED BY <1>1, <1>3, <2>1, ReturnBehindControl
<1>. QED BY <1>1, <1>2, <1>3

\* The application is done with the payload.
LEMMA HandledControl == ASSUME Control, Handled PROVE Control'
<1>1. /\ pc = "handler"
      /\ UNCHANGED <<sourceVars, readVars, buffer, level, delivered, observed, faults>>
      /\ Return("Some") \/ Return("Handler")
  BY DEF Handled
<1>2. {"Some", "Handler"} \subseteq Results \ {"None", "UnexpectedEof", "InvalidFrame", "Io"}
  BY DEF Results
<1>. QED BY <1>1, <1>2, ReturnBehindControl

\* Every step keeps Control.
LEMMA ControlStep == ASSUME Control, [Next]_vars PROVE Control'
<1>1. CASE SourceStep
  BY <1>1, SourceControl
<1>2. CASE SourceFails
  BY <1>2, SourceFailsControl
<1>3. CASE ReaderStep
  <2>1. ASSUME NEW n \in 1..(StreamEnd - pos), ReadSome(n) PROVE Control'
    <3>1. n \in Nat \ {0}
      BY Typed DEF Control
    <3>. QED BY <2>1, <3>1, ReadSomeControl
  <2>. QED BY <1>3, <2>1, StartReadControl, EndOfStreamControl, ParseHeaderControl,
              FrameReadControl, ValidateControl, ObserveControl, DeliverControl,
              HandledControl DEF ReaderStep
<1>4. CASE UNCHANGED vars
  <2>1. /\ HeaderLen' = HeaderLen /\ StreamEnd' = StreamEnd /\ Boundaries' = Boundaries
        /\ \A p, n : /\ Decoded(p)' = Decoded(p) /\ FrameAt(p)' = FrameAt(p)
                     /\ IsFrame(p, n)' = IsFrame(p, n)
    BY <1>4, Fixed DEF vars, sourceVars
  <2>2. Types' /\ Cursor' /\ Filled'
    BY <1>4, <2>1 DEF Control, Types, TypeOK, Cursor, Filled, vars, sourceVars, readVars, outVars
  <2>3. Aligned' /\ Checked'
    BY <1>4, <2>1 DEF Control, Aligned, Derailing, Checked, Verified,
                      vars, sourceVars, readVars, outVars
  <2>. QED BY <2>2, <2>3 DEF Control
<1>. QED BY <1>1, <1>2, <1>3, <1>4 DEF Next

-----------------------------------------------------------------------------
(* The frames dealt with.                                                  *)

\* The frames that end before a given offset.
Before(p) == {j \in 1..Len(sent) : StartOf[j + 1] <= p}

\* The frames that have ended at an offset within frame i, or at its end.
LEMMA EndedWithin ==
    ASSUME Wire, NEW i \in 1..Len(sent), NEW p \in Nat, StartOf[i] <= p, p <= StartOf[i + 1]
    PROVE  /\ Before(StartOf[i]) \subseteq Before(p)
           /\ Before(p) = Before(StartOf[i]) \cup (IF p = StartOf[i + 1] THEN {i} ELSE {})
<1>1. Len(sent) \in Nat /\ \A j \in 1..(Len(sent) + 1) : StartOf[j] \in Nat
  BY FrameSizes, Order
<1>2. ASSUME NEW j \in 1..Len(sent)
      PROVE  /\ j + 1 \in 1..(Len(sent) + 1) /\ StartOf[j + 1] \in Nat /\ StartOf[i] \in Nat
             /\ StartOf[i + 1] \in Nat
             /\ j < i => StartOf[j + 1] <= StartOf[i]
             /\ i < j => StartOf[i + 1] < StartOf[j + 1]
             /\ StartOf[i] < StartOf[i + 1]
  <2>1. /\ j + 1 \in 1..(Len(sent) + 1) /\ i + 1 \in 1..(Len(sent) + 1)
        /\ i \in 1..(Len(sent) + 1)
    BY <1>1
  <2>2. \A a, b \in 1..(Len(sent) + 1) : a < b => StartOf[a] < StartOf[b]
    BY Order
  <2>3. StartOf[i] < StartOf[i + 1] /\ (i < j => StartOf[i + 1] < StartOf[j + 1])
    BY <2>1, <2>2
  <2>4. j < i => j + 1 = i \/ StartOf[j + 1] < StartOf[i]
    BY <2>1, <2>2
  <2>. QED BY <1>1, <2>1, <2>3, <2>4
<1>3. ASSUME NEW j \in 1..Len(sent)
      PROVE  /\ StartOf[j + 1] <= StartOf[i] => StartOf[j + 1] <= p
             /\ StartOf[j + 1] <= p =>
                   \/ StartOf[j + 1] <= StartOf[i]
                   \/ j = i /\ p = StartOf[i + 1]
             /\ j = i /\ p = StartOf[i + 1] => StartOf[j + 1] <= p
  BY <1>2
<1>. QED BY <1>3 DEF Before

\* Those of them that pass.
LEMMA PassingBefore ==
    ASSUME NEW k, NEW p
    PROVE  Passing(k, p) = {j \in Before(p) : Passes(sent[j], k)}
BY DEF Passing, Before

\* Nothing more passes on the way to the end of a frame that does not pass.
LEMMA NoMorePass ==
    ASSUME Wire, NEW i \in 1..Len(sent), NEW p \in Nat, StartOf[i] <= p, p <= StartOf[i + 1],
           NEW k, p = StartOf[i + 1] => ~Passes(sent[i], k)
    PROVE  Passing(k, p) = Passing(k, StartOf[i])
<1>1. Before(p) = Before(StartOf[i]) \cup (IF p = StartOf[i + 1] THEN {i} ELSE {})
  BY EndedWithin
<1>. QED BY <1>1, PassingBefore

\* One more does at the end of one that does.
LEMMA OneMorePasses ==
    ASSUME Wire, NEW i \in 1..Len(sent), NEW k, Passes(sent[i], k)
    PROVE  Passing(k, StartOf[i + 1]) = Passing(k, StartOf[i]) \cup {i}
<1>1. /\ StartOf[i + 1] \in Nat /\ StartOf[i] <= StartOf[i + 1]
  <2>1. Len(sent) \in Nat /\ HeaderLen \in Nat /\ sent[i].plen \in Nat
    BY FrameSizes
  <2>2. i \in 1..(Len(sent) + 1) /\ i + 1 \in 1..(Len(sent) + 1)
    BY <2>1
  <2>. QED BY <2>1, <2>2, Order
<1>2. Before(StartOf[i + 1]) = Before(StartOf[i]) \cup {i}
  BY <1>1, EndedWithin
<1>. QED BY <1>2, PassingBefore

\* What is wanted only grows.
LEMMA WantedGrows ==
    ASSUME Wire, NEW p \in Nat, NEW q \in Nat, p <= q
    PROVE  Wanted(p) \subseteq Wanted(q)
<1>1. \A j \in 1..Len(sent) : StartOf[j + 1] \in Nat
  BY FrameSizes, Order
<1>. QED BY <1>1 DEF Wanted, Passing

\* A frame as a message.
LEMMA FrameMessages == ASSUME Wire, NEW i \in 1..Len(sent) PROVE AsMessage(i) \in Messages
<1> DEFINE bytes == [k \in 1..sent[i].plen |-> StartOf[i] + HeaderLen + (k - 1)]
<1>1. StartOf[i] \in Nat /\ HeaderLen \in Nat /\ sent[i].plen \in Nat
  <2>1. Len(sent) \in Nat /\ i \in 1..(Len(sent) + 1)
    BY FrameSizes
  <2>. QED BY <2>1, FrameSizes, Order
<1>2. \A k \in 1..sent[i].plen : StartOf[i] + HeaderLen + (k - 1) \in Nat
  BY <1>1
<1>3. bytes \in [1..sent[i].plen -> Nat \cup {Zero}]
  BY <1>2
<1>4. bytes \in Bytes
  <2>. HIDE DEF bytes
  <2>. QED BY <1>1, <1>3, SeqDef DEF Bytes
<1>. QED BY <1>1, <1>4 DEF AsMessage, Message, Messages

\* A frame behind those that a sequence of messages is made of, at its end.
LEMMA AppendFrame ==
    ASSUME Wire, NEW i \in 1..Len(sent), NEW messages \in Seq(Messages), InOrder(messages),
           Range(messages) \subseteq {AsMessage(j) : j \in Before(StartOf[i])}
    PROVE  /\ InOrder(Append(messages, AsMessage(i)))
           /\ Range(Append(messages, AsMessage(i))) = Range(messages) \cup {AsMessage(i)}
<1> DEFINE longer == Append(messages, AsMessage(i))
<1>1. /\ Len(messages) \in Nat /\ DOMAIN messages = 1..Len(messages)
      /\ DOMAIN longer = 1..(Len(messages) + 1) /\ longer[Len(messages) + 1] = AsMessage(i)
      /\ \A a \in 1..Len(messages) : longer[a] = messages[a]
  <2>1. Len(messages) \in Nat /\ DOMAIN messages = 1..Len(messages)
    BY LenProperties
  <2>2. /\ longer \in Seq(Messages) /\ Len(longer) = Len(messages) + 1
        /\ longer[Len(messages) + 1] = AsMessage(i)
        /\ \A a \in 1..Len(messages) : longer[a] = messages[a]
    BY FrameMessages, AppendProperties
  <2>. HIDE DEF longer
  <2>. QED BY <2>1, <2>2, LenProperties
<1>2. ASSUME NEW a \in DOMAIN messages PROVE messages[a].from < StartOf[i]
  <2>1. PICK j \in Before(StartOf[i]) : messages[a] = AsMessage(j)
    BY DEF Range
  <2>2. messages[a].from = StartOf[j]
    BY <2>1 DEF AsMessage, Message
  <2>3. /\ Len(sent) \in Nat /\ j \in 1..Len(sent) /\ StartOf[j + 1] <= StartOf[i]
    BY FrameSizes DEF Before
  <2>4. /\ j \in 1..(Len(sent) + 1) /\ j + 1 \in 1..(Len(sent) + 1)
        /\ i \in 1..(Len(sent) + 1) /\ j < j + 1
    BY <2>3
  <2>5. /\ StartOf[j] < StartOf[j + 1]
        /\ StartOf[j] \in Nat /\ StartOf[j + 1] \in Nat /\ StartOf[i] \in Nat
    BY <2>4, Order
  <2>. QED BY <2>2, <2>3, <2>5
<1>3. AsMessage(i).from = StartOf[i]
  BY DEF AsMessage, Message
<1>4. InOrder(longer)
  <2>1. SUFFICES ASSUME NEW a \in 1..(Len(messages) + 1), NEW b \in 1..(Len(messages) + 1), a < b
                 PROVE  longer[a].from < longer[b].from
    BY <1>1 DEF InOrder
  <2>2. a \in 1..Len(messages)
    BY <1>1, <2>1
  <2>3. CASE b = Len(messages) + 1
    BY <1>1, <1>2, <1>3, <2>2, <2>3
  <2>4. CASE b # Len(messages) + 1
    <3>1. b \in 1..Len(messages)
      BY <1>1, <2>4
    <3>2. messages[a].from < messages[b].from
      BY <1>1, <2>1, <2>2, <3>1 DEF InOrder
    <3>. QED BY <1>1, <2>2, <3>1, <3>2
  <2>. QED BY <2>3, <2>4
<1>5. Range(longer) = Range(messages) \cup {AsMessage(i)}
  <2>. HIDE DEF longer
  <2>1. DOMAIN longer = DOMAIN messages \cup {Len(messages) + 1}
    BY <1>1
  <2>. QED BY <1>1, <2>1 DEF Range
<1>. QED BY <1>4, <1>5

\* The same of messages that are exactly some frames.
LEMMA ExactlyOneMore ==
    ASSUME Wire, NEW i \in 1..Len(sent), NEW messages \in Seq(Messages),
           NEW frames \in SUBSET Before(StartOf[i]), Exactly(messages, frames)
    PROVE  Exactly(Append(messages, AsMessage(i)), frames \cup {i})
<1>1. InOrder(messages) /\ Range(messages) = {AsMessage(j) : j \in frames}
  BY DEF Exactly
<1>2. /\ InOrder(Append(messages, AsMessage(i)))
      /\ Range(Append(messages, AsMessage(i))) = Range(messages) \cup {AsMessage(i)}
  BY <1>1, AppendFrame
<1>. QED BY <1>1, <1>2 DEF Exactly

\* A frame that has come as far as `level` adapters is one that passes them, and the bytes
\* lent are its own.
LEMMA Arrived ==
    ASSUME Control, pc = "adapt", ~derailed \/ sumLen > 0
    PROVE  \E i \in 1..Len(sent) :
              /\ start = StartOf[i] /\ pos = StartOf[i + 1] /\ declared = sent[i].plen
              /\ IsFrame(start, declared) /\ FrameAt(start) = sent[i]
              /\ Passes(sent[i], level) /\ Message(start, Lent) = AsMessage(i)
<1>1. /\ Wire /\ sumLen \in Nat /\ level \in Nat /\ start \in Nat /\ HeaderLen \in Nat
      /\ pos = start + HeaderLen + declared /\ declared <= MaxFrameLen
  BY Typed, FrameSizes DEF Control, Cursor
<1>2. Verified /\ (IsFrame(start, declared) /\ (\E j \in 1..level : Stack[j] = "validate")
                      => FrameAt(start).valid)
  BY DEF Control, Checked
<1>3. IsFrame(start, declared)
  <2>1. CASE ~derailed
    BY <2>1, Framed
  <2>2. CASE sumLen > 0
    BY <1>1, <1>2, <2>2 DEF Verified
  <2>. QED BY <2>1, <2>2
<1>4. PICK i \in 1..Len(sent) : start = StartOf[i]
  BY <1>3 DEF IsFrame, FrameIndices
<1>5. FrameAt(start) = sent[i] /\ declared = sent[i].plen /\ pos = StartOf[i + 1]
  BY <1>1, <1>3, <1>4, Located, Order DEF IsFrame
<1>6. Passes(sent[i], level)
  BY <1>1, <1>2, <1>3, <1>5 DEF Passes, Verified
<1>7. Message(start, Lent) = AsMessage(i)
  <2>1. /\ Len(Lent) = declared /\ Message(start, Lent) \in Messages
        /\ \A k \in 1..declared : Lent[k] = start + HeaderLen + (k - 1)
    BY LentTypes
  <2>2. Lent \in Bytes
    BY <2>1 DEF Message, Messages
  <2>3. Lent = [k \in 1..declared |-> start + HeaderLen + (k - 1)]
    BY <2>1, <2>2, LenProperties DEF Bytes
  <2>. QED BY <1>4, <1>5, <2>3 DEF AsMessage
<1>. QED BY <1>3, <1>4, <1>5, <1>6, <1>7

-----------------------------------------------------------------------------
(* What has been given away: every step keeps the invariant.               *)

\* The frames do not change, so that what has been given away after a step is measured
\* by the same ones.
LEMMA FixedOut ==
    ASSUME UNCHANGED <<sumLen, api, sent>>
    PROVE  /\ Deliveries' = (~derailed' => Exactly(delivered', Wanted(Reached')))
           /\ GoodDeliveries' =
                (sumLen > 0 => /\ Range(delivered') \subseteq {AsMessage(i) : i \in Wanted(Reached')}
                               /\ InOrder(delivered'))
           /\ Observations' =
                (~derailed' =>
                    \A k \in 1..Len(Stack) :
                        Stack[k] = "observe" =>
                            Exactly(observed'[k], Passing(k - 1, ReachedBy(k)')))
<1>1. /\ \A p, n : Passing(n, p)' = Passing(n, p) /\ Wanted(p)' = Wanted(p)
      /\ \A i : AsMessage(i)' = AsMessage(i)
  BY Fixed
<1>2. Deliveries' = (~derailed' => Exactly(delivered', Wanted(Reached')))
  BY <1>1 DEF Deliveries, Exactly, InOrder
<1>3. GoodDeliveries' =
        (sumLen > 0 => /\ Range(delivered') \subseteq {AsMessage(i) : i \in Wanted(Reached')}
                       /\ InOrder(delivered'))
  BY <1>1 DEF GoodDeliveries, InOrder
<1>4. Observations' =
        (~derailed' => \A k \in 1..Len(Stack) :
            Stack[k] = "observe" => Exactly(observed'[k], Passing(k - 1, ReachedBy(k)')))
  BY <1>1 DEF Observations, Exactly, InOrder
<1>. QED BY <1>2, <1>3, <1>4

\* A step that neither gives away anything nor deals with a frame.
LEMMA SameOut ==
    ASSUME Inv, UNCHANGED <<sumLen, api, sent, delivered, observed>>,
           ~derailed' => ~derailed, Reached' = Reached,
           \A k \in 1..Len(Stack) : Stack[k] = "observe" => ReachedBy(k)' = ReachedBy(k)
    PROVE  Deliveries' /\ GoodDeliveries' /\ Observations'
<1>1. Deliveries' /\ GoodDeliveries'
  BY FixedOut DEF Inv, Deliveries, GoodDeliveries
<1>2. Observations'
  BY FixedOut DEF Inv, Observations
<1>. QED BY <1>1, <1>2

\* A call that returns without a message: the frame it stands in or behind is not wanted,
\* and no observer that has not been called yet was to see it.
LEMMA ReturnOut ==
    ASSUME Inv, UNCHANGED <<sumLen, api, sent, pos, start, derailed, delivered, observed>>,
           pc \in {"probe", "header", "payload", "adapt"}, pc' \in {"idle", "over"},
           \A i \in 1..Len(sent) :
              ~derailed /\ pc # "probe" /\ start = StartOf[i] /\ pos = StartOf[i + 1] =>
                 /\ i \notin Wanted(pos)
                 /\ \A k \in 1..Len(Stack) :
                       Stack[k] = "observe" /\ ~(pc = "adapt" /\ k <= level)
                          => ~Passes(sent[i], k - 1)
    PROVE  Deliveries' /\ GoodDeliveries' /\ Observations'
<1>1. /\ Reached = start /\ Reached' = pos
      /\ \A k \in 1..Len(Stack) :
            /\ ReachedBy(k) = IF pc = "adapt" /\ k <= level THEN pos ELSE start
            /\ ReachedBy(k)' = pos
  BY DEF Reached, ReachedBy
<1>2. Wire /\ start \in Nat /\ pos \in Nat /\ start <= pos
  BY Typed DEF Inv, Control
<1>3. GoodDeliveries'
  <2>1. Wanted(start) \subseteq Wanted(pos)
    BY <1>2, WantedGrows
  <2>. QED BY <1>1, <2>1, FixedOut DEF Inv, GoodDeliveries
<1>4. CASE derailed
  BY <1>3, <1>4, FixedOut
<1>5. CASE ~derailed /\ pc = "probe"
  <2>1. pos = start
    BY <1>5 DEF Inv, Control, Cursor
  <2>2. Deliveries'
    BY <1>1, <1>5, <2>1, FixedOut DEF Inv, Deliveries
  <2>3. Observations'
    BY <1>1, <1>5, <2>1, FixedOut DEF Inv, Observations
  <2>. QED BY <1>3, <2>2, <2>3
<1>6. CASE ~derailed /\ pc # "probe"
  <2>1. PICK i \in 1..Len(sent) : start = StartOf[i] /\ pos <= StartOf[i + 1]
    BY <1>6, Framed DEF Inv
  <2>2. Deliveries'
    <3>1. Before(pos) = Before(start) \cup (IF pos = StartOf[i + 1] THEN {i} ELSE {})
      BY <1>2, <2>1, EndedWithin
    <3>2. Wanted(pos) = Wanted(start)
      BY <1>6, <2>1, <3>1, PassingBefore DEF Wanted
    <3>. QED BY <1>1, <1>6, <3>2, FixedOut DEF Inv, Deliveries
  <2>3. ASSUME NEW k \in 1..Len(Stack), Stack[k] = "observe"
        PROVE  Exactly(observed[k], Passing(k - 1, pos))
    <3>1. Exactly(observed[k], Passing(k - 1, ReachedBy(k)))
      BY <1>6, <2>3 DEF Inv, Observations
    <3>2. CASE pc = "adapt" /\ k <= level
      BY <1>1, <3>1, <3>2
    <3>3. CASE ~(pc = "adapt" /\ k <= level)
      <4>1. pos = StartOf[i + 1] => ~Passes(sent[i], k - 1)
        BY <1>6, <2>1, <2>3, <3>3
      <4>2. Passing(k - 1, pos) = Passing(k - 1, StartOf[i])
        BY <1>2, <2>1, <4>1, NoMorePass
      <4>. QED BY <1>1, <2>1, <3>1, <3>3, <4>2
    <3>. QED BY <3>2, <3>3
  <2>4. Observations'
    BY <1>1, <1>6, <2>3, FixedOut
  <2>. QED BY <1>3, <2>2, <2>4
<1>. QED BY <1>4, <1>5, <1>6

\* The initial states.
LEMMA InitOut == ASSUME Init PROVE Deliveries /\ GoodDeliveries /\ Observations
<1>1. Wire
  BY InitControl, Typed DEF Control
<1>2. Before(0) = {}
  <2>1. \A j \in 1..Len(sent) : StartOf[j + 1] \in Nat /\ StartOf[j + 1] > 0
    <3>1. ASSUME NEW j \in 1..Len(sent) PROVE StartOf[j + 1] \in Nat /\ StartOf[j + 1] > 0
      <4>1. /\ Len(sent) \in Nat /\ HeaderLen \in Nat /\ HeaderLen = 4 + sumLen /\ sumLen \in Nat
            /\ sent[j].plen \in Nat
        BY <1>1, FrameSizes
      <4>2. StartOf[j] \in Nat /\ StartOf[j + 1] = StartOf[j] + HeaderLen + sent[j].plen
        BY <1>1, <4>1, Order
      <4>. QED BY <4>1, <4>2
    <3>. QED BY <3>1
  <2>. QED BY <2>1 DEF Before
<1>3. \A k : Passing(k, 0) = {} /\ Wanted(0) = {}
  BY <1>2, PassingBefore DEF Wanted
<1>4. \A m : m = << >> => Exactly(m, {}) /\ InOrder(m) /\ Range(m) = {}
  BY DEF Exactly, InOrder, Range
<1>5. /\ Reached = 0 /\ delivered = << >>
      /\ \A k \in 1..Len(Stack) : ReachedBy(k) = 0 /\ observed[k] = << >>
  BY DEF Init, Reached, ReachedBy
<1>6. Deliveries /\ GoodDeliveries
  BY <1>3, <1>4, <1>5 DEF Deliveries, GoodDeliveries
<1>7. Observations
  BY <1>3, <1>4, <1>5 DEF Observations
<1>. QED BY <1>6, <1>7

\* The offset the frames are dealt with up to, by the place of the call.
LEMMA Reaches ==
    /\ pc \in {"probe", "header", "payload"} => Reached = start /\ \A k : ReachedBy(k) = start
    /\ pc = "adapt" => Reached = start /\ \A k : ReachedBy(k) = IF k <= level THEN pos ELSE start
    /\ pc \in {"idle", "handler", "over"} => Reached = pos /\ \A k : ReachedBy(k) = pos
BY DEF Reached, ReachedBy

\* The steps that deal with no frame.
LEMMA SourceOut ==
    ASSUME Inv, SourceStep
    PROVE  Deliveries' /\ GoodDeliveries' /\ Observations'
<1>1. UNCHANGED <<sumLen, api, sent, delivered, observed, derailed, pc, pos, start, level>>
  BY DEF SourceStep, Arrive, Close, readVars, outVars
<1>2. Reached' = Reached /\ \A k \in 1..Len(Stack) : ReachedBy(k)' = ReachedBy(k)
  BY <1>1 DEF Reached, ReachedBy
<1>. QED BY <1>1, <1>2, SameOut

\* The beginning of a call, the bytes that come in, and the end of the handler.
LEMMA QuietOut ==
    ASSUME Inv, StartRead \/ (\E n \in Nat : ReadSome(n)) \/ Handled
    PROVE  Deliveries' /\ GoodDeliveries' /\ Observations'
<1>1. CASE StartRead
  <2>1. /\ UNCHANGED <<sumLen, api, sent, delivered, observed>> /\ (~derailed' => ~derailed)
        /\ pc = "idle" /\ pc' = "probe" /\ start' = pos
    BY <1>1 DEF StartRead, sourceVars, outVars
  <2>2. Reached' = Reached /\ \A k \in 1..Len(Stack) : ReachedBy(k)' = ReachedBy(k)
    BY <2>1 DEF Reached, ReachedBy
  <2>. QED BY <2>1, <2>2, SameOut
<1>2. CASE \E n \in Nat : ReadSome(n)
  <2>1. /\ UNCHANGED <<sumLen, api, sent, delivered, observed, derailed>> /\ start' = start
        /\ pc \in {"probe", "header", "payload"} /\ pc' \in {"header", "payload"}
    BY <1>2 DEF ReadSome, sourceVars, outVars
  <2>2. Reached' = Reached /\ \A k \in 1..Len(Stack) : ReachedBy(k)' = ReachedBy(k)
    BY <2>1 DEF Reached, ReachedBy
  <2>. QED BY <2>1, <2>2, SameOut
<1>3. CASE Handled
  <2>1. /\ UNCHANGED <<sumLen, api, sent, delivered, observed, derailed, pos>>
        /\ pc = "handler" /\ pc' \in {"idle", "over"}
    BY <1>3, Returned DEF Handled, sourceVars, readVars, Return, After
  <2>2. Reached' = Reached /\ \A k \in 1..Len(Stack) : ReachedBy(k)' = ReachedBy(k)
    BY <2>1 DEF Reached, ReachedBy
  <2>. QED BY <2>1, <2>2, SameOut
<1>. QED BY <1>1, <1>2, <1>3

\* A read that ends early, whether the stream does or the source fails: inside a frame.
LEMMA CutOut ==
    ASSUME Inv, EndOfStream \/ SourceFails
    PROVE  Deliveries' /\ GoodDeliveries' /\ Observations'
<1>1. /\ UNCHANGED <<sumLen, api, sent, pos, start, derailed, delivered, observed>>
      /\ pc \in {"probe", "header", "payload"} /\ todo > 0 /\ pc' \in {"idle", "over"}
  BY DEF EndOfStream, SourceFails, sourceVars, readVars, Return, After
<1>2. ASSUME NEW i \in 1..Len(sent), ~derailed, pc # "probe", start = StartOf[i],
             pos = StartOf[i + 1]
      PROVE  FALSE
  <2>1. PICK j \in 1..Len(sent) : start = StartOf[j] /\ pos + todo <= StartOf[j + 1]
    <3>1. \A j \in 1..Len(sent) : StartOf[j + 1] \in Nat
      BY Typed, FrameSizes, Order DEF Inv, Control
    <3>2. PICK j \in 1..Len(sent) :
             /\ start = StartOf[j] /\ (pc = "header" => pos + todo <= StartOf[j + 1])
             /\ (pc = "payload" => pos + todo = StartOf[j + 1])
      BY <1>1, <1>2, Framed DEF Inv
    <3>. QED BY <1>1, <1>2, <3>1, <3>2
  <2>2. /\ Wire /\ pos \in Nat /\ todo \in Nat /\ HeaderLen \in Nat
        /\ sent[i].plen = sent[j].plen /\ StartOf[j + 1] = StartOf[j] + HeaderLen + sent[j].plen
        /\ StartOf[i + 1] = StartOf[i] + HeaderLen + sent[i].plen
        /\ sent[j].plen \in Nat /\ start \in Nat
    <3>1. Wire
      BY Typed DEF Inv, Control
    <3>2. sent[i].plen = sent[j].plen
      BY <1>2, <2>1, <3>1, Located
    <3>3. pos \in Nat /\ todo \in Nat /\ HeaderLen \in Nat /\ start \in Nat
      BY Typed DEF Inv, Control
    <3>4. /\ StartOf[j + 1] = StartOf[j] + HeaderLen + sent[j].plen
          /\ StartOf[i + 1] = StartOf[i] + HeaderLen + sent[i].plen
      BY <3>1, Order
    <3>5. sent[j].plen \in Nat
      BY <3>1, FrameSizes
    <3>. QED BY <3>1, <3>2, <3>3, <3>4, <3>5
  <2>3. /\ pos = start + HeaderLen + sent[j].plen
        /\ pos + todo <= start + HeaderLen + sent[j].plen
    BY <1>2, <2>1, <2>2
  <2>4. todo > 0
    BY <1>1
  <2>. QED BY <2>2, <2>3, <2>4
<1>. QED BY <1>1, <1>2, ReturnOut

\* The header is in: a frame whose length is over the limit does not pass.
LEMMA ParseHeaderOut ==
    ASSUME Inv, ParseHeader
    PROVE  Deliveries' /\ GoodDeliveries' /\ Observations'
<1>1. /\ UNCHANGED <<sumLen, api, sent, pos, start, derailed, delivered, observed, level>>
      /\ pc = "header" /\ declared' \in Decoded(start)
  BY DEF ParseHeader, sourceVars
<1>2. CASE declared' > MaxFrameLen
  <2>1. pc' \in {"idle", "over"}
    BY <1>2 DEF ParseHeader, Return, After
  <2>2. ASSUME NEW i \in 1..Len(sent), start = StartOf[i], NEW k PROVE ~Passes(sent[i], k)
    <3>1. Wire /\ MaxFrameLen \in Nat
      BY Typed, SessionAssumption DEF Inv, Control
    <3>2. declared' = sent[i].plen /\ sent[i].plen \in Nat
      BY <1>1, <2>2, <3>1, Located, FrameSizes
    <3>. QED BY <1>2, <3>1, <3>2 DEF Passes
  <2>3. \A i \in 1..Len(sent) : start = StartOf[i] => i \notin Wanted(pos)
    BY <2>2 DEF Wanted, Passing
  <2>. QED BY <1>1, <2>1, <2>2, <2>3, ReturnOut
<1>3. CASE ~(declared' > MaxFrameLen)
  <2>1. pc' = "payload"
    BY <1>3 DEF ParseHeader
  <2>2. Reached' = Reached /\ \A k \in 1..Len(Stack) : ReachedBy(k)' = ReachedBy(k)
    BY <1>1, <2>1 DEF Reached, ReachedBy
  <2>. QED BY <1>1, <2>2, SameOut
<1>. QED BY <1>2, <1>3

\* The payload is in: a damaged one does not pass.
LEMMA FrameReadOut ==
    ASSUME Inv, FrameRead
    PROVE  Deliveries' /\ GoodDeliveries' /\ Observations'
<1>1. /\ UNCHANGED <<sumLen, api, sent, pos, start, derailed, delivered, observed, level>>
      /\ pc = "payload" /\ level = 0
  BY DEF FrameRead, sourceVars, readVars, Inv, Control, Checked
<1>2. CASE Verified
  <2>1. pc' = "adapt"
    BY <1>2 DEF FrameRead
  <2>2. \A k \in 1..Len(Stack) : ~(k <= level')
    BY <1>1, Typed DEF Inv, Control
  <2>3. Reached' = Reached /\ \A k \in 1..Len(Stack) : ReachedBy(k)' = ReachedBy(k)
    BY <1>1, <2>1, <2>2 DEF Reached, ReachedBy
  <2>. QED BY <1>1, <2>3, SameOut
<1>3. CASE ~Verified
  <2>1. pc' \in {"idle", "over"}
    BY <1>3 DEF FrameRead, Return, After
  <2>2. ASSUME NEW i \in 1..Len(sent), ~derailed, start = StartOf[i], NEW k
        PROVE  ~Passes(sent[i], k)
    <3>1. FrameAt(start) = sent[i] /\ IsFrame(start, declared)
      BY <1>1, <2>2, Framed, Located, Typed DEF Inv, Control
    <3>2. sumLen # 0 /\ ~sent[i].intact
      BY <1>3, <3>1 DEF Verified
    <3>. QED BY <3>2 DEF Passes
  <2>3. \A i \in 1..Len(sent) : ~derailed /\ start = StartOf[i] => i \notin Wanted(pos)
    BY <2>2 DEF Wanted, Passing
  <2>. QED BY <1>1, <2>1, <2>2, <2>3, ReturnOut
<1>. QED BY <1>2, <1>3

\* A validator refuses only what does not pass it.
LEMMA ValidateOut ==
    ASSUME Inv, Validate
    PROVE  Deliveries' /\ GoodDeliveries' /\ Observations'
<1>1. /\ UNCHANGED <<sumLen, api, sent, pos, start, derailed, delivered, observed>>
      /\ pc = "adapt" /\ level < Len(Stack) /\ Stack[level + 1] = "validate"
      /\ level \in Nat /\ Len(Stack) \in Nat /\ Wire
  BY Typed DEF Validate, sourceVars, readVars, Inv, Control
<1>2. PICK ok \in Verdicts :
         IF ok THEN level' = level + 1 /\ UNCHANGED <<pc, result>>
               ELSE Return("ValidationFailed") /\ UNCHANGED level
  BY DEF Validate
<1>3. CASE ok
  <2>1. ASSUME NEW k \in 1..Len(Stack), Stack[k] = "observe" PROVE (k <= level') = (k <= level)
    <3>1. k # level + 1
      BY <1>1, <2>1
    <3>. QED BY <1>1, <1>2, <1>3, <3>1
  <2>2. /\ Reached' = Reached
        /\ \A k \in 1..Len(Stack) : Stack[k] = "observe" => ReachedBy(k)' = ReachedBy(k)
    BY <1>1, <1>2, <1>3, <2>1 DEF Reached, ReachedBy
  <2>. QED BY <1>1, <2>2, SameOut
<1>4. CASE ~ok
  <2>1. pc' \in {"idle", "over"}
    BY <1>2, <1>4 DEF Return, After
  <2>2. ASSUME NEW i \in 1..Len(sent), ~derailed, start = StartOf[i], NEW k \in Int, level < k
        PROVE  ~Passes(sent[i], k)
    <3>1. FrameAt(start) = sent[i] /\ IsFrame(start, declared)
      BY <1>1, <2>2, Framed, Located DEF Inv
    <3>2. ~sent[i].valid
      BY <1>2, <1>4, <3>1 DEF Verdicts
    <3>3. level + 1 \in 1..k
      BY <1>1, <2>2
    <3>. QED BY <1>1, <3>2, <3>3 DEF Passes
  <2>3. ASSUME NEW i \in 1..Len(sent), ~derailed, start = StartOf[i]
        PROVE  /\ i \notin Wanted(pos)
               /\ \A k \in 1..Len(Stack) :
                     Stack[k] = "observe" /\ ~(pc = "adapt" /\ k <= level)
                        => ~Passes(sent[i], k - 1)
    <3>1. ~Passes(sent[i], Len(Stack))
      BY <1>1, <2>2, <2>3
    <3>2. ASSUME NEW k \in 1..Len(Stack), Stack[k] = "observe", ~(k <= level)
          PROVE  ~Passes(sent[i], k - 1)
      <4>1. k # level + 1
        BY <1>1, <3>2
      <4>2. k - 1 \in Int /\ level < k - 1
        BY <1>1, <3>2, <4>1
      <4>. QED BY <2>2, <2>3, <4>2
    <3>. QED BY <1>1, <3>1, <3>2 DEF Wanted, Passing
  <2>. QED BY <1>1, <2>1, <2>3, ReturnOut
<1>. QED BY <1>3, <1>4

\* An observer is called with the frame that has passed the adapters inside it.
LEMMA ObserveOut ==
    ASSUME Inv, Observe
    PROVE  Deliveries' /\ GoodDeliveries' /\ Observations'
<1>1. /\ UNCHANGED <<sumLen, api, sent, pos, start, derailed, delivered>>
      /\ pc = "adapt" /\ pc' = "adapt" /\ level < Len(Stack) /\ level' = level + 1
      /\ observed' = [observed EXCEPT ![level + 1] = Append(@, Message(start, Observed))]
      /\ level \in Nat /\ Len(Stack) \in Nat /\ Wire /\ start \in Nat
      /\ observed \in [1..Len(Stack) -> Seq(Messages)]
  BY Typed DEF Observe, sourceVars, readVars, Inv, Control, Types
<1>2. Reached' = Reached
  BY <1>1 DEF Reached
<1>3. Deliveries' /\ GoodDeliveries'
  BY <1>1, <1>2, FixedOut DEF Inv, Deliveries, GoodDeliveries
<1>4. ASSUME ~derailed, NEW k \in 1..Len(Stack), Stack[k] = "observe"
      PROVE  Exactly(observed'[k], Passing(k - 1, ReachedBy(k)'))
  <2>1. Exactly(observed[k], Passing(k - 1, ReachedBy(k)))
    BY <1>4 DEF Inv, Observations
  <2>2. CASE k # level + 1
    <3>1. observed'[k] = observed[k] /\ (k <= level') = (k <= level)
      BY <1>1, <2>2
    <3>2. ReachedBy(k)' = ReachedBy(k)
      BY <1>1, <3>1 DEF Reached, ReachedBy
    <3>. QED BY <2>1, <3>1, <3>2
  <2>3. CASE k = level + 1
    <3>1. PICK i \in 1..Len(sent) :
             /\ start = StartOf[i] /\ pos = StartOf[i + 1] /\ Passes(sent[i], level)
             /\ Message(start, Lent) = AsMessage(i)
      BY <1>1, <1>4, Arrived DEF Inv
    <3>2. ReachedBy(k) = start /\ ReachedBy(k)' = pos /\ k - 1 = level
      BY <1>1, <2>3 DEF Reached, ReachedBy
    <3>3. observed'[k] = Append(observed[k], AsMessage(i))
      <4>1. Message(start, Observed) = AsMessage(i)
        BY <1>1, <3>1, LentTypes DEF Inv
      <4>. QED BY <1>1, <2>3, <4>1
    <3>4. Passing(level, pos) = Passing(level, StartOf[i]) \cup {i}
      BY <1>1, <3>1, OneMorePasses
    <3>5. Passing(level, StartOf[i]) \in SUBSET Before(StartOf[i])
      BY PassingBefore
    <3>6. Exactly(observed[k], Passing(level, StartOf[i])) /\ observed[k] \in Seq(Messages)
      BY <1>1, <2>1, <3>1, <3>2
    <3>7. Exactly(Append(observed[k], AsMessage(i)), Passing(level, StartOf[i]) \cup {i})
      BY <1>1, <3>5, <3>6, ExactlyOneMore
    <3>. QED BY <3>2, <3>3, <3>4, <3>7
  <2>. QED BY <2>2, <2>3
<1>5. Observations'
  BY <1>1, <1>4, FixedOut
<1>. QED BY <1>3, <1>5

\* The application is given the frames that pass all adapters, and of these those with a
\* root if it reads typed.
LEMMA HandOverOut ==
    ASSUME Inv, Deliver \/ DeliverTyped, HandOver
    PROVE  Deliveries' /\ GoodDeliveries' /\ Observations'
<1>1. /\ UNCHANGED <<sumLen, api, sent, pos, start, derailed, observed>>
      /\ pc = "adapt" /\ pc' = "handler" /\ level = Len(Stack)
      /\ delivered' = Append(delivered, Message(start, Lent))
      /\ delivered \in Seq(Messages) /\ Wire /\ start \in Nat
  BY Typed DEF Deliver, DeliverTyped, HandOver, sourceVars, readVars, Inv, Control, Types
<1>2. /\ Reached = start /\ Reached' = pos
      /\ \A k \in 1..Len(Stack) : ReachedBy(k)' = ReachedBy(k)
  <2>1. \A k \in 1..Len(Stack) : k <= level
    BY <1>1, Typed DEF Inv, Control
  <2>. QED BY <1>1, <2>1 DEF Reached, ReachedBy
<1>3. ASSUME ~derailed \/ sumLen > 0
      PROVE  \E i \in 1..Len(sent) :
                /\ start = StartOf[i] /\ delivered' = Append(delivered, AsMessage(i))
                /\ Wanted(pos) = Wanted(StartOf[i]) \cup {i}
                /\ Wanted(StartOf[i]) \in SUBSET Before(StartOf[i])
  <2>1. PICK i \in 1..Len(sent) :
           /\ start = StartOf[i] /\ pos = StartOf[i + 1] /\ IsFrame(start, declared)
           /\ FrameAt(start) = sent[i] /\ Passes(sent[i], Len(Stack))
           /\ Message(start, Lent) = AsMessage(i)
    BY <1>1, <1>3, Arrived DEF Inv
  <2>2. api = "raw" \/ sent[i].root
    <3>1. CASE Deliver
      BY <3>1 DEF Deliver
    <3>2. CASE DeliverTyped
      <4>1. ASSUME Return("FlatbuffersError") PROVE FALSE
        BY <1>1, <4>1 DEF Return, After
      <4>2. PICK ok \in Roots :
               IF ok THEN HandOver ELSE Return("FlatbuffersError") /\ UNCHANGED delivered
        BY <3>2 DEF DeliverTyped
      <4>3. ok = sent[i].root /\ ok
        BY <2>1, <4>1, <4>2 DEF Roots
      <4>. QED BY <4>3
    <3>. QED BY <3>1, <3>2
  <2>3. Passing(Len(Stack), pos) = Passing(Len(Stack), StartOf[i]) \cup {i}
    BY <1>1, <2>1, OneMorePasses
  <2>4. /\ Wanted(pos) = Wanted(StartOf[i]) \cup {i}
        /\ Wanted(StartOf[i]) \in SUBSET Before(StartOf[i])
    BY <2>2, <2>3, PassingBefore DEF Wanted
  <2>. QED BY <1>1, <2>1, <2>4
<1>4. Deliveries'
  <2>1. SUFFICES ASSUME ~derailed PROVE Exactly(delivered', Wanted(pos))
    BY <1>1, <1>2, FixedOut
  <2>2. PICK i \in 1..Len(sent) :
           /\ start = StartOf[i] /\ delivered' = Append(delivered, AsMessage(i))
           /\ Wanted(pos) = Wanted(StartOf[i]) \cup {i}
           /\ Wanted(StartOf[i]) \in SUBSET Before(StartOf[i])
    BY <1>3, <2>1
  <2>3. Exactly(delivered, Wanted(StartOf[i]))
    BY <1>2, <2>1, <2>2 DEF Inv, Deliveries
  <2>4. Exactly(Append(delivered, AsMessage(i)), Wanted(StartOf[i]) \cup {i})
    BY <1>1, <2>2, <2>3, ExactlyOneMore
  <2>. QED BY <2>2, <2>4
<1>5. GoodDeliveries'
  <2>1. SUFFICES ASSUME sumLen > 0
                 PROVE  /\ Range(delivered') \subseteq {AsMessage(j) : j \in Wanted(pos)}
                        /\ InOrder(delivered')
    BY <1>1, <1>2, FixedOut
  <2>2. PICK i \in 1..Len(sent) :
           /\ start = StartOf[i] /\ delivered' = Append(delivered, AsMessage(i))
           /\ Wanted(pos) = Wanted(StartOf[i]) \cup {i}
           /\ Wanted(StartOf[i]) \in SUBSET Before(StartOf[i])
    BY <1>3, <2>1
  <2>3. /\ Range(delivered) \subseteq {AsMessage(j) : j \in Wanted(StartOf[i])}
        /\ InOrder(delivered)
    BY <1>2, <2>1, <2>2 DEF Inv, GoodDeliveries
  <2>4. Range(delivered) \subseteq {AsMessage(j) : j \in Before(StartOf[i])}
    BY <2>2, <2>3
  <2>5. /\ InOrder(Append(delivered, AsMessage(i)))
        /\ Range(Append(delivered, AsMessage(i))) = Range(delivered) \cup {AsMessage(i)}
    BY <1>1, <2>3, <2>4, AppendFrame
  <2>. QED BY <2>2, <2>3, <2>5
<1>6. Observations'
  BY <1>1, <1>2, FixedOut DEF Inv, Observations
<1>. QED BY <1>4, <1>5, <1>6

\* A typed reader refuses only what has not the root it reads.
LEMMA DeliverOut ==
    ASSUME Inv, Deliver \/ DeliverTyped
    PROVE  Deliveries' /\ GoodDeliveries' /\ Observations'
<1>1. CASE HandOver
  BY <1>1, HandOverOut
<1>2. CASE ~HandOver
  <2>1. /\ UNCHANGED <<sumLen, api, sent, pos, start, derailed, observed>>
        /\ pc = "adapt" /\ level = Len(Stack) /\ api = "typed"
    BY <1>2 DEF Deliver, DeliverTyped, sourceVars, readVars
  <2>2. PICK ok \in Roots : ~ok /\ Return("FlatbuffersError") /\ delivered' = delivered
    BY <1>2 DEF Deliver, DeliverTyped
  <2>3. pc' \in {"idle", "over"}
    BY <2>2 DEF Return, After
  <2>4. ASSUME NEW i \in 1..Len(sent), ~derailed, start = StartOf[i] PROVE i \notin Wanted(pos)
    <3>1. FrameAt(start) = sent[i] /\ IsFrame(start, declared)
      BY <2>1, <2>4, Framed, Located, Typed DEF Inv, Control
    <3>2. ~sent[i].root
      BY <2>2, <3>1 DEF Roots
    <3>. QED BY <2>1, <3>2 DEF Wanted
  <2>5. \A k \in 1..Len(Stack) : k <= level
    BY <2>1, Typed DEF Inv, Control
  <2>. QED BY <2>1, <2>2, <2>3, <2>4, <2>5, ReturnOut
<1>. QED BY <1>1, <1>2

\* Every step keeps the invariant.
LEMMA InvStep == ASSUME Inv, [Next]_vars PROVE Inv'
<1>1. Control'
  BY ControlStep DEF Inv
<1>2. ASSUME SourceStep \/ SourceFails
      PROVE  Deliveries' /\ GoodDeliveries' /\ Observations'
  BY <1>2, SourceOut, CutOut
<1>3. ASSUME ReaderStep
      PROVE  Deliveries' /\ GoodDeliveries' /\ Observations'
  <2>1. ASSUME NEW n \in 1..(StreamEnd - pos), ReadSome(n)
        PROVE  Deliveries' /\ GoodDeliveries' /\ Observations'
    <3>1. n \in Nat
      BY Typed DEF Inv, Control
    <3>. QED BY <2>1, <3>1, QuietOut
  <2>. QED BY <1>3, <2>1, QuietOut, CutOut, ParseHeaderOut, FrameReadOut, ValidateOut,
              ObserveOut, DeliverOut DEF ReaderStep
<1>4. ASSUME UNCHANGED vars
      PROVE  Deliveries' /\ GoodDeliveries' /\ Observations'
  <2>1. /\ UNCHANGED <<sumLen, api, sent, delivered, observed, derailed>>
        /\ UNCHANGED <<pc, pos, start, level>>
    BY <1>4 DEF vars, sourceVars, readVars, outVars
  <2>2. Reached' = Reached /\ \A k \in 1..Len(Stack) : ReachedBy(k)' = ReachedBy(k)
    BY <2>1 DEF Reached, ReachedBy
  <2>. QED BY <2>1, <2>2, SameOut
<1>. QED BY <1>1, <1>2, <1>3, <1>4 DEF Next, Inv

-----------------------------------------------------------------------------
(* The theorems.                                                           *)

\* The invariant holds of every session.
LEMMA Invariance == Spec => []Inv
<1>1. Init => Inv
  BY InitControl, InitOut DEF Inv
<1>2. Inv /\ [Next]_vars => Inv'
  BY InvStep
<1>. QED BY <1>1, <1>2, PTL DEF Spec

\* The types: among them, that the buffer read_payload has sized always has room for the
\* payload, so that no slice of it is out of range.
THEOREM TypeCorrect == Spec => []TypeOK
<1>1. Inv => TypeOK
  BY DEF Inv, Control, Types
<1>. QED BY <1>1, Invariance, PTL

\* The end of the stream is taken for clean only between two frames (read_header), unless
\* an earlier call has left the reader inside one.
THEOREM CleanEnds == Spec => []CleanEndBetweenFrames
<1>1. Inv => CleanEndBetweenFrames
  BY DEF Inv, Control, Aligned, CleanEndBetweenFrames
<1>. QED BY <1>1, Invariance, PTL

\* The application is given exactly the good frames, as long as no call of read_message
\* starts inside a frame.
THEOREM ExactDelivery == Spec => []DeliversExactly
<1>1. Inv => DeliversExactly
  BY Reaches DEF Inv, Deliveries, DeliversExactly, Settled
<1>. QED BY <1>1, Invariance, PTL

\* Behind a checksum it is never given anything else, wherever its calls start.
THEOREM GoodFramesOnly == Spec => []OnlyGoodFrames
<1>1. ASSUME Inv PROVE OnlyGoodFrames
  <2>1. Wire /\ start \in Nat /\ pos \in Nat /\ start <= pos /\ Reached \in {start, pos}
    BY <1>1, Typed DEF Inv, Control, Reached
  <2>2. Wanted(Reached) \subseteq Wanted(pos)
    BY <2>1, WantedGrows
  <2>. QED BY <1>1, <2>2 DEF Inv, GoodDeliveries, OnlyGoodFrames
<1>. QED BY <1>1, Invariance, PTL

\* Each ObserverDeframer calls back exactly once for each frame that the adapters inside it
\* let pass, with the frame's payload.
THEOREM ExactObservation == Spec => []ObservesExactly
<1>1. Inv => ObservesExactly
  BY Reaches DEF Inv, Observations, ObservesExactly, Settled
<1>. QED BY <1>1, Invariance, PTL

=============================================================================
