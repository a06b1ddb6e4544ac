---------------------------- MODULE IngestProofs ----------------------------
(***************************************************************************)
(* Theorems about the ingest example, for every corpus, number of rows,    *)
(* of runs and of faults.                                                  *)
(***************************************************************************)
EXTENDS Ingest, SequenceTheorems, WellFoundedInduction, TLAPS

-----------------------------------------------------------------------------
(* Halves of frames, stamped in the order they are written in. *)

HalfType == [part : {"header", "payload"}, time : Nat \X Nat]
Halves == Seq(HalfType)

\* The i-th half of a stream written from version v of the corpus.
Stamp(v, i) ==
    [part |-> IF i % 2 = 1 THEN "header" ELSE "payload", time |-> <<v, (i + 1) \div 2>>]

\* h holds the halves of such a stream from the k-th on.
Stamped(h, v, k) == \A i \in 1..Len(h) : h[i] = Stamp(v, k + i)

\* A stamp is a half.
LEMMA StampTypes == ASSUME NEW v \in Nat, NEW i \in Nat \ {0} PROVE Stamp(v, i) \in HalfType
<1>1. (i + 1) \div 2 \in Nat
  OBVIOUS
<1>. QED BY <1>1 DEF Stamp, HalfType

\* Streams that follow one another.
LEMMA StampedConcat ==
    ASSUME NEW h \in Halves, NEW o \in Halves, NEW v \in Nat, NEW k \in Nat,
           Stamped(h, v, k), Stamped(o, v, k + Len(h))
    PROVE  h \o o \in Halves /\ Len(h \o o) = Len(h) + Len(o) /\ Stamped(h \o o, v, k)
<1>1. /\ h \o o \in Halves /\ Len(h \o o) = Len(h) + Len(o) /\ Len(h) \in Nat /\ Len(o) \in Nat
      /\ \A i \in 1..Len(h) + Len(o) : (h \o o)[i] = IF i <= Len(h) THEN h[i] ELSE o[i - Len(h)]
  BY ConcatProperties, LenProperties DEF Halves
<1>2. ASSUME NEW i \in 1..Len(h) + Len(o) PROVE (h \o o)[i] = Stamp(v, k + i)
  <2>1. CASE i <= Len(h)
    BY <1>1, <2>1 DEF Stamped
  <2>2. CASE i > Len(h)
    <3>1. i - Len(h) \in 1..Len(o) /\ (k + Len(h)) + (i - Len(h)) = k + i
      BY <1>1, <2>2
    <3>2. o[i - Len(h)] = Stamp(v, (k + Len(h)) + (i - Len(h)))
      BY <3>1 DEF Stamped
    <3>. QED BY <1>1, <2>2, <3>1, <3>2
  <2>. QED BY <1>1, <2>1, <2>2
<1>. QED BY <1>1, <1>2 DEF Stamped

\* The beginning and the rest of a stream.
LEMMA StampedCut ==
    ASSUME NEW o \in Halves, NEW v \in Nat, NEW k \in Nat, NEW n \in Nat, n <= Len(o),
           Stamped(o, v, k)
    PROVE  /\ SubSeq(o, 1, n) \in Halves /\ Len(SubSeq(o, 1, n)) = n
           /\ Stamped(SubSeq(o, 1, n), v, k)
           /\ SubSeq(o, n + 1, Len(o)) \in Halves /\ Len(SubSeq(o, n + 1, Len(o))) = Len(o) - n
           /\ Stamped(SubSeq(o, n + 1, Len(o)), v, k + n)
<1>1. Len(o) \in Nat /\ \A i \in 1..Len(o) : o[i] \in HalfType
  BY LenProperties, ElementOfSeq DEF Halves
<1>2. /\ SubSeq(o, 1, n) \in Halves /\ Len(SubSeq(o, 1, n)) = n
      /\ \A i \in 1..n : SubSeq(o, 1, n)[i] = o[i]
  BY <1>1, SubSeqProperties DEF Halves
<1>3. /\ SubSeq(o, n + 1, Len(o)) \in Halves /\ Len(SubSeq(o, n + 1, Len(o))) = Len(o) - n
      /\ \A i \in 1..(Len(o) - n) : SubSeq(o, n + 1, Len(o))[i] = o[n + i]
  BY <1>1, SubSeqProperties DEF Halves
<1>4. Stamped(SubSeq(o, 1, n), v, k)
  BY <1>1, <1>2 DEF Stamped
<1>5. ASSUME NEW i \in 1..(Len(o) - n) PROVE SubSeq(o, n + 1, Len(o))[i] = Stamp(v, (k + n) + i)
  <2>1. n + i \in 1..Len(o) /\ k + (n + i) = (k + n) + i
    BY <1>1
  <2>2. o[n + i] = Stamp(v, k + (n + i))
    BY <2>1 DEF Stamped
  <2>. QED BY <1>3, <2>1, <2>2
<1>. QED BY <1>2, <1>3, <1>4, <1>5 DEF Stamped

\* Handing the first n halves of a buffer to the file in front of it.
LEMMA SpillStamped ==
    ASSUME NEW h \in Halves, NEW o \in Halves, NEW v \in Nat, NEW n \in Nat, n <= Len(o),
           Stamped(h, v, 0), Stamped(o, v, Len(h))
    PROVE  /\ h \o SubSeq(o, 1, n) \in Halves
           /\ Len(h \o SubSeq(o, 1, n)) = Len(h) + n
           /\ Stamped(h \o SubSeq(o, 1, n), v, 0)
           /\ SubSeq(o, n + 1, Len(o)) \in Halves
           /\ Len(SubSeq(o, n + 1, Len(o))) = Len(o) - n
           /\ Stamped(SubSeq(o, n + 1, Len(o)), v, Len(h) + n)
<1>1. Len(h) \in Nat /\ 0 + Len(h) = Len(h)
  BY LenProperties DEF Halves
<1>2. /\ SubSeq(o, 1, n) \in Halves /\ Len(SubSeq(o, 1, n)) = n
      /\ Stamped(SubSeq(o, 1, n), v, Len(h))
      /\ SubSeq(o, n + 1, Len(o)) \in Halves /\ Len(SubSeq(o, n + 1, Len(o))) = Len(o) - n
      /\ Stamped(SubSeq(o, n + 1, Len(o)), v, Len(h) + n)
  BY <1>1, StampedCut
<1>. QED BY <1>1, <1>2, StampedConcat

\* Writing the next half through the buffer.
LEMMA PutStamped ==
    ASSUME NEW h \in Halves, NEW o \in Halves, NEW v \in Nat, NEW mode,
           Stamped(h, v, 0), Stamped(o, v, Len(h)), NEW x, x = Stamp(v, Len(h) + Len(o) + 1),
           NEW h2, NEW o2,
           \/ mode = "stored" /\ h2 = h \o << >> /\ o2 = o \o << x >>
           \/ mode = "spilled" /\ h2 = h \o o /\ o2 = << x >>
           \/ mode = "direct" /\ h2 = h \o (o \o << x >>) /\ o2 = << >>
    PROVE  /\ h2 \in Halves /\ o2 \in Halves /\ Len(h2) + Len(o2) = Len(h) + Len(o) + 1
           /\ Stamped(h2, v, 0) /\ Stamped(o2, v, Len(h2))
<1>1. Len(h) \in Nat /\ Len(o) \in Nat /\ 0 + Len(h) = Len(h)
  BY LenProperties DEF Halves
<1>2. << >> \in Halves /\ Len(<< >>) = 0 /\ h \o << >> = h
  BY ConcatEmptySeq, EmptySeq DEF Halves
<1>3. x \in HalfType
  BY <1>1, StampTypes
<1>4. << x >> \in Halves /\ Len(<< x >>) = 1 /\ Stamped(<< x >>, v, Len(h) + Len(o))
  <2>1. << x >> \in Halves /\ Len(<< x >>) = 1 /\ << x >>[1] = x
    BY <1>3 DEF Halves
  <2>2. ASSUME NEW i \in 1..Len(<< x >>)
        PROVE  << x >>[i] = Stamp(v, (Len(h) + Len(o)) + i)
    <3>1. i = 1
      BY <2>1
    <3>. QED BY <2>1, <3>1
  <2>. QED BY <2>1, <2>2 DEF Stamped
<1>5. /\ o \o << x >> \in Halves /\ Len(o \o << x >>) = Len(o) + 1
      /\ Stamped(o \o << x >>, v, Len(h))
  BY <1>1, <1>4, StampedConcat
<1>6. CASE h2 = h \o << >> /\ o2 = o \o << x >>
  <2>1. h2 = h /\ o2 \in Halves /\ Len(o2) = Len(o) + 1 /\ Stamped(o2, v, Len(h))
    BY <1>2, <1>5, <1>6
  <2>2. Len(h2) = Len(h) /\ Len(o2) = Len(o) + 1
    BY <2>1
  <2>3. Len(h2) + Len(o2) = Len(h) + Len(o) + 1
    BY <1>1, <2>2
  <2>. QED BY <2>1, <2>3
<1>7. CASE h2 = h \o o /\ o2 = << x >>
  <2>1. h2 \in Halves /\ Len(h2) = Len(h) + Len(o) /\ Stamped(h2, v, 0)
    BY <1>1, <1>7, StampedConcat
  <2>2. o2 \in Halves /\ Len(o2) = 1 /\ Stamped(o2, v, Len(h) + Len(o))
    BY <1>4, <1>7
  <2>3. Len(h2) + Len(o2) = Len(h) + Len(o) + 1
    BY <1>1, <2>1, <2>2
  <2>. QED BY <2>1, <2>2, <2>3
<1>8. CASE h2 = h \o (o \o << x >>) /\ o2 = << >>
  <2>1. h2 \in Halves /\ Len(h2) = Len(h) + (Len(o) + 1) /\ Stamped(h2, v, 0)
    BY <1>1, <1>5, <1>8, StampedConcat
  <2>2. o2 \in Halves /\ Len(o2) = 0
    BY <1>2, <1>8
  <2>3. Stamped(o2, v, Len(h2))
    BY <2>2 DEF Stamped
  <2>4. Len(h2) + Len(o2) = Len(h) + Len(o) + 1
    BY <1>1, <2>1, <2>2
  <2>. QED BY <2>1, <2>2, <2>3, <2>4
<1>. QED BY <1>6, <1>7, <1>8

-----------------------------------------------------------------------------
(* The inductive invariant. *)

Pcs == {"down", "open", "createMessage", "createOrderbook", "row", "frame",
        "flushMessage", "flushOrderbook", "drop", "createCounts", "writeCounts"}
Writing == {"row", "frame", "flushMessage", "flushOrderbook"}
Counting == {"createCounts", "writeCounts"}

Types ==
    /\ corpus \in Corpora
    /\ runs \in 0..MaxRuns
    /\ faults \in 0..MaxFaults
    /\ version \in 0..runs
    /\ pc \in Pcs
    /\ todo \in SUBSET verified
    /\ (pc = "down") = (todo = {})
    /\ rows \in [Streams -> Csv]
    /\ row \in Nat \ {0}
    /\ at \in [stream : Streams, part : {"header", "payload"}]
    /\ file \in [Bases -> [Streams -> Halves]]
    /\ out \in [Streams -> Halves]
    /\ sidecar \in [Bases -> [kind : {"missing", "torn", "counts"},
                              message : Nat, orderbook : Nat]]
    /\ verified \in SUBSET Bases
    /\ unread \in SUBSET verified
    /\ touched \in SUBSET verified
    /\ counted \in SUBSET Bases

\* The files of a base come from one version of the corpus.
Aligned(b) == \E v \in Nat : \A s \in Streams : Stamped(file[b][s], v, 0)

\* The two files of the current base, each followed by its buffer.
InStep(v) == \A s \in Streams :
    Stamped(file[Base][s], v, 0) /\ Stamped(out[s], v, Len(file[Base][s]))

\* The halves of the current row that have been written to a stream.
Begun(s) ==
    IF pc # "frame" THEN 0
    ELSE IF s = at.stream THEN (IF at.part = "header" THEN 0 ELSE 1)
    ELSE (IF s = "message" THEN 2 ELSE 0)
Lengths == \A s \in Streams : Len(file[Base][s]) + Len(out[s]) = 2 * (row - 1) + Begun(s)
Complete == \A s \in Streams : Len(file[Base][s]) = 2 * (row - 1)

\* What the writers have done where the run stands.
Progress ==
    /\ pc \notin Writing \cup {"drop"} => out = NoFile
    /\ pc = "createOrderbook" => file[Base]["message"] = << >>
    /\ pc \in Writing => InStep(version) /\ Lengths
    /\ pc = "flushOrderbook" => out["message"] = << >>
    /\ pc = "drop" => \E v \in Nat : InStep(v)
    /\ pc = "drop" /\ result = "none" => out = NoFile /\ Complete
    /\ pc \in Counting => Complete

\* A sidecar is young only while nothing is written to its base.
Young ==
    /\ pc \in {"createOrderbook"} \cup Writing \cup Counting => Base \notin counted
    /\ pc = "drop" => Base \notin counted \/ (out = NoFile /\ result # "none")

Sidecar(b) == \E n \in Nat :
    /\ sidecar[b] = [kind |-> "counts", message |-> n, orderbook |-> n]
    /\ \A s \in Streams : Len(file[b][s]) = 2 * n

IngestInv ==
    /\ Types
    /\ \A b \in Bases : Aligned(b)
    /\ Progress
    /\ Young
    /\ \A b \in counted : Sidecar(b)

-----------------------------------------------------------------------------
(* The types. *)

\* The least of a set of numbers.
LEMMA MinOf ==
    ASSUME NEW S \in SUBSET Nat, S # {}
    PROVE  Min(S) \in S /\ \A y \in S : Min(S) <= y
<1>1. PICK x \in S : \A y \in S : ~(<<y, x>> \in OpToRel(<, Nat))
  BY NatLessThanWellFounded, WFMin
<1>2. ASSUME NEW y \in S, y < x PROVE FALSE
  <2>1. <<y, x>> \in OpToRel(<, Nat)
    BY <1>2 DEF OpToRel
  <2>. QED BY <1>1, <2>1
<1>3. \A y \in S : x <= y
  BY <1>2
<1>. QED BY <1>3 DEF Min

\* A run that is not over has a base.
LEMMA CurrentBase ==
    ASSUME Types, pc # "down"
    PROVE  Base \in todo /\ Base \in verified /\ Base \in Bases
<1>1. todo # {} /\ todo \in SUBSET Nat /\ todo \in SUBSET verified /\ verified \in SUBSET Bases
  BY IngestAssumption DEF Types
<1>2. Base \in todo
  BY <1>1, MinOf DEF Base
<1>. QED BY <1>1, <1>2

\* Nothing written.
LEMMA EmptyHalves == NoFile \in [Streams -> Halves] /\ << >> \in Halves /\ Len(<< >>) = 0
<1>1. << >> \in Halves /\ Len(<< >>) = 0
  BY EmptySeq DEF Halves
<1>. QED BY <1>1 DEF NoFile

\* The next base, or the end of main, fits the types.
LEMMA NextBaseTypes ==
    ASSUME Types, pc # "down", NextBase
    PROVE  /\ pc' \in {"down", "open"} /\ todo' \in SUBSET verified
           /\ (pc' = "down") = (todo' = {}) /\ rows' \in [Streams -> Csv]
<1>1. Base \in todo /\ todo \in SUBSET verified
  BY CurrentBase DEF Types
<1>2. NoPair \in [Streams -> Csv]
  BY DEF NoPair, Csv
<1>. QED BY <1>1, <1>2 DEF NextBase, Return

\* The initial states.
LEMMA InitTypes == ASSUME Init PROVE Types
BY EmptyHalves, IngestAssumption
   DEF Init, Types, Pcs, NoPair, Csv, NoFile, NoCounts, Streams

\* The steps of main and the ends of a run.
LEMMA MainTypes ==
    ASSUME Types,
           \/ \E bases \in SUBSET Bases : Start(bases) \/ StartFails(bases)
           \/ \E c \in Corpora : Replace(c)
           \/ \E failing \in SUBSET Streams : OpenBase(failing)
           \/ CreateCounts \/ WriteCounts \/ CountsFail \/ Kill
    PROVE  Types'
<1>0. NoPair \in [Streams -> Csv] /\ None \in Csv
  BY DEF NoPair, Csv
<1>1. ASSUME NEW bases \in SUBSET Bases, Start(bases) PROVE Types'
  BY <1>1, IngestAssumption DEF Types, Start, Pcs, pairVars, deviceVars
<1>2. ASSUME NEW bases \in SUBSET Bases, StartFails(bases) PROVE Types'
  BY <1>2, IngestAssumption DEF Types, StartFails, Pcs, pairVars, deviceVars
<1>3. ASSUME NEW c \in Corpora, Replace(c) PROVE Types'
  BY <1>3, IngestAssumption DEF Types, Replace, Pcs, pairVars, deviceVars
<1>4. ASSUME NEW failing \in SUBSET Streams, OpenBase(failing) PROVE Types'
  <2>1. pc = "open" /\ Base \in todo /\ Base \in verified /\ Base \in Bases
    BY <1>4, CurrentBase DEF OpenBase
  <2>2. Found(failing) \in [Streams -> Csv]
    BY <1>0, <2>1, IngestAssumption DEF Found, Types
  <2>3. /\ pc' \in {"down", "open", "createMessage"} /\ todo' \in SUBSET verified
        /\ (pc' = "down") = (todo' = {}) /\ rows' \in [Streams -> Csv]
    BY <1>0, <1>4, <2>1, <2>2, NextBaseTypes DEF OpenBase, Return, Types
  <2>4. unread' \in SUBSET verified /\ faults' \in 0..MaxFaults
    BY <1>4, <2>1, IngestAssumption DEF OpenBase, Types
  <2>. QED BY <1>4, <2>3, <2>4 DEF OpenBase, Types, Pcs, deviceVars
<1>5. CASE CreateCounts
  <2>1. sidecar' \in [Bases -> [kind : {"missing", "torn", "counts"},
                                message : Nat, orderbook : Nat]]
    BY <1>5 DEF CreateCounts, Types, Torn, NoCounts
  <2>. QED BY <1>5, <2>1 DEF CreateCounts, Types, Pcs, pairVars, historyVars
<1>6. CASE WriteCounts
  <2>1. Base \in Bases /\ pc # "down"
    BY <1>6, CurrentBase DEF WriteCounts
  <2>2. sidecar' \in [Bases -> [kind : {"missing", "torn", "counts"},
                                message : Nat, orderbook : Nat]]
    <3>1. row - 1 \in Nat
      BY DEF Types
    <3>2. CountsOf \in [kind : {"missing", "torn", "counts"}, message : Nat, orderbook : Nat]
      BY <3>1 DEF CountsOf
    <3>. QED BY <1>6, <3>2 DEF WriteCounts, Types
  <2>3. counted' \in SUBSET Bases
    BY <1>6, <2>1 DEF WriteCounts, Types
  <2>4. /\ pc' \in {"down", "open"} /\ todo' \in SUBSET verified
        /\ (pc' = "down") = (todo' = {}) /\ rows' \in [Streams -> Csv]
    BY <1>6, <2>1, NextBaseTypes DEF WriteCounts
  <2>. QED BY <1>6, <2>2, <2>3, <2>4 DEF WriteCounts, Types, Pcs
<1>7. CASE CountsFail
  BY <1>0, <1>7, IngestAssumption DEF CountsFail, Fault, Return, Types, Pcs, deviceVars
<1>8. CASE Kill
  BY <1>0, <1>8, EmptyHalves DEF Kill, Return, Types, Pcs, historyVars
<1>. QED BY <1>1, <1>2, <1>3, <1>4, <1>5, <1>6, <1>7, <1>8

-----------------------------------------------------------------------------
(* What the steps of the writers do to the files. *)

\* The file of no other base than the current one changes.
Elsewhere == \A b \in Bases \ {Base} : file'[b] = file[b]

\* No halves are stamped whatever the version.
LEMMA StampedEmpty == ASSUME NEW v, NEW k PROVE Stamped(<< >>, v, k)
BY EmptyHalves DEF Stamped

\* A step that leaves the current base aligned leaves all.
LEMMA AlignedStep ==
    ASSUME \A b \in Bases : Aligned(b), Elsewhere,
           NEW v \in Nat, \A s \in Streams : Stamped(file'[Base][s], v, 0)
    PROVE  \A b \in Bases : Aligned(b)'
<1>1. ASSUME NEW b \in Bases, b # Base PROVE Aligned(b)'
  BY <1>1 DEF Aligned, Elsewhere
<1>2. Base \in Bases => \E w \in Nat : \A s \in Streams : Stamped(file'[Base][s], w, 0)
  OBVIOUS
<1>. QED BY <1>1, <1>2 DEF Aligned

\* A step that touches neither a young sidecar nor its files.
LEMMA SidecarStep ==
    ASSUME \A b \in counted : Sidecar(b), counted' \subseteq counted, sidecar' = sidecar,
           \A b \in counted' : file'[b] = file[b]
    PROVE  \A b \in counted' : Sidecar(b)'
BY DEF Sidecar

\* The m-th half, if m are written, is of the row r.
LEMMA StampOf ==
    ASSUME NEW v, NEW r \in Nat \ {0}, NEW part \in {"header", "payload"}, NEW m \in Nat,
           m = 2 * (r - 1) + (IF part = "header" THEN 0 ELSE 1)
    PROVE  [part |-> part, time |-> <<v, r>>] = Stamp(v, m + 1)
<1>1. CASE part = "header"
  <2>1. (m + 1) % 2 = 1 /\ ((m + 1) + 1) \div 2 = r
    BY <1>1
  <2>. QED BY <1>1, <2>1 DEF Stamp
<1>2. CASE part = "payload"
  <2>1. (m + 1) % 2 = 0 /\ ((m + 1) + 1) \div 2 = r
    BY <1>2
  <2>. QED BY <1>2, <2>1 DEF Stamp
<1>. QED BY <1>1, <1>2

\* The next half goes through the buffer of its stream.
LEMMA PutStep ==
    ASSUME Types, Progress, pc = "frame", NEW mode \in {"stored", "spilled", "direct"},
           Put(<< Half(at.part, TimeOf(at.stream, row)) >>, mode)
    PROVE  /\ file' \in [Bases -> [Streams -> Halves]] /\ out' \in [Streams -> Halves]
           /\ Elsewhere
           /\ \A s \in Streams :
                 /\ Stamped(file'[Base][s], version, 0)
                 /\ Stamped(out'[s], version, Len(file'[Base][s]))
                 /\ Len(file'[Base][s]) + Len(out'[s])
                       = 2 * (row - 1) + Begun(s) + (IF s = at.stream THEN 1 ELSE 0)
<1>. DEFINE t == at.stream
            x == Half(at.part, TimeOf(at.stream, row))
            h == file[Base][t]
            o == out[t]
            h2 == file'[Base][t]
            o2 == out'[t]
<1>1. Base \in Bases /\ t \in Streams /\ at.part \in {"header", "payload"} /\ row \in Nat \ {0}
  BY CurrentBase DEF Types
<1>2. version \in Nat
  BY IngestAssumption DEF Types
<1>3. h \in Halves /\ o \in Halves
  BY <1>1 DEF Types
<1>4. /\ Stamped(h, version, 0) /\ Stamped(o, version, Len(h))
      /\ Len(h) + Len(o) = 2 * (row - 1) + (IF at.part = "header" THEN 0 ELSE 1)
  BY <1>1 DEF Progress, Writing, InStep, Lengths, Begun
<1>. HIDE DEF h, o, h2, o2
<1>5. x = Stamp(version, Len(h) + Len(o) + 1)
  <2>1. Len(h) \in Nat /\ Len(o) \in Nat
    BY <1>3, LenProperties DEF Halves
  <2>2. Len(h) + Len(o) \in Nat
    BY <2>1
  <2> DEFINE part == at.part
             m == Len(h) + Len(o)
  <2>3. x = [part |-> part, time |-> <<version, row>>]
    BY DEF Half, TimeOf
  <2>4. m = 2 * (row - 1) + (IF part = "header" THEN 0 ELSE 1)
    BY <1>4
  <2>. HIDE DEF x, m, part
  <2>5. part \in {"header", "payload"} /\ row \in Nat \ {0} /\ m \in Nat
    BY <1>1, <2>2 DEF m, part
  <2>6. [part |-> part, time |-> <<version, row>>] = Stamp(version, m + 1)
    BY <2>4, <2>5, StampOf
  <2>. QED BY <2>3, <2>6 DEF m
<1>. HIDE DEF x
<1>6. /\ \/ mode = "stored" /\ h2 = h \o << >> /\ o2 = o \o << x >>
         \/ mode = "spilled" /\ h2 = h \o o /\ o2 = << x >>
         \/ mode = "direct" /\ h2 = h \o (o \o << x >>) /\ o2 = << >>
      /\ Elsewhere
      /\ \A s \in Streams \ {t} : file'[Base][s] = file[Base][s] /\ out'[s] = out[s]
  <2>1. CASE mode = "stored"
    BY <1>1, <2>1 DEF Put, Types, Elsewhere, h, o, h2, o2, x
  <2>2. CASE mode = "spilled"
    BY <1>1, <2>2 DEF Put, Types, Elsewhere, h, o, h2, o2, x
  <2>3. CASE mode = "direct"
    BY <1>1, <2>3 DEF Put, Types, Elsewhere, h, o, h2, o2, x
  <2>. QED BY <2>1, <2>2, <2>3
<1>7. /\ DOMAIN file' = Bases /\ DOMAIN file'[Base] = Streams /\ DOMAIN out' = Streams
      /\ file' = [b \in Bases |-> file'[b]]
      /\ file'[Base] = [s \in Streams |-> file'[Base][s]]
      /\ out' = [s \in Streams |-> out'[s]]
  BY <1>1 DEF Put, Types
<1>8. /\ h2 \in Halves /\ o2 \in Halves /\ Len(h2) + Len(o2) = Len(h) + Len(o) + 1
      /\ Stamped(h2, version, 0) /\ Stamped(o2, version, Len(h2))
  BY <1>2, <1>3, <1>4, <1>5, <1>6, PutStamped
<1>9. ASSUME NEW s \in Streams
      PROVE  /\ file'[Base][s] \in Halves /\ out'[s] \in Halves
             /\ Stamped(file'[Base][s], version, 0)
             /\ Stamped(out'[s], version, Len(file'[Base][s]))
             /\ Len(file'[Base][s]) + Len(out'[s])
                   = 2 * (row - 1) + Begun(s) + (IF s = at.stream THEN 1 ELSE 0)
  <2>1. CASE s = t
    <3>1. Begun(s) = IF at.part = "header" THEN 0 ELSE 1
      BY <2>1 DEF Begun
    <3>2. Len(h2) + Len(o2) = 2 * (row - 1) + Begun(s) + 1
      BY <1>4, <1>8, <3>1
    <3>. QED BY <1>8, <2>1, <3>2 DEF h2, o2
  <2>2. CASE s # t
    <3>1. file'[Base][s] = file[Base][s] /\ out'[s] = out[s]
      BY <1>6, <2>2
    <3>2. file[Base][s] \in Halves /\ out[s] \in Halves
      BY <1>1 DEF Types
    <3>3. /\ Stamped(file[Base][s], version, 0)
          /\ Stamped(out[s], version, Len(file[Base][s]))
          /\ Len(file[Base][s]) + Len(out[s]) = 2 * (row - 1) + Begun(s)
      BY DEF Progress, Writing, InStep, Lengths
    <3>4. 2 * (row - 1) + Begun(s) + 0 = 2 * (row - 1) + Begun(s)
      BY <1>1 DEF Begun
    <3>. QED BY <2>2, <3>1, <3>2, <3>3, <3>4
  <2>. QED BY <2>1, <2>2
<1>10. file' \in [Bases -> [Streams -> Halves]] /\ out' \in [Streams -> Halves]
  <2>1. \A b \in Bases \ {Base} : file'[b] \in [Streams -> Halves]
    BY <1>6 DEF Types, Elsewhere
  <2>2. file'[Base] \in [Streams -> Halves]
    BY <1>7, <1>9
  <2>. QED BY <1>7, <1>9, <2>1, <2>2
<1>. QED BY <1>6, <1>9, <1>10

\* Some halves of a buffer go to its file.
LEMMA SpillStep ==
    ASSUME Types, pc # "down", NEW stream \in Streams, NEW n \in Nat, Spill(stream, n),
           NEW v \in Nat, InStep(v)
    PROVE  /\ file' \in [Bases -> [Streams -> Halves]] /\ out' \in [Streams -> Halves]
           /\ Elsewhere
           /\ \A s \in Streams :
                 /\ Stamped(file'[Base][s], v, 0)
                 /\ Stamped(out'[s], v, Len(file'[Base][s]))
                 /\ Len(file'[Base][s]) + Len(out'[s]) = Len(file[Base][s]) + Len(out[s])
                 /\ Len(out'[s]) = IF s = stream THEN Len(out[s]) - n ELSE Len(out[s])
<1>. DEFINE h == file[Base][stream]
            o == out[stream]
            h2 == file'[Base][stream]
            o2 == out'[stream]
<1>1. Base \in Bases /\ h \in Halves /\ o \in Halves
  BY CurrentBase DEF Types
<1>2. Stamped(h, v, 0) /\ Stamped(o, v, Len(h)) /\ n <= Len(o)
  BY DEF InStep, Spill
<1>3. /\ h2 = h \o SubSeq(o, 1, n) /\ o2 = SubSeq(o, n + 1, Len(o))
      /\ Elsewhere
      /\ \A s \in Streams \ {stream} : file'[Base][s] = file[Base][s] /\ out'[s] = out[s]
  BY <1>1 DEF Spill, Types, Elsewhere
<1>4. /\ DOMAIN file' = Bases /\ DOMAIN file'[Base] = Streams /\ DOMAIN out' = Streams
      /\ file' = [b \in Bases |-> file'[b]]
      /\ file'[Base] = [s \in Streams |-> file'[Base][s]]
      /\ out' = [s \in Streams |-> out'[s]]
  BY <1>1 DEF Spill, Types
<1>5. Len(h) \in Nat /\ Len(o) \in Nat
  BY <1>1, LenProperties DEF Halves
<1>. HIDE DEF h, o, h2, o2
<1>6. /\ h2 \in Halves /\ o2 \in Halves /\ Len(h2) = Len(h) + n /\ Len(o2) = Len(o) - n
      /\ Stamped(h2, v, 0) /\ Stamped(o2, v, Len(h2))
  <2>1. /\ h \o SubSeq(o, 1, n) \in Halves
        /\ Len(h \o SubSeq(o, 1, n)) = Len(h) + n
        /\ Stamped(h \o SubSeq(o, 1, n), v, 0)
        /\ SubSeq(o, n + 1, Len(o)) \in Halves
        /\ Len(SubSeq(o, n + 1, Len(o))) = Len(o) - n
        /\ Stamped(SubSeq(o, n + 1, Len(o)), v, Len(h) + n)
    BY <1>1, <1>2, SpillStamped
  <2>2. h2 = h \o SubSeq(o, 1, n) /\ o2 = SubSeq(o, n + 1, Len(o))
    BY <1>3
  <2>. QED BY <2>1, <2>2
<1>7. Len(h2) + Len(o2) = Len(h) + Len(o)
  BY <1>5, <1>6
<1>8. ASSUME NEW s \in Streams
      PROVE  /\ file'[Base][s] \in Halves /\ out'[s] \in Halves
             /\ Stamped(file'[Base][s], v, 0)
             /\ Stamped(out'[s], v, Len(file'[Base][s]))
             /\ Len(file'[Base][s]) + Len(out'[s]) = Len(file[Base][s]) + Len(out[s])
             /\ Len(out'[s]) = IF s = stream THEN Len(out[s]) - n ELSE Len(out[s])
  <2>1. CASE s = stream
    BY <1>6, <1>7, <2>1 DEF h, o, h2, o2
  <2>2. CASE s # stream
    <3>1. file[Base][s] \in Halves /\ out[s] \in Halves
      BY <1>1 DEF Types
    <3>. QED BY <1>3, <2>2, <3>1 DEF InStep
  <2>. QED BY <2>1, <2>2
<1>9. file' \in [Bases -> [Streams -> Halves]] /\ out' \in [Streams -> Halves]
  <2>1. \A b \in Bases \ {Base} : file'[b] \in [Streams -> Halves]
    BY <1>3 DEF Types, Elsewhere
  <2>2. file'[Base] \in [Streams -> Halves]
    BY <1>4, <1>8
  <2>. QED BY <1>4, <1>8, <2>1, <2>2
<1>. QED BY <1>3, <1>8, <1>9

-----------------------------------------------------------------------------
(* The invariant holds initially, and the steps of main keep it. *)

\* Nothing is written where no pair is open.
LEMMA Settled ==
    ASSUME pc' \in {"down", "open", "createMessage"}, out' = NoFile
    PROVE  Progress' /\ Young'
BY DEF Progress, Young, Writing, Counting

\* The initial states.
LEMMA InitInv == ASSUME Init PROVE IngestInv
<1>1. Types
  BY InitTypes
<1>2. \A b \in Bases : Aligned(b)
  <2>1. ASSUME NEW b \in Bases, NEW s \in Streams PROVE Stamped(file[b][s], 0, 0)
    BY StampedEmpty DEF Init, NoFile
  <2>. QED BY <2>1 DEF Aligned
<1>3. Progress /\ Young
  BY DEF Init, Progress, Young, Writing, Counting
<1>. QED BY <1>1, <1>2, <1>3 DEF IngestInv, Init

\* The steps of main that write nothing, and the ends of a run.
LEMMA MainInv ==
    ASSUME IngestInv,
           \/ \E bases \in SUBSET Bases : Start(bases) \/ StartFails(bases)
           \/ \E c \in Corpora : Replace(c)
           \/ \E failing \in SUBSET Streams : OpenBase(failing)
           \/ CountsFail \/ Kill
    PROVE  IngestInv'
<1>1. Types'
  BY MainTypes DEF IngestInv
<1>2. file' = file /\ sidecar' = sidecar /\ counted' = counted
  BY DEF Start, StartFails, Replace, OpenBase, CountsFail, Kill, deviceVars, historyVars
<1>3. pc' \in {"down", "open", "createMessage"} /\ out' = NoFile
  <2>1. ASSUME NEW bases \in SUBSET Bases, Start(bases) \/ StartFails(bases)
        PROVE  pc' \in {"down", "open"} /\ out' = NoFile
    BY <2>1 DEF Start, StartFails, deviceVars, IngestInv, Progress, Writing
  <2>2. ASSUME NEW c \in Corpora, Replace(c) PROVE pc' = "down" /\ out' = NoFile
    BY <2>2 DEF Replace, deviceVars, IngestInv, Progress, Writing
  <2>3. ASSUME NEW failing \in SUBSET Streams, OpenBase(failing)
        PROVE  pc' \in {"down", "open", "createMessage"} /\ out' = NoFile
    BY <2>3 DEF OpenBase, NextBase, Return, deviceVars, IngestInv, Progress, Writing
  <2>4. CASE CountsFail
    BY <2>4 DEF CountsFail, Return, deviceVars, IngestInv, Progress, Writing
  <2>5. CASE Kill
    BY <2>5 DEF Kill, Return
  <2>. QED BY <2>1, <2>2, <2>3, <2>4, <2>5
<1>4. Progress' /\ Young'
  BY <1>3, Settled
<1>5. \A b \in Bases : Aligned(b)'
  BY <1>2 DEF IngestInv, Aligned
<1>6. \A b \in counted' : Sidecar(b)'
  BY <1>2 DEF IngestInv, Sidecar
<1>. QED BY <1>1, <1>4, <1>5, <1>6 DEF IngestInv

\* The steps that write a sidecar.
LEMMA CountsInv == ASSUME IngestInv, CreateCounts \/ WriteCounts PROVE IngestInv'
<1>1. Types' /\ Types
  BY MainTypes DEF IngestInv
<1>2. Base \in Bases /\ Base \notin counted /\ Complete /\ out = NoFile
  BY <1>1, CurrentBase
     DEF CreateCounts, WriteCounts, IngestInv, Young, Progress, Writing, Counting
<1>3. \A b \in Bases : Aligned(b)'
  BY DEF CreateCounts, WriteCounts, IngestInv, Aligned
<1>4. CASE CreateCounts
  <2>1. ASSUME NEW b \in counted' PROVE Sidecar(b)'
    <3>1. b \in counted /\ b # Base /\ b \in Bases /\ Sidecar(b)
      BY <1>1, <1>2, <1>4, <2>1 DEF CreateCounts, historyVars, IngestInv, Types
    <3>. QED BY <1>1, <1>4, <3>1 DEF CreateCounts, Sidecar, Types
  <2>2. Progress' /\ Young'
    BY <1>2, <1>4
       DEF CreateCounts, pairVars, historyVars, Progress, Young, Complete, Base, Writing, Counting
  <2>. QED BY <1>1, <1>3, <2>1, <2>2 DEF IngestInv
<1>5. CASE WriteCounts
  <2>1. ASSUME NEW b \in counted' PROVE Sidecar(b)'
    <3>1. CASE b = Base
      <4>1. row - 1 \in Nat /\ sidecar'[Base] = CountsOf
        BY <1>1, <1>2, <1>5 DEF Types, WriteCounts
      <4>2. \A s \in Streams : Len(file'[Base][s]) = 2 * (row - 1)
        BY <1>2, <1>5 DEF WriteCounts, Complete
      <4>. QED BY <3>1, <4>1, <4>2 DEF Sidecar, CountsOf
    <3>2. CASE b # Base
      <4>1. b \in counted /\ b \in Bases /\ Sidecar(b)
        BY <1>1, <1>5, <2>1, <3>2 DEF WriteCounts, IngestInv, Types
      <4>. QED BY <1>1, <1>5, <3>2, <4>1 DEF WriteCounts, Sidecar, Types
    <3>. QED BY <3>1, <3>2
  <2>2. Progress' /\ Young'
    BY <1>2, <1>5, Settled DEF WriteCounts, NextBase, Return
  <2>. QED BY <1>1, <1>3, <2>1, <2>2 DEF IngestInv
<1>. QED BY <1>4, <1>5

-----------------------------------------------------------------------------
(* The steps of write_pair_streams keep it. *)

\* A file is created anew.
LEMMA CreateInv == ASSUME IngestInv, CreateMessage \/ CreateOrderbook PROVE IngestInv'
<1>. DEFINE stream == IF pc = "createMessage" THEN "message" ELSE "orderbook"
            next == IF pc = "createMessage" THEN "createOrderbook" ELSE "row"
<1>1. /\ CreateFile(stream, next) /\ pc \in {"createMessage", "createOrderbook"}
      /\ stream \in Streams /\ next \in {"createOrderbook", "row"}
  BY DEF CreateMessage, CreateOrderbook, Streams
<1>. HIDE DEF stream, next
<1>2. Types /\ Base \in Bases /\ Base \in verified /\ out = NoFile
  BY <1>1, CurrentBase DEF IngestInv, Progress, Writing
<1>3. Base' = Base /\ todo' = todo /\ out' = out /\ row' = 1 /\ pc' = next /\ version' = version
  BY <1>1 DEF CreateFile, Base
<1>4. /\ file' \in [Bases -> [Streams -> Halves]] /\ Elsewhere
      /\ file'[Base][stream] = << >>
      /\ \A s \in Streams \ {stream} : file'[Base][s] = file[Base][s]
  BY <1>1, <1>2, EmptyHalves DEF CreateFile, Truncated, Types, Elsewhere
<1>5. Types'
  BY <1>1, <1>2, <1>3, <1>4 DEF CreateFile, Types, Pcs
<1>6. \A b \in Bases : Aligned(b)'
  <2>1. PICK v \in Nat : \A s \in Streams : Stamped(file[Base][s], v, 0)
    BY <1>2 DEF IngestInv, Aligned
  <2>2. \A s \in Streams : Stamped(file'[Base][s], v, 0)
    BY <1>4, <2>1, StampedEmpty
  <2>. QED BY <1>4, <2>2, AlignedStep DEF IngestInv
<1>7. \A b \in counted' : Sidecar(b)'
  <2>1. counted' = counted \ {Base} /\ sidecar' = sidecar /\ counted \subseteq Bases
    BY <1>1, <1>2 DEF CreateFile, Types
  <2>2. \A b \in counted' : file'[b] = file[b]
    BY <1>4, <2>1 DEF Elsewhere
  <2>. QED BY <2>1, <2>2, SidecarStep DEF IngestInv
<1>8. Base' \notin counted'
  BY <1>1, <1>3 DEF CreateFile
<1>9. CASE pc = "createMessage"
  <2>1. pc' = "createOrderbook" /\ file'[Base']["message"] = << >>
    BY <1>3, <1>4, <1>9 DEF stream, next
  <2>2. Progress' /\ Young'
    BY <1>2, <1>3, <1>8, <2>1 DEF Progress, Young, Writing, Counting
  <2>. QED BY <1>5, <1>6, <1>7, <2>2 DEF IngestInv
<1>10. CASE pc = "createOrderbook"
  <2>1. pc' = "row" /\ \A s \in Streams : file'[Base][s] = << >>
    BY <1>3, <1>4, <1>10 DEF stream, next, IngestInv, Progress, Streams
  <2>2. \A s \in Streams : out'[s] = << >>
    BY <1>2, <1>3 DEF NoFile
  <2>3. InStep(version)'
    BY <1>3, <2>1, <2>2, StampedEmpty DEF InStep
  <2>4. Lengths'
    <3>1. ASSUME NEW s \in Streams
          PROVE  Len(file'[Base'][s]) + Len(out'[s]) = 2 * (row' - 1) + Begun(s)'
      <4>1. Len(file'[Base'][s]) = 0 /\ Len(out'[s]) = 0
        BY <1>3, <2>1, <2>2, EmptyHalves
      <4>2. Begun(s)' = 0 /\ row' = 1
        BY <1>3, <2>1 DEF Begun
      <4>. QED BY <4>1, <4>2
    <3>. QED BY <3>1 DEF Lengths
  <2>5. Progress' /\ Young'
    BY <1>8, <2>1, <2>3, <2>4 DEF Progress, Young, Writing, Counting
  <2>. QED BY <1>5, <1>6, <1>7, <2>5 DEF IngestInv
<1>. QED BY <1>1, <1>9, <1>10

\* Creating a file fails.
LEMMA CreateFailsInv == ASSUME IngestInv, CreateFails PROVE IngestInv'
<1>1. Types /\ Base \in Bases /\ out = NoFile
  BY CurrentBase DEF CreateFails, IngestInv, Progress, Writing
<1>2. /\ Base' = Base /\ file' = file /\ out' = out /\ counted' = counted
      /\ sidecar' = sidecar /\ pc' = "drop" /\ result' = "Io"
  BY DEF CreateFails, Fail, deviceVars, Base
<1>3. Types'
  BY <1>1, IngestAssumption DEF CreateFails, Fail, Fault, Types, Pcs, deviceVars
<1>4. \A b \in Bases : Aligned(b)'
  BY <1>2 DEF IngestInv, Aligned
<1>5. \A b \in counted' : Sidecar(b)'
  BY <1>2 DEF IngestInv, Sidecar
<1>6. \E v \in Nat : InStep(v)'
  <2>1. PICK v \in Nat : \A s \in Streams : Stamped(file[Base][s], v, 0)
    BY <1>1 DEF IngestInv, Aligned
  <2>2. \A s \in Streams : Stamped(out[s], v, Len(file[Base][s]))
    BY <1>1, StampedEmpty DEF NoFile
  <2>3. InStep(v)'
    BY <1>2, <2>1, <2>2 DEF InStep
  <2>. QED BY <2>3
<1>7. Progress' /\ Young'
  BY <1>1, <1>2, <1>6 DEF Progress, Young, Writing, Counting
<1>. QED BY <1>3, <1>4, <1>5, <1>7 DEF IngestInv

\* A row is looked at.
LEMMA NextRowInv == ASSUME IngestInv, NextRow PROVE IngestInv'
<1>1. /\ Types /\ Base \in Bases /\ pc = "row" /\ InStep(version) /\ Lengths
      /\ Base \notin counted /\ version \in Nat
  BY CurrentBase, IngestAssumption
     DEF NextRow, IngestInv, Types, Progress, Young, Writing
<1>2. /\ Base' = Base /\ file' = file /\ out' = out /\ counted' = counted
      /\ sidecar' = sidecar /\ row' = row /\ version' = version
  BY DEF NextRow, Fail, deviceVars, historyVars, Base
<1>3. /\ pc' \in {"flushMessage", "frame", "drop"}
      /\ pc' = "drop" => result' # "none"
      /\ pc' = "frame" => at' = [stream |-> "message", part |-> "header"]
      /\ pc' # "frame" => at' = at
      /\ todo' = todo /\ rows' = rows
  BY DEF NextRow, Fail, Matched, ParseMessageRow
<1>4. Types'
  BY <1>1, <1>3 DEF NextRow, Types, Pcs, Streams, deviceVars, historyVars
<1>5. \A b \in Bases : Aligned(b)'
  BY <1>2 DEF IngestInv, Aligned
<1>6. \A b \in counted' : Sidecar(b)'
  BY <1>2 DEF IngestInv, Sidecar
<1>7. InStep(version)'
  BY <1>1, <1>2 DEF InStep
<1>8. Lengths'
  <2>1. ASSUME NEW s \in Streams PROVE Begun(s) = 0 /\ Begun(s)' = 0
    <3>1. Begun(s) = 0
      BY <1>1 DEF Begun
    <3>2. CASE pc' = "frame"
      <4>1. at'.stream = "message" /\ at'.part = "header"
        BY <1>3, <3>2
      <4>. QED BY <3>1, <3>2, <4>1 DEF Begun
    <3>3. CASE pc' # "frame"
      BY <3>1, <3>3 DEF Begun
    <3>. QED BY <3>2, <3>3
  <2>. QED BY <1>1, <1>2, <2>1 DEF Lengths
<1>9. Progress' /\ Young'
  <2>1. pc' = "drop" => \E v \in Nat : InStep(v)'
    BY <1>1, <1>2, <1>7 DEF InStep
  <2>. QED BY <1>1, <1>2, <1>3, <1>7, <1>8, <2>1 DEF Progress, Young, Writing, Counting
<1>. QED BY <1>4, <1>5, <1>6, <1>9 DEF IngestInv

\* A step that writes only to the files of a base whose sidecar is not young.
LEMMA WriteKeeps ==
    ASSUME IngestInv, Elsewhere, Base \notin counted, counted' = counted, sidecar' = sidecar,
           NEW v \in Nat, \A s \in Streams : Stamped(file'[Base][s], v, 0)
    PROVE  (\A b \in Bases : Aligned(b)') /\ (\A b \in counted' : Sidecar(b)')
<1>1. counted \subseteq Bases
  BY DEF IngestInv, Types
<1>2. \A b \in counted' : file'[b] = file[b]
  BY <1>1 DEF Elsewhere
<1>. QED BY <1>2, AlignedStep, SidecarStep DEF IngestInv

\* Half a frame is written.
LEMMA WriteHalfInv ==
    ASSUME IngestInv, NEW mode \in {"stored", "spilled", "direct"}, WriteHalf(mode)
    PROVE  IngestInv'
<1>1. /\ Types /\ Progress /\ Base \in Bases /\ pc = "frame" /\ Base \notin counted
      /\ version \in Nat /\ row \in Nat \ {0}
      /\ at \in [stream : Streams, part : {"header", "payload"}]
  BY CurrentBase, IngestAssumption DEF WriteHalf, IngestInv, Types, Young, Writing
<1>2. /\ counted' = counted /\ sidecar' = sidecar /\ version' = version
      /\ Put(<< Half(at.part, TimeOf(at.stream, row)) >>, mode) /\ AfterHalf
  BY DEF WriteHalf, historyVars
<1>3. /\ file' \in [Bases -> [Streams -> Halves]] /\ out' \in [Streams -> Halves]
      /\ Elsewhere
      /\ \A s \in Streams :
            /\ Stamped(file'[Base][s], version, 0)
            /\ Stamped(out'[s], version, Len(file'[Base][s]))
            /\ Len(file'[Base][s]) + Len(out'[s])
                  = 2 * (row - 1) + Begun(s) + (IF s = at.stream THEN 1 ELSE 0)
  BY <1>1, <1>2, PutStep
<1>4. (\A b \in Bases : Aligned(b)') /\ (\A b \in counted' : Sidecar(b)')
  BY <1>1, <1>2, <1>3, WriteKeeps
<1>5. todo' = todo /\ Base' = Base /\ rows' = rows
  BY <1>1, <1>2 DEF AfterHalf, Fail, Base, Streams
<1>6. InStep(version)'
  BY <1>2, <1>3, <1>5 DEF InStep
<1>7. \/ /\ pc' = "frame" /\ at.part = "header" /\ row' = row
         /\ at' = [stream |-> at.stream, part |-> "payload"]
      \/ /\ pc' = "frame" /\ at = [stream |-> "message", part |-> "payload"] /\ row' = row
         /\ at' = [stream |-> "orderbook", part |-> "header"]
      \/ /\ pc' = "row" /\ at = [stream |-> "orderbook", part |-> "payload"]
         /\ row' = row + 1 /\ at' = at
      \/ pc' = "drop" /\ result' = "Parse" /\ row' = row /\ at' = at
  BY <1>1, <1>2 DEF AfterHalf, Fail, Streams
<1>8. Types'
  <2>1. /\ at' \in [stream : Streams, part : {"header", "payload"}]
        /\ row' \in Nat \ {0} /\ pc' \in {"row", "frame", "drop"}
    BY <1>1, <1>7 DEF Streams
  <2>2. /\ UNCHANGED <<corpus, version, sidecar, verified, unread, touched, counted, runs, faults>>
        /\ todo' = todo /\ rows' = rows
    BY <1>5 DEF WriteHalf, historyVars
  <2>3. todo # {} /\ pc' \in Pcs /\ pc' # "down"
    BY <1>1, <2>1 DEF Types, Pcs
  <2>. QED BY <1>1, <1>3, <2>1, <2>2, <2>3 DEF Types
<1>9. ASSUME NEW s \in Streams, pc' # "drop"
      PROVE  2 * (row - 1) + Begun(s) + (IF s = at.stream THEN 1 ELSE 0)
                 = 2 * (row' - 1) + Begun(s)'
  <2>1. s \in {"message", "orderbook"}
    BY DEF Streams
  <2>2. CASE /\ pc' = "frame" /\ at.part = "header" /\ row' = row
             /\ at' = [stream |-> at.stream, part |-> "payload"]
    BY <1>1, <2>1, <2>2 DEF Begun
  <2>3. CASE /\ pc' = "frame" /\ at = [stream |-> "message", part |-> "payload"] /\ row' = row
             /\ at' = [stream |-> "orderbook", part |-> "header"]
    BY <1>1, <2>1, <2>3 DEF Begun
  <2>4. CASE /\ pc' = "row" /\ at = [stream |-> "orderbook", part |-> "payload"]
             /\ row' = row + 1 /\ at' = at
    <3>1. Begun(s)' = 0
      BY <2>4 DEF Begun
    <3>2. Begun(s) + (IF s = at.stream THEN 1 ELSE 0) = 2 /\ Begun(s) \in Nat
      BY <1>1, <2>1, <2>4 DEF Begun
    <3>. QED BY <1>1, <2>4, <3>1, <3>2
  <2>. QED BY <1>7, <1>9, <2>2, <2>3, <2>4
<1>10. pc' # "drop" => Lengths'
  <2>1. ASSUME NEW s \in Streams, pc' # "drop"
        PROVE  Len(file'[Base'][s]) + Len(out'[s]) = 2 * (row' - 1) + Begun(s)'
    BY <1>3, <1>5, <1>9, <2>1
  <2>. QED BY <2>1 DEF Lengths
<1>11. Progress' /\ Young'
  <2>1. pc' \in {"row", "frame", "drop"} /\ (pc' = "drop" => result' # "none")
    BY <1>7
  <2>2. \E v \in Nat : InStep(v)'
    BY <1>1, <1>2, <1>6
  <2>. QED BY <1>1, <1>2, <1>5, <1>6, <1>10, <2>1, <2>2 DEF Progress, Young, Writing, Counting
<1>. QED BY <1>4, <1>8, <1>11 DEF IngestInv

\* Writing or flushing fails when some of the buffer has gone to the file.
LEMMA FaultInv ==
    ASSUME IngestInv, NEW n \in 0..MaxHalves, WriteFails(n) \/ FlushFails(n)
    PROVE  IngestInv'
<1>. DEFINE t == IF pc = "frame" THEN at.stream ELSE Flushing
<1>1. /\ Types /\ Base \in Bases /\ Base \notin counted /\ InStep(version) /\ version \in Nat
      /\ pc \in {"frame", "flushMessage", "flushOrderbook"} /\ t \in Streams /\ n \in Nat
  <2>1. Types /\ Progress /\ Young /\ pc \in {"frame", "flushMessage", "flushOrderbook"}
    BY DEF WriteFails, FlushFails, IngestInv
  <2>2. Base \in Bases /\ Base \notin counted /\ InStep(version)
    BY <2>1, CurrentBase DEF Progress, Young, Writing
  <2>3. t \in Streams /\ n \in Nat /\ version \in Nat
    BY <2>1, IngestAssumption DEF Types, Flushing, Streams
  <2>. QED BY <2>1, <2>2, <2>3
<1>2. /\ Spill(t, n) /\ counted' = counted /\ sidecar' = sidecar /\ todo' = todo /\ rows' = rows
      /\ pc' = "drop" /\ result' = "Io" /\ faults' \in 0..MaxFaults
  BY IngestAssumption DEF WriteFails, FlushFails, Fail, Fault, IngestInv, Types
<1>. HIDE DEF t
<1>3. /\ file' \in [Bases -> [Streams -> Halves]] /\ out' \in [Streams -> Halves]
      /\ Elsewhere
      /\ \A s \in Streams :
            /\ Stamped(file'[Base][s], version, 0)
            /\ Stamped(out'[s], version, Len(file'[Base][s]))
  BY <1>1, <1>2, SpillStep
<1>4. (\A b \in Bases : Aligned(b)') /\ (\A b \in counted' : Sidecar(b)')
  BY <1>1, <1>2, <1>3, WriteKeeps
<1>5. Types'
  BY <1>1, <1>2, <1>3 DEF WriteFails, FlushFails, Types, Pcs
<1>6. Base' = Base
  BY <1>2 DEF Base
<1>7. InStep(version)' /\ version' = version
  BY <1>3, <1>6 DEF InStep, WriteFails, FlushFails
<1>8. \E v \in Nat : InStep(v)'
  BY <1>1, <1>7 DEF InStep
<1>9. Progress' /\ Young'
  BY <1>1, <1>2, <1>6, <1>8 DEF Progress, Young, Writing, Counting
<1>. QED BY <1>4, <1>5, <1>9 DEF IngestInv

\* A sequence without elements.
LEMMA NoHalves == ASSUME NEW h \in Halves, Len(h) = 0 PROVE h = << >>
BY EmptySeq DEF Halves

\* A stream is flushed.
LEMMA FlushInv == ASSUME IngestInv, Flush PROVE IngestInv'
<1>. DEFINE n == Len(out[Flushing])
<1>1. Types /\ Progress /\ Young /\ pc \in {"flushMessage", "flushOrderbook"}
  BY DEF Flush, IngestInv
<1>2. /\ Base \in Bases /\ Base \notin counted /\ InStep(version) /\ Lengths
      /\ Flushing = (IF pc = "flushMessage" THEN "message" ELSE "orderbook")
  BY <1>1, CurrentBase DEF Progress, Young, Writing, Flushing
<1>3. /\ Flushing \in Streams /\ version \in Nat /\ n \in Nat
      /\ out \in [Streams -> Halves] /\ \A s \in Streams : Len(out[s]) \in Nat
  <2>1. Flushing \in Streams /\ version \in Nat /\ out \in [Streams -> Halves]
    BY <1>1, <1>2, IngestAssumption DEF Types, Streams
  <2>. QED BY <2>1, LenProperties DEF Halves
<1>4. /\ Spill(Flushing, n) /\ counted' = counted /\ sidecar' = sidecar /\ todo' = todo
      /\ version' = version /\ row' = row /\ at' = at /\ rows' = rows
      /\ pc' = (IF pc = "flushMessage" THEN "flushOrderbook" ELSE "drop")
  BY DEF Flush, Flushed, historyVars, pairVars
<1>. HIDE DEF n
<1>5. /\ file' \in [Bases -> [Streams -> Halves]] /\ out' \in [Streams -> Halves]
      /\ Elsewhere
      /\ \A s \in Streams :
            /\ Stamped(file'[Base][s], version, 0)
            /\ Stamped(out'[s], version, Len(file'[Base][s]))
            /\ Len(file'[Base][s]) + Len(out'[s]) = Len(file[Base][s]) + Len(out[s])
            /\ Len(out'[s]) = IF s = Flushing THEN Len(out[s]) - n ELSE Len(out[s])
  BY <1>1, <1>2, <1>3, <1>4, SpillStep
<1>6. (\A b \in Bases : Aligned(b)') /\ (\A b \in counted' : Sidecar(b)')
  BY <1>2, <1>3, <1>4, <1>5, WriteKeeps
<1>7. Types'
  BY <1>1, <1>4, <1>5 DEF Flush, Types, Pcs, pairVars, historyVars
<1>8. Base' = Base
  BY <1>4 DEF Base
<1>9. InStep(version)'
  BY <1>4, <1>5, <1>8 DEF InStep
<1>10. \A s \in Streams :
          Begun(s) = 0 /\ Len(file'[Base][s]) + Len(out'[s]) = 2 * (row - 1) + 0
  <2>1. ASSUME NEW s \in Streams
        PROVE  /\ Begun(s) = 0
               /\ Len(file[Base][s]) + Len(out[s]) = 2 * (row - 1) + Begun(s)
    BY <1>1, <1>2 DEF Lengths, Begun
  <2>. QED BY <1>5, <2>1
<1>11. out'[Flushing] = << >>
  <2>1. Len(out'[Flushing]) = 0
    BY <1>3, <1>5 DEF n
  <2>. QED BY <1>3, <1>5, <2>1, NoHalves
<1>12. CASE pc = "flushMessage"
  <2>1. pc' = "flushOrderbook" /\ out'["message"] = << >>
    BY <1>2, <1>4, <1>11, <1>12
  <2>2. Lengths'
    BY <1>4, <1>8, <1>10, <2>1 DEF Lengths, Begun
  <2>3. Progress' /\ Young'
    BY <1>2, <1>4, <1>8, <1>9, <2>1, <2>2 DEF Progress, Young, Writing, Counting
  <2>. QED BY <1>6, <1>7, <2>3 DEF IngestInv
<1>13. CASE pc = "flushOrderbook"
  <2>1. pc' = "drop" /\ out'["orderbook"] = << >>
    BY <1>2, <1>4, <1>11, <1>13
  <2>2. out'["message"] = << >>
    <3>1. out["message"] = << >> /\ Flushing # "message" /\ "message" \in Streams
      BY <1>1, <1>2, <1>13 DEF Progress, Streams
    <3>2. Len(out'["message"]) = 0
      BY <1>5, <3>1, EmptyHalves
    <3>. QED BY <1>5, <3>1, <3>2, NoHalves
  <2>3. \A s \in Streams : out'[s] = << >>
    BY <2>1, <2>2 DEF Streams
  <2>4. out' = NoFile
    BY <1>5, <2>3 DEF NoFile
  <2>5. Complete'
    <3>1. ASSUME NEW s \in Streams PROVE Len(file'[Base][s]) = 2 * (row - 1)
      <4>1. Len(file'[Base][s]) + 0 = 2 * (row - 1) + 0 /\ file'[Base][s] \in Halves
        BY <1>2, <1>5, <1>10, <2>3, EmptyHalves
      <4>2. Len(file'[Base][s]) \in Nat /\ row \in Nat
        BY <1>1, <4>1, LenProperties DEF Halves, Types
      <4>. QED BY <4>1, <4>2
    <3>. QED BY <1>4, <1>8, <3>1 DEF Complete
  <2>6. \E v \in Nat : InStep(v)'
    BY <1>3, <1>4, <1>9 DEF InStep
  <2>7. Progress' /\ Young'
    BY <1>2, <1>4, <1>8, <2>1, <2>4, <2>5, <2>6 DEF Progress, Young, Writing, Counting
  <2>. QED BY <1>6, <1>7, <2>7 DEF IngestInv
<1>. QED BY <1>1, <1>12, <1>13

\* Dropping the writers gives the files what the buffers hold, up to what is lost.
LEMMA DropStep ==
    ASSUME Types, pc = "drop", NEW lost \in [Streams -> 0..MaxHalves], Drop(lost),
           NEW v \in Nat, InStep(v)
    PROVE  /\ file' \in [Bases -> [Streams -> Halves]]
           /\ Elsewhere
           /\ \A s \in Streams :
                 /\ Stamped(file'[Base][s], v, 0)
                 /\ Len(file'[Base][s]) = Len(file[Base][s]) + (Len(out[s]) - lost[s])
           /\ out = NoFile => \A b \in Bases : file'[b] = file[b]
<1>. DEFINE n(s) == GivenOnDrop(s) - lost[s]
<1>1. /\ Base \in Bases /\ file[Base] \in [Streams -> Halves] /\ out \in [Streams -> Halves]
      /\ \A s \in Streams : Len(out[s]) \in Nat /\ lost[s] \in Nat
  <2>1. Base \in Bases /\ file[Base] \in [Streams -> Halves] /\ out \in [Streams -> Halves]
    BY CurrentBase DEF Types
  <2>. QED BY <2>1, LenProperties DEF Halves
<1>2. /\ \A s \in Streams : lost[s] <= GivenOnDrop(s)
      /\ file' = [file EXCEPT ![Base] = [s \in Streams |-> @[s] \o SubSeq(out[s], 1, n(s))]]
  BY DEF Drop
<1>3. \A s \in Streams : n(s) \in Nat /\ n(s) <= Len(out[s]) /\ n(s) = Len(out[s]) - lost[s]
  BY <1>1, <1>2 DEF GivenOnDrop
<1>. HIDE DEF n
<1>4. ASSUME NEW s \in Streams
      PROVE  /\ file[Base][s] \o SubSeq(out[s], 1, n(s)) \in Halves
             /\ Len(file[Base][s] \o SubSeq(out[s], 1, n(s))) = Len(file[Base][s]) + n(s)
             /\ Stamped(file[Base][s] \o SubSeq(out[s], 1, n(s)), v, 0)
  <2>1. /\ file[Base][s] \in Halves /\ out[s] \in Halves
        /\ Stamped(file[Base][s], v, 0) /\ Stamped(out[s], v, Len(file[Base][s]))
    BY <1>1 DEF InStep
  <2>. QED BY <1>3, <2>1, SpillStamped
<1>5. /\ Elsewhere
      /\ \A s \in Streams : file'[Base][s] = file[Base][s] \o SubSeq(out[s], 1, n(s))
      /\ file' \in [Bases -> [Streams -> Halves]]
  <2>1. [s \in Streams |-> file[Base][s] \o SubSeq(out[s], 1, n(s))] \in [Streams -> Halves]
    BY <1>4
  <2>2. file \in [Bases -> [Streams -> Halves]]
    BY DEF Types
  <2>. QED BY <1>1, <1>2, <2>1, <2>2 DEF Elsewhere
<1>6. out = NoFile => \A b \in Bases : file'[b] = file[b]
  <2>1. SUFFICES ASSUME out = NoFile, NEW s \in Streams PROVE file'[Base][s] = file[Base][s]
    <3>1. file'[Base] \in [Streams -> Halves]
      BY <1>1, <1>5
    <3>. QED BY <1>1, <1>5, <3>1 DEF Elsewhere
  <2>2. out[s] = << >> /\ n(s) = 0
    <3>1. out[s] = << >>
      BY <2>1 DEF NoFile
    <3>2. Len(out[s]) = 0
      BY <3>1, EmptyHalves
    <3>. QED BY <1>3, <3>1, <3>2
  <2>3. SubSeq(out[s], 1, n(s)) = << >>
    <3>1. << >> \in Halves /\ 0 <= Len(<< >>) /\ Stamped(<< >>, 0, 0)
      BY EmptyHalves, StampedEmpty
    <3>2. SubSeq(<< >>, 1, 0) \in Halves /\ Len(SubSeq(<< >>, 1, 0)) = 0
      BY <3>1, StampedCut
    <3>. QED BY <2>2, <3>2, NoHalves
  <2>4. file[Base][s] \in Seq(HalfType) /\ file'[Base][s] = file[Base][s] \o << >>
    BY <1>1, <1>5, <2>3 DEF Halves
  <2>. QED BY <2>4, ConcatEmptySeq
<1>7. ASSUME NEW s \in Streams
      PROVE  /\ Stamped(file'[Base][s], v, 0)
             /\ Len(file'[Base][s]) = Len(file[Base][s]) + (Len(out[s]) - lost[s])
  BY <1>3, <1>4, <1>5
<1>. QED BY <1>5, <1>6, <1>7

\* The writers are dropped.
LEMMA DropInv ==
    ASSUME IngestInv, NEW lost \in [Streams -> 0..MaxHalves], Drop(lost)
    PROVE  IngestInv'
<1>1. Types /\ Progress /\ Young /\ pc = "drop" /\ Base \in Bases
  BY CurrentBase DEF Drop, IngestInv
<1>2. out' = NoFile /\ counted' = counted /\ sidecar' = sidecar /\ row' = row
  BY DEF Drop
<1>3. PICK v \in Nat : InStep(v)
  BY <1>1 DEF Progress
<1>4. /\ file' \in [Bases -> [Streams -> Halves]]
      /\ Elsewhere
      /\ \A s \in Streams : Stamped(file'[Base][s], v, 0)
      /\ out = NoFile => \A b \in Bases : file'[b] = file[b]
  BY <1>1, <1>3, DropStep
<1>5. \A b \in Bases : Aligned(b)'
  BY <1>4, AlignedStep DEF IngestInv
<1>6. \A b \in counted' : Sidecar(b)'
  <2>1. \A b \in counted' : file'[b] = file[b]
    BY <1>1, <1>2, <1>4 DEF Types, Young, Elsewhere
  <2>. QED BY <1>2, <2>1, SidecarStep DEF IngestInv
<1>7. /\ \/ pc' = "createCounts" /\ result = "none" /\ todo' = todo /\ rows' = rows
         \/ pc' = "down" /\ todo' = {} /\ rows' = NoPair
      /\ faults' \in 0..MaxFaults
  <2>1. faults' \in 0..MaxFaults
    BY <1>1, IngestAssumption DEF Drop, Fault, Types
  <2>. QED BY <2>1 DEF Drop, Return
<1>8. Types'
  <2>1. NoPair \in [Streams -> Csv]
    BY DEF NoPair, Csv
  <2>2. /\ pc' \in Pcs /\ todo' \in SUBSET verified /\ (pc' = "down") = (todo' = {})
        /\ rows' \in [Streams -> Csv]
    BY <1>1, <1>7, <2>1 DEF Types, Pcs
  <2>. QED BY <1>1, <1>2, <1>4, <1>7, <2>2, EmptyHalves DEF Drop, Types
<1>9. CASE pc' = "createCounts"
  <2>1. result = "none" /\ Base' = Base
    BY <1>7, <1>9 DEF Base
  <2>2. out = NoFile /\ Complete
    BY <1>1, <2>1 DEF Progress
  <2>3. Complete'
    BY <1>1, <1>2, <1>4, <2>1, <2>2 DEF Complete
  <2>4. Progress'
    BY <1>2, <1>9, <2>3 DEF Progress, Writing, Counting
  <2>5. Base \notin counted
    BY <1>1, <2>1 DEF Young
  <2>6. Young'
    BY <1>2, <1>9, <2>1, <2>5 DEF Young, Writing, Counting
  <2>. QED BY <1>5, <1>6, <1>8, <2>4, <2>6 DEF IngestInv
<1>10. CASE pc' = "down"
  <2>1. Progress' /\ Young'
    BY <1>2, <1>10, Settled
  <2>. QED BY <1>5, <1>6, <1>8, <2>1 DEF IngestInv
<1>. QED BY <1>7, <1>9, <1>10

-----------------------------------------------------------------------------
(* The theorems. *)

\* The invariant holds in every reachable state.
THEOREM IngestInvariant == Spec => []IngestInv
<1>1. Init => IngestInv
  BY InitInv
<1>2. IngestInv /\ [Next]_vars => IngestInv'
  <2>. SUFFICES ASSUME IngestInv, [Next]_vars PROVE IngestInv'
    OBVIOUS
  <2>1. CASE \/ \E bases \in SUBSET Bases : Start(bases) \/ StartFails(bases)
             \/ \E c \in Corpora : Replace(c)
             \/ \E failing \in SUBSET Streams : OpenBase(failing)
             \/ CountsFail \/ Kill
    BY <2>1, MainInv
  <2>2. CASE CreateCounts \/ WriteCounts
    BY <2>2, CountsInv
  <2>3. CASE CreateMessage \/ CreateOrderbook
    BY <2>3, CreateInv
  <2>4. CASE CreateFails
    BY <2>4, CreateFailsInv
  <2>5. CASE NextRow
    BY <2>5, NextRowInv
  <2>6. CASE \E mode \in {"stored", "spilled", "direct"} : WriteHalf(mode)
    BY <2>6, WriteHalfInv
  <2>7. CASE \E n \in 0..MaxHalves : WriteFails(n) \/ FlushFails(n)
    BY <2>7, FaultInv
  <2>8. CASE Flush
    BY <2>8, FlushInv
  <2>9. CASE \E lost \in [Streams -> 0..MaxHalves] : Drop(lost)
    BY <2>9, DropInv
  <2>10. CASE UNCHANGED vars
    <3>1. UNCHANGED <<corpus, version, pc, todo, rows, row, at, file, out, sidecar, result,
                      verified, unread, touched, counted, faulted, runs, faults>>
      BY <2>10 DEF vars, pairVars, deviceVars, historyVars
    <3>2. Types' /\ Young'
      BY <3>1 DEF IngestInv, Types, Young, Base
    <3>3. Progress'
      BY <3>1 DEF IngestInv, Progress, InStep, Lengths, Begun, Complete, Base
    <3>4. (\A b \in Bases : Aligned(b)') /\ (\A b \in counted' : Sidecar(b)')
      BY <3>1 DEF IngestInv, Aligned, Sidecar
    <3>. QED BY <3>2, <3>3, <3>4 DEF IngestInv
  <2>. QED BY <2>1, <2>2, <2>3, <2>4, <2>5, <2>6, <2>7, <2>8, <2>9, <2>10 DEF Next
<1>. QED BY <1>1, <1>2, PTL DEF Spec

\* Stamped halves are frames one after another.
LEMMA StampedFrames ==
    ASSUME NEW h \in Halves, NEW v \in Nat, Stamped(h, v, 0) PROVE Frames(h)
<1>1. DOMAIN h = 1..Len(h) /\ Len(h) \in Nat
  BY LenProperties DEF Halves
<1>2. ASSUME NEW i \in 1..Len(h)
      PROVE  /\ h[i].part = IF i % 2 = 1 THEN "header" ELSE "payload"
             /\ i % 2 = 0 => h[i].time = h[i - 1].time
  <2>1. h[i] = Stamp(v, i)
    <3>1. 0 + i = i
      BY <1>1
    <3>. QED BY <3>1 DEF Stamped
  <2>2. ASSUME i % 2 = 0 PROVE h[i].time = h[i - 1].time
    <3>1. i - 1 \in 1..Len(h) /\ 0 + (i - 1) = i - 1
      BY <1>1, <2>2
    <3>2. h[i - 1] = Stamp(v, i - 1)
      BY <3>1 DEF Stamped
    <3>3. (i + 1) \div 2 = ((i - 1) + 1) \div 2
      BY <1>1, <2>2
    <3>. QED BY <2>1, <3>2, <3>3 DEF Stamp
  <2>. QED BY <2>1, <2>2 DEF Stamp
<1>. QED BY <1>1, <1>2 DEF Frames

\* The variables keep their types, and a file with its buffer behind it holds frames one
\* after another, whatever fails and wherever a run is killed.
THEOREM TypeCorrect == Spec => []TypeOK
<1>1. IngestInv => TypeOK
  <2>. SUFFICES ASSUME IngestInv PROVE TypeOK
    OBVIOUS
  <2>1. Types
    BY DEF IngestInv
  <2>2. ASSUME NEW b \in Bases, NEW s \in Streams
        PROVE  Frames(IF todo # {} /\ b = Base THEN file[b][s] \o out[s] ELSE file[b][s])
    <3>1. file[b][s] \in Halves /\ out[s] \in Halves
      BY <2>1 DEF Types
    <3>2. PICK v \in Nat : Stamped(file[b][s], v, 0)
      BY DEF IngestInv, Aligned
    <3>3. Frames(file[b][s])
      BY <3>1, <3>2, StampedFrames
    <3>4. CASE pc \in Writing \cup {"drop"} /\ b = Base
      <4>1. \E w \in Nat : InStep(w)
        BY <2>1, <3>4, IngestAssumption DEF IngestInv, Progress, Types
      <4>2. PICK w \in Nat : Stamped(file[b][s], w, 0) /\ Stamped(out[s], w, Len(file[b][s]))
        BY <3>4, <4>1 DEF InStep
      <4>3. Len(file[b][s]) \in Nat /\ 0 + Len(file[b][s]) = Len(file[b][s])
        BY <3>1, LenProperties DEF Halves
      <4>4. file[b][s] \o out[s] \in Halves /\ Stamped(file[b][s] \o out[s], w, 0)
        BY <3>1, <4>2, <4>3, StampedConcat
      <4>5. Frames(file[b][s] \o out[s])
        BY <4>4, StampedFrames
      <4>. QED BY <3>3, <4>5
    <3>5. CASE pc \notin Writing \cup {"drop"}
      <4>1. out[s] = << >>
        BY <3>5 DEF IngestInv, Progress, NoFile
      <4>2. file[b][s] \o out[s] = file[b][s]
        BY <3>1, <4>1, ConcatEmptySeq DEF Halves
      <4>. QED BY <3>3, <4>2
    <3>. QED BY <3>3, <3>4, <3>5
  <2>3. version \in 0..MaxRuns
    BY <2>1, IngestAssumption DEF Types
  <2>4. \A b \in Bases : sidecar[b].kind \in {"missing", "torn", "counts"}
    BY <2>1 DEF Types
  <2>. QED BY <2>1, <2>2, <2>3, <2>4 DEF Types, TypeOK, Pcs
<1>. QED BY <1>1, IngestInvariant, PTL

\* The payloads of stamped halves.
LEMMA StampedPayloads ==
    ASSUME NEW h \in Halves, NEW v \in Nat, Stamped(h, v, 0)
    PROVE  /\ Len(Payloads(h)) \in Nat /\ Len(Payloads(h)) = Len(h) \div 2
           /\ \A k \in 1..Len(Payloads(h)) : Payloads(h)[k].time = <<v, k>>
<1>1. Len(h) \in Nat /\ Len(h) \div 2 \in Nat
  BY LenProperties DEF Halves
<1>. DEFINE m == Len(h) \div 2
<1>2. \A k \in 1..m : 2 * k \in 1..Len(h) /\ 0 + 2 * k = 2 * k /\ (2 * k + 1) \div 2 = k
  BY <1>1
<1>3. \A k \in 1..m : h[2 * k] = Stamp(v, 2 * k)
  BY <1>2 DEF Stamped
<1>4. \A k \in 1..m : h[2 * k].time = <<v, k>>
  <2>1. ASSUME NEW k \in 1..m PROVE Stamp(v, 2 * k).time = <<v, k>>
    <3>1. (2 * k + 1) \div 2 = k
      BY <1>2
    <3>. QED BY <3>1 DEF Stamp
  <2>. QED BY <1>3, <2>1
<1>5. \A k \in 1..m : h[2 * k] \in HalfType
  BY <1>2, ElementOfSeq DEF Halves
<1>6. Payloads(h) = [k \in 1..m |-> h[2 * k]]
  BY DEF Payloads
<1>. HIDE DEF m
<1>7. Payloads(h) \in Seq(HalfType) /\ Len(Payloads(h)) = m
  <2>1. m \in Nat
    BY <1>1 DEF m
  <2>2. Payloads(h) \in [1..m -> HalfType]
    BY <1>5, <1>6
  <2>3. Payloads(h) \in Seq(HalfType) /\ DOMAIN Payloads(h) = 1..m
    BY <2>1, <2>2, SeqDef
  <2>. QED BY <2>1, <2>3, LenProperties
<1>8. \A k \in 1..m : Payloads(h)[k] = h[2 * k]
  BY <1>6
<1>. QED BY <1>1, <1>4, <1>7, <1>8 DEF m

\* The k-th whole frames of the two files of a base carry the same timestamp, whatever the
\* corpus holds, whatever fails, and however often the program is killed and run again.
THEOREM Alignment == Spec => []PairsAligned
<1>1. IngestInv => PairsAligned
  <2>. SUFFICES ASSUME IngestInv, NEW b \in Bases,
                       NEW k \in 1..Min({Count(b, s) : s \in Streams})
                PROVE  Payloads(file[b]["message"])[k].time
                           = Payloads(file[b]["orderbook"])[k].time
    BY DEF PairsAligned
  <2>1. PICK v \in Nat : \A s \in Streams : Stamped(file[b][s], v, 0)
    BY DEF IngestInv, Aligned
  <2>2. ASSUME NEW s \in Streams PROVE file[b][s] \in Halves
    BY DEF IngestInv, Types
  <2>3. ASSUME NEW s \in Streams
        PROVE  /\ Count(b, s) \in Nat
               /\ \A j \in 1..Count(b, s) : Payloads(file[b][s])[j].time = <<v, j>>
    BY <2>1, <2>2, StampedPayloads DEF Count
  <2>4. /\ "message" \in Streams /\ "orderbook" \in Streams
        /\ {Count(b, s) : s \in Streams} \in SUBSET Nat /\ {Count(b, s) : s \in Streams} # {}
    BY <2>3 DEF Streams
  <2>5. \A s \in Streams : k \in 1..Count(b, s)
    <3>1. /\ Min({Count(b, s) : s \in Streams}) \in Nat
          /\ \A s \in Streams : Min({Count(b, r) : r \in Streams}) <= Count(b, s)
      BY <2>4, MinOf
    <3>. QED BY <2>3, <3>1
  <2>. QED BY <2>3, <2>4, <2>5
<1>. QED BY <1>1, IngestInvariant, PTL

\* A sidecar that is younger than its streams gives the number of frames in each of them,
\* and each ends behind a whole frame.
THEOREM CountsCorrect == Spec => []SidecarsTrue
<1>1. IngestInv => SidecarsTrue
  <2>. SUFFICES ASSUME IngestInv, NEW b \in counted
                PROVE  /\ \A s \in Streams : Whole(file[b][s])
                       /\ sidecar[b] = [kind |-> "counts", message |-> Count(b, "message"),
                                        orderbook |-> Count(b, "orderbook")]
    BY DEF SidecarsTrue
  <2>1. b \in Bases /\ \A s \in Streams : file[b][s] \in Halves
    BY DEF IngestInv, Types
  <2>2. PICK v \in Nat : \A s \in Streams : Stamped(file[b][s], v, 0)
    BY <2>1 DEF IngestInv, Aligned
  <2>3. PICK n \in Nat : /\ sidecar[b] = [kind |-> "counts", message |-> n, orderbook |-> n]
                         /\ \A s \in Streams : Len(file[b][s]) = 2 * n
    BY DEF IngestInv, Sidecar
  <2>4. ASSUME NEW s \in Streams PROVE Count(b, s) = n /\ Whole(file[b][s])
    <3>1. Len(Payloads(file[b][s])) = Len(file[b][s]) \div 2
      BY <2>1, <2>2, StampedPayloads
    <3>2. (2 * n) \div 2 = n
      OBVIOUS
    <3>3. Len(file[b][s]) = 2 * n
      BY <2>3
    <3>4. Len(Payloads(file[b][s])) = n
      BY <3>1, <3>2, <3>3
    <3>. QED BY <3>3, <3>4 DEF Count, Whole
  <2>. QED BY <2>3, <2>4 DEF Streams
<1>. QED BY <1>1, IngestInvariant, PTL

-----------------------------------------------------------------------------
(* What a run has done to the bases it has come to. *)

\* The CSVs the run is at are those of the corpus, and the iterators have not passed them.
Opened ==
    /\ rows = [s \in Streams |-> corpus[Base][s]]
    /\ \A s \in Streams : corpus[Base][s] # None
AllRows == \A s \in Streams : row = Len(rows[s]) + 1
Rows ==
    /\ pc \notin {"down", "open"} => Opened
    /\ pc = "row" => \A s \in Streams : row <= Len(rows[s]) + 1
    /\ pc = "frame" => \A s \in Streams : row <= Len(rows[s])
    /\ pc \in {"flushMessage", "flushOrderbook"} \cup Counting => AllRows
    /\ pc = "drop" /\ result = "none" => AllRows
    /\ pc \in Counting \/ (pc = "drop" /\ result = "none") =>
          \A s \in Streams : Stamped(file[Base][s], version, 0)

\* A base the run is done with has both streams of both CSVs, and a young sidecar.
Done(b) == (\A s \in Streams : corpus[b][s] # None) =>
    /\ b \in counted
    /\ \A s \in Streams : Stamped(file[b][s], version, 0)
                          /\ Len(file[b][s]) = 2 * Len(corpus[b][s])
AllDone ==
    /\ pc # "down" => result # "Ok"
    /\ pc # "down" \/ result = "Ok" => \A b \in verified \ (todo \cup unread) : Done(b)

\* Whole frames, of the message stream perhaps one more.
Paired(message, orderbook) ==
    \E k \in Nat : orderbook = 2 * k /\ message \in {2 * k, 2 * k + 2}
Tidy(b) == Paired(Len(file[b]["message"]), Len(file[b]["orderbook"]))
TidyBuffered == Paired(Len(file[Base]["message"]) + Len(out["message"]),
                       Len(file[Base]["orderbook"]) + Len(out["orderbook"]))
AllTidy ==
    /\ pc # "down" => touched \cap todo \subseteq {Base}
    /\ pc \in {"open", "createMessage"} => Base \notin touched
    /\ ~faulted /\ (pc # "down" \/ result # "killed") => \A b \in touched \ todo : Tidy(b)
    /\ ~faulted /\ pc = "drop" => TidyBuffered

RunInv == Rows /\ AllDone /\ AllTidy

\* The length of a CSV.
LEMMA CsvLen == ASSUME NEW csv \in Csv PROVE Len(csv) \in Nat
<1>1. CASE csv = None
  BY <1>1 DEF None
<1>2. CASE csv # None
  BY <1>2, LenProperties DEF Csv
<1>. QED BY <1>1, <1>2

\* A step inside the pair the run is at.
Inner ==
    /\ pc \notin {"down", "open"} /\ pc' \notin {"down", "open", "createMessage"}
    /\ UNCHANGED <<corpus, version, todo, rows, verified, unread>>
    /\ counted \ {Base} \subseteq counted'
    /\ touched' \subseteq touched \cup {Base}
    /\ faulted => faulted'
    /\ Elsewhere
    /\ result' # "Ok"

\* It keeps what is said of the other bases.
LEMMA InnerKeeps ==
    ASSUME IngestInv, RunInv, Inner
    PROVE  /\ AllDone' /\ Base' = Base /\ Opened'
           /\ touched' \cap todo' \subseteq {Base'}
           /\ ~faulted' => \A b \in touched' \ todo' : Tidy(b)'
<1>1. Base \in todo /\ Base \in Bases /\ verified \subseteq Bases /\ touched \subseteq verified
  BY CurrentBase DEF Inner, IngestInv, Types
<1>2. Base' = Base
  BY DEF Inner, Base
<1>3. Opened'
  BY <1>2 DEF Inner, RunInv, Rows, Opened
<1>4. AllDone'
  <2>1. ASSUME NEW b \in verified' \ (todo' \cup unread') PROVE Done(b)'
    <3>1. b \in Bases \ {Base} /\ Done(b)
      BY <1>1, <2>1 DEF Inner, RunInv, AllDone
    <3>2. file'[b] = file[b] /\ (b \in counted => b \in counted')
      BY <3>1 DEF Inner, Elsewhere
    <3>. QED BY <3>1, <3>2 DEF Inner, Done
  <2>. QED BY <2>1 DEF Inner, AllDone
<1>5. touched' \cap todo' \subseteq {Base'}
  BY <1>2 DEF Inner, RunInv, AllTidy
<1>6. ~faulted' => \A b \in touched' \ todo' : Tidy(b)'
  <2>1. SUFFICES ASSUME ~faulted', NEW b \in touched' \ todo' PROVE Tidy(b)'
    OBVIOUS
  <2>2. b \in Bases \ {Base} /\ Tidy(b)
    BY <1>1, <2>1 DEF Inner, RunInv, AllTidy
  <2>. QED BY <2>2 DEF Inner, Elsewhere, Tidy
<1>. QED BY <1>2, <1>3, <1>4, <1>5, <1>6

\* For a step inside the pair it is enough to look at the rows and, before the writers
\* are dropped, at the buffers.
LEMMA InnerInv ==
    ASSUME IngestInv, RunInv, Inner, ~faulted' /\ pc' = "drop" => TidyBuffered',
           pc' = "row" => \A s \in Streams : row' <= Len(rows[s]) + 1,
           pc' = "frame" => \A s \in Streams : row' <= Len(rows[s]),
           pc' \in {"flushMessage", "flushOrderbook"} \cup Counting
               \/ (pc' = "drop" /\ result' = "none") => \A s \in Streams : row' = Len(rows[s]) + 1,
           pc' \in Counting \/ (pc' = "drop" /\ result' = "none") =>
               \A s \in Streams : Stamped(file'[Base][s], version, 0)
    PROVE  RunInv'
<1>1. Rows'
  BY InnerKeeps DEF Rows, Inner, AllRows
<1>2. AllTidy'
  BY InnerKeeps DEF AllTidy, Inner
<1>. QED BY <1>1, <1>2, InnerKeeps DEF RunInv

\* The files are created.
LEMMA CreateRun ==
    ASSUME IngestInv, RunInv, CreateMessage \/ CreateOrderbook \/ CreateFails PROVE RunInv'
<1>1. Types /\ Base \in Bases /\ pc # "down" /\ result # "Ok"
  BY CurrentBase DEF CreateMessage, CreateOrderbook, CreateFails, IngestInv, RunInv, AllDone
<1>2. Elsewhere
  BY <1>1 DEF CreateMessage, CreateOrderbook, CreateFile, CreateFails, deviceVars, Elsewhere, Types
<1>3. ASSUME NEW s \in Streams PROVE 1 <= Len(rows[s]) + 1
  BY <1>1, CsvLen DEF Types
<1>4. CASE CreateMessage \/ CreateOrderbook
  <2>1. pc' \in {"createOrderbook", "row"} /\ row' = 1 /\ Inner
    BY <1>1, <1>2, <1>4 DEF CreateMessage, CreateOrderbook, CreateFile, Inner
  <2>. QED BY <1>3, <2>1, InnerInv DEF Counting
<1>5. CASE CreateFails
  <2>1. pc' = "drop" /\ result' = "Io" /\ faulted' /\ Inner
    BY <1>1, <1>2, <1>5 DEF CreateFails, Fail, Fault, deviceVars, Inner
  <2>. QED BY <2>1, InnerInv DEF Counting
<1>. QED BY <1>4, <1>5

\* The sums of what the files and the buffers hold, between two rows.
LEMMA TidyLengths ==
    ASSUME NEW m, NEW o, NEW k \in Nat, m \in {2 * k, 2 * k + 2}, o = 2 * k PROVE Paired(m, o)
BY DEF Paired

\* The iterators yield rows, or are at the end of their CSVs.
LEMMA YieldedRow ==
    ASSUME Types, NEW s \in Streams
    PROVE  (Yielded(s) = End) = (row > Len(rows[s]))
<1>1. rows[s] \in Csv /\ row \in Nat \ {0} /\ Len(rows[s]) \in Nat
  BY CsvLen DEF Types
<1>2. ASSUME row <= Len(rows[s]) PROVE rows[s][row] # End
  <2>1. CASE rows[s] = None
    BY <1>1, <1>2, <2>1 DEF None, End
  <2>2. CASE rows[s] # None
    <3>1. rows[s][row] \in Seq({"number", "text"}) \cup {Broken}
      BY <1>1, <1>2, <2>2, ElementOfSeq DEF Csv, Record
    <3>2. End \notin Seq({"number", "text"})
      <4>1. Len(End) = 1 /\ End[1] = "end"
        BY DEF End
      <4>2. ASSUME End \in Seq({"number", "text"}) PROVE FALSE
        <5>1. \A i \in 1..Len(End) : End[i] \in {"number", "text"}
          BY <4>2, ElementOfSeq
        <5>. QED BY <4>1, <5>1
      <4>. QED BY <4>2
    <3>3. Broken # End
      BY DEF Broken, End
    <3>. QED BY <3>1, <3>2, <3>3
  <2>. QED BY <2>1, <2>2
<1>. QED BY <1>1, <1>2 DEF Yielded

\* A row is looked at.
LEMMA NextRowRun == ASSUME IngestInv, RunInv, NextRow PROVE RunInv'
<1>1. /\ Types /\ Base \in Bases /\ pc = "row" /\ result # "Ok" /\ Lengths
      /\ \A s \in Streams : row <= Len(rows[s]) + 1 /\ Len(rows[s]) \in Nat
      /\ row \in Nat \ {0}
  <2>1. Types /\ pc = "row" /\ result # "Ok" /\ Lengths
        /\ \A s \in Streams : row <= Len(rows[s]) + 1
    BY DEF NextRow, IngestInv, Progress, Writing, RunInv, Rows, AllDone
  <2>. QED BY <2>1, CurrentBase, CsvLen DEF Types
<1>2. /\ pc' \in {"flushMessage", "frame", "drop"}
      /\ result' \notin {"Ok"}
      /\ pc' = "drop" => result' # "none"
      /\ pc' = "frame" => Yielded("message") # End /\ Yielded("orderbook") # End
      /\ pc' = "flushMessage" => Yielded("message") = End /\ Yielded("orderbook") = End
      /\ todo' = todo /\ rows' = rows
  BY <1>1 DEF NextRow, Fail, Matched, ParseMessageRow
<1>3. Inner /\ row' = row /\ file' = file /\ out' = out
  BY <1>1, <1>2 DEF NextRow, deviceVars, historyVars, Inner, Elsewhere
<1>4. \A s \in Streams : (Yielded(s) = End) = (row > Len(rows[s]))
  BY <1>1, YieldedRow
<1>5. pc' = "frame" => \A s \in Streams : row' <= Len(rows[s])
  BY <1>1, <1>2, <1>3, <1>4 DEF Streams
<1>6. pc' = "flushMessage" => \A s \in Streams : row' = Len(rows[s]) + 1
  BY <1>1, <1>2, <1>3, <1>4 DEF Streams
<1>7. pc' = "drop" => TidyBuffered'
  <2>1. ASSUME NEW s \in Streams
        PROVE  Len(file[Base][s]) + Len(out[s]) = 2 * (row - 1)
    <3>1. Len(file[Base][s]) + Len(out[s]) = 2 * (row - 1) + 0
      BY <1>1 DEF Lengths, Begun
    <3>2. row - 1 \in Nat
      BY <1>1
    <3>3. 2 * (row - 1) + 0 = 2 * (row - 1)
      BY <3>2
    <3>. QED BY <3>1, <3>3
  <2>2. row - 1 \in Nat /\ "message" \in Streams /\ "orderbook" \in Streams
    BY <1>1 DEF Streams
  <2>3. TidyBuffered
    BY <2>1, <2>2, TidyLengths DEF TidyBuffered
  <2>4. Base' = Base
    BY <1>2 DEF Base
  <2>. QED BY <1>3, <2>3, <2>4 DEF TidyBuffered
<1>. QED BY <1>2, <1>3, <1>5, <1>6, <1>7, InnerInv DEF Counting

\* Half a frame is written.
LEMMA WriteHalfRun ==
    ASSUME IngestInv, RunInv, NEW mode \in {"stored", "spilled", "direct"}, WriteHalf(mode)
    PROVE  RunInv'
<1>1. /\ Types /\ Progress /\ Base \in Bases /\ pc = "frame" /\ result # "Ok"
      /\ row \in Nat \ {0} /\ at \in [stream : Streams, part : {"header", "payload"}]
      /\ \A s \in Streams : row <= Len(rows[s]) /\ Len(rows[s]) \in Nat
  <2>1. Types /\ Progress /\ pc = "frame" /\ result # "Ok" /\ \A s \in Streams : row <= Len(rows[s])
    BY DEF WriteHalf, IngestInv, RunInv, Rows, AllDone
  <2>. QED BY <2>1, CurrentBase, CsvLen DEF Types
<1>2. Put(<< Half(at.part, TimeOf(at.stream, row)) >>, mode) /\ AfterHalf
  BY DEF WriteHalf
<1>3. /\ Elsewhere
      /\ \A s \in Streams :
            Len(file'[Base][s]) + Len(out'[s])
                = 2 * (row - 1) + Begun(s) + (IF s = at.stream THEN 1 ELSE 0)
  BY <1>1, <1>2, PutStep
<1>4. /\ \/ pc' = "frame" /\ row' = row /\ result' = result
         \/ pc' = "row" /\ row' = row + 1 /\ result' = result
         \/ pc' = "drop" /\ result' = "Parse" /\ at = [stream |-> "message", part |-> "payload"]
      /\ todo' = todo /\ rows' = rows
  BY <1>1, <1>2 DEF AfterHalf, Fail, Streams
<1>5. Inner
  BY <1>1, <1>3, <1>4 DEF WriteHalf, historyVars, Inner
<1>6. pc' = "row" => \A s \in Streams : row' <= Len(rows[s]) + 1
  BY <1>1, <1>4
<1>7. pc' = "frame" => \A s \in Streams : row' <= Len(rows[s])
  BY <1>1, <1>4
<1>8. pc' = "drop" => TidyBuffered'
  <2>1. SUFFICES ASSUME pc' = "drop" PROVE TidyBuffered'
    OBVIOUS
  <2>2. at.stream = "message" /\ at.part = "payload"
    BY <1>4, <2>1
  <2>3. Begun("message") = 1 /\ Begun("orderbook") = 0
    BY <1>1, <2>2 DEF Begun
  <2>4. /\ Len(file'[Base]["message"]) + Len(out'["message"]) = 2 * (row - 1) + 1 + 1
        /\ Len(file'[Base]["orderbook"]) + Len(out'["orderbook"]) = 2 * (row - 1) + 0 + 0
    BY <1>3, <2>2, <2>3 DEF Streams
  <2>5. /\ 2 * (row - 1) + 1 + 1 = 2 * (row - 1) + 2 /\ row - 1 \in Nat
        /\ 2 * (row - 1) + 0 + 0 = 2 * (row - 1)
    BY <1>1
  <2>6. Paired(Len(file'[Base]["message"]) + Len(out'["message"]),
               Len(file'[Base]["orderbook"]) + Len(out'["orderbook"]))
    BY <2>4, <2>5, TidyLengths
  <2>7. Base' = Base
    BY <1>4 DEF Base
  <2>. QED BY <2>6, <2>7 DEF TidyBuffered
<1>. QED BY <1>4, <1>5, <1>6, <1>7, <1>8, InnerInv DEF Counting

\* The steps that fail in the pair, after which the run counts as faulted.
LEMMA FaultRun ==
    ASSUME IngestInv, RunInv, NEW n \in 0..MaxHalves, WriteFails(n) \/ FlushFails(n)
    PROVE  RunInv'
<1>1. Types /\ Base \in Bases /\ pc \in {"frame", "flushMessage", "flushOrderbook"}
  BY CurrentBase DEF WriteFails, FlushFails, IngestInv
<1>2. pc' = "drop" /\ result' = "Io" /\ faulted' /\ todo' = todo /\ rows' = rows
  BY DEF WriteFails, FlushFails, Fail, Fault
<1>3. Elsewhere
  BY <1>1 DEF WriteFails, FlushFails, Spill, Types, Elsewhere
<1>4. Inner
  BY <1>1, <1>2, <1>3 DEF WriteFails, FlushFails, Inner
<1>. QED BY <1>2, <1>4, InnerInv DEF Counting

\* A stream is flushed.
LEMMA FlushRun == ASSUME IngestInv, RunInv, Flush PROVE RunInv'
<1>. DEFINE n == Len(out[Flushing])
<1>1. /\ Types /\ Base \in Bases /\ pc \in {"flushMessage", "flushOrderbook"}
      /\ result # "Ok" /\ AllRows /\ InStep(version) /\ Lengths
  <2>1. Types /\ Progress /\ Rows /\ pc \in {"flushMessage", "flushOrderbook"} /\ result # "Ok"
    BY DEF Flush, IngestInv, RunInv, AllDone
  <2>. QED BY <2>1, CurrentBase DEF Progress, Rows, Writing
<1>2. /\ Flushing \in Streams /\ version \in Nat /\ n \in Nat /\ row \in Nat \ {0}
      /\ out \in [Streams -> Halves]
  <2>1. /\ Flushing \in Streams /\ version \in Nat /\ out \in [Streams -> Halves]
        /\ row \in Nat \ {0}
    BY <1>1, IngestAssumption DEF Types, Flushing, Streams
  <2>. QED BY <2>1, LenProperties DEF Halves
<1>3. /\ Spill(Flushing, n) /\ todo' = todo /\ row' = row /\ rows' = rows /\ result' = result
      /\ pc' = (IF pc = "flushMessage" THEN "flushOrderbook" ELSE "drop")
      /\ UNCHANGED <<corpus, version, verified, unread, counted, touched, faulted>>
  BY DEF Flush, Flushed, historyVars, pairVars
<1>. HIDE DEF n
<1>4. /\ Elsewhere
      /\ \A s \in Streams :
            /\ Stamped(file'[Base][s], version, 0)
            /\ Len(file'[Base][s]) + Len(out'[s]) = Len(file[Base][s]) + Len(out[s])
  BY <1>1, <1>2, <1>3, SpillStep
<1>5. Inner
  BY <1>1, <1>3, <1>4 DEF Inner
<1>6. \A s \in Streams : row' = Len(rows[s]) + 1
  BY <1>1, <1>3 DEF AllRows
<1>7. TidyBuffered'
  <2>1. ASSUME NEW s \in Streams
        PROVE  Len(file'[Base][s]) + Len(out'[s]) = 2 * (row - 1)
    <3>1. Len(file'[Base][s]) + Len(out'[s]) = 2 * (row - 1) + 0
      BY <1>1, <1>4 DEF Lengths, Begun
    <3>2. row - 1 \in Nat
      BY <1>2
    <3>3. 2 * (row - 1) + 0 = 2 * (row - 1)
      BY <3>2
    <3>. QED BY <3>1, <3>3
  <2>2. row - 1 \in Nat /\ "message" \in Streams /\ "orderbook" \in Streams
    BY <1>2 DEF Streams
  <2>3. Paired(Len(file'[Base]["message"]) + Len(out'["message"]),
               Len(file'[Base]["orderbook"]) + Len(out'["orderbook"]))
    BY <2>1, <2>2, TidyLengths
  <2>4. Base' = Base
    BY <1>3 DEF Base
  <2>. QED BY <2>3, <2>4 DEF TidyBuffered
<1>. QED BY <1>1, <1>3, <1>4, <1>5, <1>6, <1>7, InnerInv DEF Counting

\* The sidecar is created.
LEMMA CreateCountsRun == ASSUME IngestInv, RunInv, CreateCounts PROVE RunInv'
<1>1. /\ pc = "createCounts" /\ pc' = "writeCounts" /\ result # "Ok" /\ AllRows
      /\ \A s \in Streams : Stamped(file[Base][s], version, 0)
  BY DEF CreateCounts, RunInv, Rows, AllDone, Counting
<1>2. Inner /\ row' = row /\ file' = file
  BY <1>1 DEF CreateCounts, pairVars, historyVars, Inner, Elsewhere
<1>. QED BY <1>1, <1>2, InnerInv DEF AllRows, Counting

\* The run goes on to the next base, or ends.
LEMMA NextBaseRun ==
    ASSUME IngestInv, RunInv, pc # "down", NextBase, result # "Ok",
           UNCHANGED <<corpus, version, verified, file, touched, faulted>>,
           counted \subseteq counted', unread \subseteq unread',
           \A b \in Bases \ unread' : b = Base => Done(b)',
           Base \in touched /\ ~faulted => Tidy(Base)
    PROVE  RunInv'
<1>1. /\ Base \in todo /\ todo \subseteq Nat /\ verified \subseteq Bases
      /\ touched \cap todo \subseteq {Base}
      /\ \A b \in verified \ (todo \cup unread) : Done(b)
      /\ ~faulted => \A b \in touched \ todo : Tidy(b)
  BY CurrentBase, IngestAssumption DEF IngestInv, Types, RunInv, AllDone, AllTidy
<1>2. /\ todo' = todo \ {Base} /\ pc' \in {"down", "open"}
      /\ pc' = "open" => todo' # {} /\ result' = result
  BY <1>1 DEF NextBase, Return
<1>3. Rows'
  BY <1>2 DEF Rows, Counting
<1>4. AllDone'
  <2>1. ASSUME NEW b \in verified' \ (todo' \cup unread') PROVE Done(b)'
    <3>1. CASE b = Base
      BY <1>1, <2>1, <3>1
    <3>2. CASE b # Base
      <4>1. Done(b)
        BY <1>1, <1>2, <2>1, <3>2
      <4>. QED BY <4>1 DEF Done
    <3>. QED BY <3>1, <3>2
  <2>. QED BY <1>2, <2>1 DEF AllDone
<1>5. AllTidy'
  <2>1. ~faulted => \A b \in touched' \ todo' : Tidy(b)'
    BY <1>1, <1>2 DEF Tidy
  <2>2. pc' = "open" => Base' \in todo'
    <3>1. Base' = Min(todo')
      BY DEF Base
    <3>2. todo' \in SUBSET Nat /\ (pc' = "open" => todo' # {})
      BY <1>1, <1>2
    <3>. QED BY <3>1, <3>2, MinOf
  <2>3. touched' \cap todo' = {}
    BY <1>1, <1>2
  <2>. QED BY <1>2, <2>1, <2>2, <2>3 DEF AllTidy
<1>. QED BY <1>3, <1>4, <1>5 DEF RunInv

\* A zip is opened.
LEMMA OpenBaseRun ==
    ASSUME IngestInv, RunInv, NEW failing \in SUBSET Streams, OpenBase(failing)
    PROVE  RunInv'
<1>. DEFINE found == Found(failing)
            missing == {s \in Streams : found[s] = None}
<1>1. /\ pc = "open" /\ result # "Ok" /\ Base \in todo /\ Base \in Bases /\ Base \notin touched
      /\ touched \cap todo \subseteq {Base}
      /\ \A b \in verified \ (todo \cup unread) : Done(b)
      /\ ~faulted => \A b \in touched \ todo : Tidy(b)
  BY CurrentBase DEF OpenBase, IngestInv, RunInv, AllDone, AllTidy
<1>2. /\ UNCHANGED <<corpus, version, verified, file, out, touched, faulted, counted>>
      /\ unread' = (IF failing = {} THEN unread ELSE unread \cup {Base})
  BY DEF OpenBase, deviceVars
<1>3. CASE missing = {}
  <2>1. pc' = "createMessage" /\ rows' = found /\ todo' = todo /\ result' = result
    <3>1. missing # Streams
      BY <1>3 DEF Streams
    <3>. QED BY <1>3, <3>1 DEF OpenBase
  <2>2. Base' = Base
    BY <2>1 DEF Base
  <2>3. found = [s \in Streams |-> corpus[Base][s]] /\ \A s \in Streams : corpus[Base][s] # None
    <3>1. ASSUME NEW s \in Streams PROVE s \notin failing /\ corpus[Base][s] # None
      BY <1>3 DEF Found
    <3>. QED BY <3>1 DEF Found
  <2>4. Rows'
    BY <1>2, <2>1, <2>2, <2>3 DEF Rows, Opened, Counting
  <2>5. AllDone'
    <3>1. ASSUME NEW b \in verified' \ (todo' \cup unread') PROVE Done(b)'
      <4>1. Done(b)
        BY <1>1, <1>2, <2>1, <3>1
      <4>. QED BY <1>2, <4>1 DEF Done
    <3>. QED BY <1>1, <2>1, <3>1 DEF AllDone
  <2>6. AllTidy'
    <3>1. \A b \in touched' \ todo' : Tidy(b) => Tidy(b)'
      BY <1>2 DEF Tidy
    <3>. QED BY <1>1, <1>2, <2>1, <2>2, <3>1 DEF AllTidy
  <2>. QED BY <2>4, <2>5, <2>6 DEF RunInv
<1>4. CASE missing = Streams
  <2>1. NextBase
    <3>1. missing # {}
      BY <1>4 DEF Streams
    <3>. QED BY <1>4, <3>1 DEF OpenBase
  <2>2. ASSUME NEW b \in Bases \ unread', b = Base PROVE Done(b)'
    <3>1. failing = {}
      BY <1>2, <2>2
    <3>2. "message" \in Streams /\ found["message"] = None
      BY <1>4 DEF Streams
    <3>3. corpus[b]["message"] = None
      BY <2>2, <3>1, <3>2 DEF Found
    <3>. QED BY <1>2, <3>2, <3>3 DEF Done
  <2>. QED BY <1>1, <1>2, <2>1, <2>2, NextBaseRun
<1>5. CASE missing # {} /\ missing # Streams
  <2>1. pc' = "down" /\ todo' = {} /\ result' = "MissingPair"
    BY <1>5 DEF OpenBase, Return
  <2>2. Rows' /\ AllDone'
    BY <2>1 DEF Rows, AllDone, Counting
  <2>3. AllTidy'
    BY <1>1, <1>2, <2>1 DEF AllTidy, Tidy
  <2>. QED BY <2>2, <2>3 DEF RunInv
<1>. QED BY <1>3, <1>4, <1>5

\* A sidecar is written.
LEMMA WriteCountsRun == ASSUME IngestInv, RunInv, WriteCounts PROVE RunInv'
<1>1. /\ Types /\ pc = "writeCounts" /\ result # "Ok" /\ Complete /\ Opened /\ AllRows
      /\ \A s \in Streams : Stamped(file[Base][s], version, 0)
  BY DEF WriteCounts, IngestInv, Progress, RunInv, Rows, AllDone, Counting
<1>2. /\ NextBase /\ counted' = counted \cup {Base}
      /\ UNCHANGED <<corpus, version, verified, file, touched, faulted, unread>>
  BY DEF WriteCounts
<1>3. row - 1 \in Nat
  BY <1>1 DEF Types
<1>4. ASSUME NEW b \in Bases, b = Base PROVE Done(b)'
  <2>1. ASSUME NEW s \in Streams PROVE Len(file[Base][s]) = 2 * Len(corpus[Base][s])
    <3>1. rows[s] = corpus[Base][s] /\ row = Len(rows[s]) + 1 /\ Len(file[Base][s]) = 2 * (row - 1)
      BY <1>1 DEF Opened, AllRows, Complete
    <3>2. Len(rows[s]) \in Nat
      BY <1>1, CsvLen DEF Types
    <3>3. row - 1 = Len(rows[s])
      BY <3>1, <3>2
    <3>. QED BY <3>1, <3>3
  <2>. QED BY <1>1, <1>2, <1>4, <2>1 DEF Done
<1>5. Tidy(Base)
  <2>1. /\ Len(file[Base]["message"]) = 2 * (row - 1)
        /\ Len(file[Base]["orderbook"]) = 2 * (row - 1)
    BY <1>1 DEF Complete, Streams
  <2>. QED BY <1>3, <2>1, TidyLengths DEF Tidy
<1>. QED BY <1>1, <1>2, <1>4, <1>5, NextBaseRun

\* The writers are dropped.
LEMMA DropRun ==
    ASSUME IngestInv, RunInv, NEW lost \in [Streams -> 0..MaxHalves], Drop(lost)
    PROVE  RunInv'
<1>1. /\ Types /\ Progress /\ pc = "drop" /\ result # "Ok" /\ Base \in Bases /\ Base \in todo
      /\ touched \cap todo \subseteq {Base} /\ touched \subseteq Bases
      /\ ~faulted => TidyBuffered /\ \A b \in touched \ todo : Tidy(b)
  BY CurrentBase DEF Drop, IngestInv, Types, RunInv, AllDone, AllTidy
<1>2. PICK v \in Nat : InStep(v)
  BY <1>1 DEF Progress
<1>3. /\ Elsewhere
      /\ \A s \in Streams :
            Len(file'[Base][s]) = Len(file[Base][s]) + (Len(out[s]) - lost[s])
      /\ out = NoFile => \A b \in Bases : file'[b] = file[b]
  BY <1>1, <1>2, DropStep
<1>4. /\ UNCHANGED <<corpus, version, verified, unread, touched, counted, row>>
      /\ faulted => faulted'
      /\ ~faulted' => \A s \in Streams : lost[s] = 0
      /\ \/ /\ result = "none" /\ pc' = "createCounts"
            /\ UNCHANGED <<todo, rows, result>>
         \/ pc' = "down" /\ todo' = {} /\ result' = result
  BY DEF Drop, Fault, Return
<1>5. CASE pc' = "createCounts"
  <2>1. /\ result = "none" /\ result' = result /\ todo' = todo /\ rows' = rows
        /\ AllRows /\ out = NoFile
        /\ \A s \in Streams : Stamped(file[Base][s], version, 0)
    BY <1>1, <1>4, <1>5 DEF Progress, RunInv, Rows
  <2>2. Inner
    BY <1>1, <1>3, <1>4, <1>5, <2>1 DEF Inner
  <2>3. file'[Base] = file[Base]
    BY <1>1, <1>3, <2>1
  <2>. QED BY <1>4, <1>5, <2>1, <2>2, <2>3, InnerInv DEF AllRows, Counting
<1>6. CASE pc' = "down"
  <2>1. todo' = {} /\ result' = result
    BY <1>4, <1>6
  <2>2. Rows' /\ AllDone'
    BY <1>1, <1>6, <2>1 DEF Rows, AllDone, Counting
  <2>3. ASSUME ~faulted', NEW b \in touched' \ todo' PROVE Tidy(b)'
    <3>1. CASE b = Base
      <4>1. ASSUME NEW s \in Streams
            PROVE  Len(file'[Base][s]) = Len(file[Base][s]) + Len(out[s])
        <5>1. lost[s] = 0 /\ Len(out[s]) \in Nat
          BY <1>1, <1>4, <2>3, LenProperties DEF Types, Halves
        <5>2. Len(out[s]) - lost[s] = Len(out[s])
          BY <5>1
        <5>. QED BY <1>3, <5>2
      <4>2. "message" \in Streams /\ "orderbook" \in Streams
        BY DEF Streams
      <4>3. Paired(Len(file[Base]["message"]) + Len(out["message"]),
                   Len(file[Base]["orderbook"]) + Len(out["orderbook"]))
        BY <1>1, <1>4, <2>3 DEF TidyBuffered
      <4>4. Paired(Len(file'[Base]["message"]), Len(file'[Base]["orderbook"]))
        BY <4>1, <4>2, <4>3
      <4>. QED BY <3>1, <4>4 DEF Tidy
    <3>2. CASE b # Base
      <4>1. Tidy(b) /\ b \in Bases \ {Base}
        BY <1>1, <1>4, <2>3, <3>2
      <4>. QED BY <1>3, <4>1 DEF Tidy, Elsewhere
    <3>. QED BY <3>1, <3>2
  <2>4. AllTidy'
    BY <1>6, <2>3 DEF AllTidy
  <2>. QED BY <2>2, <2>4 DEF RunInv
<1>. QED BY <1>4, <1>5, <1>6

\* The other steps of main: what was said of the last run is no more asked.
LEMMA MainRun ==
    ASSUME IngestInv, RunInv,
           \/ \E bases \in SUBSET Bases : Start(bases) \/ StartFails(bases)
           \/ \E c \in Corpora : Replace(c)
           \/ CountsFail \/ Kill
    PROVE  RunInv'
<1>1. ASSUME NEW bases \in SUBSET Bases, Start(bases) PROVE RunInv'
  <2>1. /\ pc' \in {"down", "open"} /\ verified' = bases /\ todo' = bases /\ touched' = {}
        /\ pc' # "down" => result' # "Ok"
    BY <1>1 DEF Start
  <2>. QED BY <2>1 DEF RunInv, Rows, AllDone, AllTidy, Counting
<1>2. ASSUME NEW bases \in SUBSET Bases, StartFails(bases) PROVE RunInv'
  <2>1. pc' = "down" /\ result' = "Io" /\ touched' = {}
    BY <1>2 DEF StartFails
  <2>. QED BY <2>1 DEF RunInv, Rows, AllDone, AllTidy, Counting
<1>3. ASSUME NEW c \in Corpora, Replace(c) PROVE RunInv'
  <2>1. pc' = "down" /\ verified' = {} /\ touched' = {}
    BY <1>3 DEF Replace
  <2>. QED BY <2>1 DEF RunInv, Rows, AllDone, AllTidy, Counting
<1>4. CASE CountsFail
  <2>1. pc' = "down" /\ result' = "Io" /\ faulted'
    BY <1>4 DEF CountsFail, Return, Fault
  <2>. QED BY <2>1 DEF RunInv, Rows, AllDone, AllTidy, Counting
<1>5. CASE Kill
  <2>1. pc' = "down" /\ result' = "killed"
    BY <1>5 DEF Kill, Return
  <2>. QED BY <2>1 DEF RunInv, Rows, AllDone, AllTidy, Counting
<1>. QED BY <1>1, <1>2, <1>3, <1>4, <1>5

\* What is said of the last run holds in every reachable state.
THEOREM RunInvariant == Spec => []RunInv
<1>1. Init => RunInv
  BY DEF Init, RunInv, Rows, AllDone, AllTidy, Counting
<1>2. IngestInv /\ RunInv /\ [Next]_vars => RunInv'
  <2>. SUFFICES ASSUME IngestInv, RunInv, [Next]_vars PROVE RunInv'
    OBVIOUS
  <2>1. CASE \/ \E bases \in SUBSET Bases : Start(bases) \/ StartFails(bases)
             \/ \E c \in Corpora : Replace(c)
             \/ CountsFail \/ Kill
    BY <2>1, MainRun
  <2>2. CASE \E failing \in SUBSET Streams : OpenBase(failing)
    BY <2>2, OpenBaseRun
  <2>3. CASE CreateMessage \/ CreateOrderbook \/ CreateFails
    BY <2>3, CreateRun
  <2>4. CASE NextRow
    BY <2>4, NextRowRun
  <2>5. CASE \E mode \in {"stored", "spilled", "direct"} : WriteHalf(mode)
    BY <2>5, WriteHalfRun
  <2>6. CASE \E n \in 0..MaxHalves : WriteFails(n) \/ FlushFails(n)
    BY <2>6, FaultRun
  <2>7. CASE Flush
    BY <2>7, FlushRun
  <2>8. CASE \E lost \in [Streams -> 0..MaxHalves] : Drop(lost)
    BY <2>8, DropRun
  <2>9. CASE CreateCounts
    BY <2>9, CreateCountsRun
  <2>10. CASE WriteCounts
    BY <2>10, WriteCountsRun
  <2>11. CASE UNCHANGED vars
    <3>1. UNCHANGED <<corpus, version, pc, todo, rows, row, at, file, out, sidecar, result,
                      verified, unread, touched, counted, faulted, runs, faults>>
      BY <2>11 DEF vars, pairVars, deviceVars, historyVars
    <3>2. Rows'
      BY <3>1 DEF RunInv, Rows, Opened, AllRows, Base
    <3>3. AllDone'
      BY <3>1 DEF RunInv, AllDone, Done
    <3>4. AllTidy'
      BY <3>1 DEF RunInv, AllTidy, Tidy, TidyBuffered, Base
    <3>. QED BY <3>2, <3>3, <3>4 DEF RunInv
  <2>. QED BY <2>1, <2>2, <2>3, <2>4, <2>5, <2>6, <2>7, <2>8, <2>9, <2>10, <2>11 DEF Next
<1>. QED BY <1>1, <1>2, IngestInvariant, PTL DEF Spec

\* Half of an even number.
LEMMA Halved == ASSUME NEW n \in Nat PROVE (2 * n) \div 2 = n
OBVIOUS

\* After a run that ended in an error of the data, both files of every base it came to hold
\* whole frames, the message stream at most one more.
THEOREM ErrorsTidy == Spec => []ErrorsLeavePairs
<1>1. IngestInv /\ RunInv => ErrorsLeavePairs
  <2>. SUFFICES ASSUME IngestInv, RunInv, pc = "down", result # "killed", ~faulted,
                       NEW b \in touched
                PROVE  /\ \A s \in Streams : Whole(file[b][s])
                       /\ Count(b, "message") - Count(b, "orderbook") \in {0, 1}
    BY DEF ErrorsLeavePairs
  <2>1. b \in Bases /\ todo = {} /\ \A s \in Streams : file[b][s] \in Halves
    BY DEF IngestInv, Types
  <2>2. PICK v \in Nat : \A s \in Streams : Stamped(file[b][s], v, 0)
    BY <2>1 DEF IngestInv, Aligned
  <2>3. Tidy(b)
    BY <2>1 DEF RunInv, AllTidy
  <2>4. PICK k \in Nat : /\ Len(file[b]["orderbook"]) = 2 * k
                         /\ Len(file[b]["message"]) \in {2 * k, 2 * k + 2}
    BY <2>3 DEF Tidy, Paired
  <2>5. /\ Count(b, "message") = Len(file[b]["message"]) \div 2
        /\ Count(b, "orderbook") = Len(file[b]["orderbook"]) \div 2
    BY <2>1, <2>2, StampedPayloads DEF Count, Streams
  <2>6. Count(b, "orderbook") = k /\ Len(file[b]["orderbook"]) = 2 * Count(b, "orderbook")
    <3>1. (2 * k) \div 2 = k
      OBVIOUS
    <3>. QED BY <2>4, <2>5, <3>1
  <2>7. /\ Count(b, "message") \in {k, k + 1}
        /\ Len(file[b]["message"]) = 2 * Count(b, "message")
    <3>1. (2 * k) \div 2 = k /\ (2 * k + 2) \div 2 = k + 1 /\ 2 * (k + 1) = 2 * k + 2
      OBVIOUS
    <3>. QED BY <2>4, <2>5, <3>1
  <2>8. \A s \in Streams : Whole(file[b][s])
    BY <2>6, <2>7 DEF Whole, Count, Streams
  <2>9. Count(b, "message") - Count(b, "orderbook") \in {0, 1}
    BY <2>6, <2>7
  <2>. QED BY <2>8, <2>9
<1>. QED BY <1>1, IngestInvariant, RunInvariant, PTL

\* A run that returned Ok has left complete streams of both CSVs of every zip it could
\* read, whatever earlier runs had left of this corpus or another.
THEOREM SuccessComplete == Spec => []SuccessIsComplete
<1>1. IngestInv /\ RunInv => SuccessIsComplete
  <2>. SUFFICES ASSUME IngestInv, RunInv, result = "Ok", NEW b \in verified \ unread,
                       \A s \in Streams : corpus[b][s] # None
                PROVE  /\ b \in counted
                       /\ \A s \in Streams :
                             Payloads(file[b][s])
                                 = [k \in DOMAIN corpus[b][s] |-> [part |-> "payload",
                                                                   time |-> <<version, k>>]]
    BY DEF SuccessIsComplete
  <2>1. pc = "down" /\ todo = {} /\ b \in Bases /\ version \in Nat
    BY IngestAssumption DEF IngestInv, Types, RunInv, AllDone
  <2>2. /\ b \in counted
        /\ \A s \in Streams : /\ Stamped(file[b][s], version, 0)
                              /\ Len(file[b][s]) = 2 * Len(corpus[b][s])
    BY <2>1 DEF RunInv, AllDone, Done
  <2>3. ASSUME NEW s \in Streams
        PROVE  Payloads(file[b][s]) = [k \in DOMAIN corpus[b][s] |-> [part |-> "payload",
                                                                     time |-> <<version, k>>]]
    <3>1. corpus[b][s] \in Seq(Record)
      BY <2>1, <2>3, IngestAssumption DEF IngestInv, Types, Csv
    <3>2. DOMAIN corpus[b][s] = 1..Len(corpus[b][s]) /\ Len(corpus[b][s]) \in Nat
      BY <3>1, LenProperties
    <3>3. Len(file[b][s]) \div 2 = Len(corpus[b][s])
      <4>1. (2 * Len(corpus[b][s])) \div 2 = Len(corpus[b][s])
        BY <3>2, Halved
      <4>. QED BY <2>2, <4>1
    <3>4. ASSUME NEW k \in 1..Len(corpus[b][s])
          PROVE  file[b][s][2 * k] = [part |-> "payload", time |-> <<version, k>>]
      <4>1. /\ 2 * k \in 1..Len(file[b][s]) /\ 0 + 2 * k = 2 * k
            /\ (2 * k) % 2 = 0 /\ (2 * k + 1) \div 2 = k
        BY <2>2, <3>2
      <4>2. file[b][s][2 * k] = Stamp(version, 2 * k)
        BY <2>2, <4>1 DEF Stamped
      <4>. QED BY <4>1, <4>2 DEF Stamp
    <3>. QED BY <3>2, <3>3, <3>4 DEF Payloads
  <2>. QED BY <2>2, <2>3
<1>. QED BY <1>1, IngestInvariant, RunInvariant, PTL

=============================================================================
