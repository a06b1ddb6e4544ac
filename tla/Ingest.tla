------------------------------- MODULE Ingest -------------------------------
(***************************************************************************)
(* examples/ingest_lobster.rs: a program that turns each zip of a corpus,  *)
(* with one CSV of messages and one of orderbook rows, into two flatstream *)
(* files written side by side through StreamWriters on BufWriters, and a   *)
(* sidecar with their counts. It may meet bad rows, a faulty device or its *)
(* end at any step, and is run again over what the last run has left, of   *)
(* the same corpus or another.                                             *)
(***************************************************************************)
EXTENDS Integers, Sequences, SequencesExt, FiniteSets

CONSTANTS
    Bases,          \* the zips, as numbers in the order of their names
    Corpora,        \* contents of the zips: base -> [message, orderbook], each a Csv
    MaxRuns,        \* bound: runs of the program
    MaxFaults       \* bound: operations of the device that fail

\* An entry of a zip: rows, or None where no such entry can be read. A row is a record
\* of fields, "number" or "text", or Broken where the csv crate finds no record, as where
\* a row has more or fewer fields than the first.
None == << << "none" >> >>
Broken == << "broken" >>
Record == Seq({"number", "text"}) \cup {Broken}
Even(csv) == \A i, j \in DOMAIN csv :
                Broken \notin {csv[i], csv[j]} => Len(csv[i]) = Len(csv[j])
Csv == {csv \in Seq(Record) : Even(csv)} \cup {None}
Streams == {"message", "orderbook"}

ASSUME IngestAssumption ==
    /\ Bases \subseteq Nat /\ IsFiniteSet(Bases)
    /\ \A c \in Corpora, b \in Bases, s \in Streams : c[b][s] \in Csv
    /\ MaxRuns \in Nat
    /\ MaxFaults \in Nat

VARIABLES
    corpus,     \* what the zips hold now
    version,    \* how often it has changed
    pc,         \* where the run stands, "down" between runs
    todo,       \* bases of this run that are left; the least is the current one
    rows,       \* the two CSVs of the current base, read into memory
    row,        \* the row the two iterators have come to
    at,         \* the half of a frame that is written next: [stream, part]
    file,       \* the files: per base and stream the halves of frames on the device
    out,        \* the BufWriter of each stream: halves not yet given to the device
    sidecar,    \* the counts file of each base
    result,     \* what main returned, "killed", or "none"
    verified,   \* history: the bases of the last run
    unread,     \* history: those of its zips the device failed to read
    touched,    \* history: those whose streams the last run has created
    counted,    \* history: bases whose sidecar is younger than their streams
    faulted,    \* history: the device failed the last run after it had created a file
    runs,
    faults

pairVars    == <<rows, row, at>>
deviceVars  == <<file, out, sidecar>>
historyVars == <<verified, unread, touched, counted, faulted>>
vars == <<corpus, version, pc, todo, pairVars, deviceVars, result, historyVars, runs, faults>>

Base == Min(todo)
NoPair == [s \in Streams |-> None]
NoFile == [s \in Streams |-> << >>]
NoCounts == [kind |-> "missing", message |-> 0, orderbook |-> 0]
Torn == [NoCounts EXCEPT !.kind = "torn"]

\* A frame carries the timestamp of a message row, here the row and the version of the
\* corpus it was read from. A file cut inside a half counts as cut behind its header.
Half(part, r) == [part |-> part, time |-> <<version, r>>]

\* The payloads of frames one after another: a header, a payload, a header, a payload.
Payloads(halves) == [k \in 1..(Len(halves) \div 2) |-> halves[2 * k]]
Whole(halves) == Len(halves) = 2 * Len(Payloads(halves))

-----------------------------------------------------------------------------
(* The end of a run. *)

Return(r) ==
    /\ pc' = "down"
    /\ todo' = {}
    /\ rows' = NoPair
    /\ result' = r

\* An error inside write_pair_streams: the writers are dropped before main returns it.
Fail(r) ==
    /\ pc' = "drop"
    /\ result' = r
    /\ UNCHANGED <<todo, rows>>

Fault ==
    /\ faults < MaxFaults
    /\ faults' = faults + 1
    /\ faulted' = TRUE

-----------------------------------------------------------------------------
(* main *)

\* The verified bases, in order; with none there is nothing to do.
Start(bases) ==
    /\ pc = "down"
    /\ runs < MaxRuns
    /\ runs' = runs + 1
    /\ verified' = bases
    /\ unread' = {}
    /\ touched' = {}
    /\ faulted' = FALSE
    /\ result' = IF bases = {} THEN "Ok" ELSE "none"
    /\ todo' = bases
    /\ pc' = IF bases = {} THEN "down" ELSE "open"
    /\ UNCHANGED <<corpus, version, pairVars, deviceVars, counted, faults>>

\* create_dir_all of the output directory fails.
StartFails(bases) ==
    /\ pc = "down"
    /\ runs < MaxRuns
    /\ bases # {}
    /\ faults < MaxFaults
    /\ faults' = faults + 1
    /\ runs' = runs + 1
    /\ verified' = bases
    /\ unread' = {}
    /\ touched' = {}
    /\ faulted' = FALSE
    /\ result' = "Io"
    /\ UNCHANGED <<corpus, version, pc, todo, pairVars, deviceVars, counted>>

\* The corpus is replaced between two runs; the history of the last run ends with it.
Replace(c) ==
    /\ pc = "down"
    /\ version < runs
    /\ version' = version + 1
    /\ corpus' = c
    /\ verified' = {}
    /\ unread' = {}
    /\ touched' = {}
    /\ UNCHANGED <<pc, todo, pairVars, deviceVars, result, counted, faulted, runs, faults>>

\* The next base, or the end of main.
NextBase ==
    IF todo = {Base}
    THEN Return("Ok")
    ELSE pc' = "open" /\ todo' = todo \ {Base} /\ rows' = NoPair /\ UNCHANGED result

\* open_csv_from_zip, once per stream: any error counts as an entry that is not there,
\* also one of the device. A zip without either is skipped.
Found(failing) == [s \in Streams |-> IF s \in failing THEN None ELSE corpus[Base][s]]
OpenBase(failing) ==
    /\ pc = "open"
    /\ IF failing = {}
       THEN UNCHANGED <<faults, unread>>
       ELSE /\ faults < MaxFaults
            /\ faults' = faults + 1
            /\ unread' = unread \cup {Base}
    /\ LET found   == Found(failing)
           missing == {s \in Streams : found[s] = None}
       IN  CASE missing = {}      -> pc' = "createMessage" /\ rows' = found
                                     /\ UNCHANGED <<todo, result>>
             [] missing = Streams -> NextBase
             [] OTHER             -> Return("MissingPair")
    /\ UNCHANGED <<corpus, version, row, at, deviceVars, verified, touched, counted, faulted, runs>>

\* The sidecar: fs::write creates the file and then fills it.
CountsOf == [kind |-> "counts", message |-> row - 1, orderbook |-> row - 1]
CreateCounts ==
    /\ pc = "createCounts"
    /\ sidecar' = [sidecar EXCEPT ![Base] = Torn]
    /\ pc' = "writeCounts"
    /\ UNCHANGED <<corpus, version, todo, pairVars, file, out, result, historyVars, runs, faults>>

WriteCounts ==
    /\ pc = "writeCounts"
    /\ sidecar' = [sidecar EXCEPT ![Base] = CountsOf]
    /\ counted' = counted \cup {Base}
    /\ NextBase
    /\ UNCHANGED <<corpus, version, row, at, file, out, verified, unread, touched, faulted, runs, faults>>

CountsFail ==
    /\ pc \in {"createCounts", "writeCounts"}
    /\ Fault
    /\ Return("Io")
    /\ UNCHANGED <<corpus, version, row, at, deviceVars, verified, unread, touched, counted, runs>>

-----------------------------------------------------------------------------
(* write_pair_streams *)

\* What File::create makes of a file there already is.
OpenedAsIs(halves) == halves  \* mutant
Truncated(halves) == << >>

CreateFile(stream, next) ==
    /\ file' = [file EXCEPT ![Base][stream] = Truncated(@)]
    /\ touched' = touched \cup {Base}
    /\ counted' = counted \ {Base}
    /\ pc' = next
    /\ row' = 1
    /\ UNCHANGED <<corpus, version, todo, rows, at, out, sidecar, result,
                   verified, unread, faulted, runs, faults>>
CreateMessage == pc = "createMessage" /\ CreateFile("message", "createOrderbook")
CreateOrderbook == pc = "createOrderbook" /\ CreateFile("orderbook", "row")

CreateFails ==
    /\ pc \in {"createMessage", "createOrderbook"}
    /\ Fault
    /\ Fail("Io")
    /\ UNCHANGED <<corpus, version, row, at, deviceVars, verified, unread, touched, counted, runs>>

\* What the two iterators yield.
End == << "end" >>
Yielded(stream) == IF row <= Len(rows[stream]) THEN rows[stream][row] ELSE End

\* The match on them: the end, two rows, or the error.
StopsAtShorter(m, o) == IF End \in {m, o} THEN "end" ELSE "rows"  \* mutant
Matched(m, o) ==
    IF m = End /\ o = End THEN "end"
    ELSE IF Broken \in {m, o} THEN "Csv"
    ELSE IF End \in {m, o} THEN "LengthMismatch" ELSE "rows"

\* parse_message_row takes six fields, and objects to the first that is not there or
\* not a number.
MessageFields == 1..6
ParseMessageRow(record) ==
    LET bad == {k \in MessageFields : k > Len(record) \/ record[k] = "text"}
    IN  IF bad = {} THEN "frame" ELSE IF Min(bad) > Len(record) THEN "Missing" ELSE "Parse"

\* An orderbook row is levels of four numbers each; what is left over is not looked at.
Levels(record) == Len(record) \div 4
LevelsParse(record) == \A k \in 1..(4 * Levels(record)) : record[k] = "number"

NextRow ==
    /\ pc = "row"
    /\ LET m       == Yielded("message")
           matched == Matched(m, Yielded("orderbook"))
           verdict == IF matched = "rows" THEN ParseMessageRow(m) ELSE matched
       IN  CASE verdict = "end"   -> pc' = "flushMessage" /\ UNCHANGED <<todo, rows, result, at>>
             [] verdict = "frame" -> /\ pc' = "frame"
                                     /\ at' = [stream |-> "message", part |-> "header"]
                                     /\ UNCHANGED <<todo, rows, result>>
             [] OTHER             -> Fail(verdict) /\ UNCHANGED at
    /\ UNCHANGED <<corpus, version, row, deviceVars, historyVars, runs, faults>>

\* write_all of a BufWriter: the half is stored, stored after the buffer has gone to the
\* device, or follows it there if it is larger than the buffer.
Put(halves, mode) ==
    LET stream == at.stream
        given  == CASE mode = "stored"  -> << >>
                    [] mode = "spilled" -> out[stream]
                    [] mode = "direct"  -> out[stream] \o halves
    IN  /\ file' = [file EXCEPT ![Base][stream] = @ \o given]
        /\ out' = [out EXCEPT ![stream] = CASE mode = "stored"  -> @ \o halves
                                            [] mode = "spilled" -> halves
                                            [] mode = "direct"  -> << >>]

\* The timestamp of the frame written next: an orderbook frame takes the message row's.
OfRowBefore(stream, r) == IF stream = "message" \/ r = 1 THEN r ELSE r - 1  \* mutant
TimeOf(stream, r) == r

\* The orderbook row is parsed when the message frame has been written.
AfterHalf ==
    CASE at.part = "header" ->
            at' = [at EXCEPT !.part = "payload"] /\ UNCHANGED <<pc, row, todo, rows, result>>
      [] at.part = "payload" /\ at.stream = "message" ->
            IF LevelsParse(Yielded("orderbook"))
            THEN /\ at' = [stream |-> "orderbook", part |-> "header"]
                 /\ UNCHANGED <<pc, row, todo, rows, result>>
            ELSE Fail("Parse") /\ UNCHANGED <<row, at>>
      [] at.part = "payload" /\ at.stream = "orderbook" ->
            row' = row + 1 /\ pc' = "row" /\ UNCHANGED <<at, todo, rows, result>>

WriteHalf(mode) ==
    /\ pc = "frame"
    /\ mode = "direct" => at.part = "payload"
    /\ Put(<< Half(at.part, TimeOf(at.stream, row)) >>, mode)
    /\ AfterHalf
    /\ UNCHANGED <<corpus, version, sidecar, historyVars, runs, faults>>

\* Giving a buffer to the device: n halves get there, and the rest stays in the buffer.
Spill(stream, n) ==
    /\ n <= Len(out[stream])
    /\ file' = [file EXCEPT ![Base][stream] = @ \o SubSeq(out[stream], 1, n)]
    /\ out' = [out EXCEPT ![stream] = SubSeq(@, n + 1, Len(@))]

WriteFails(n) ==
    /\ pc = "frame"
    /\ Spill(at.stream, n)
    /\ Fault
    /\ Fail("Io")
    /\ UNCHANGED <<corpus, version, row, at, sidecar, verified, unread, touched, counted, runs>>

\* The two flushes, the message stream first.
Flushing == IF pc = "flushMessage" THEN "message" ELSE "orderbook"
NotFlushed(stream) == 0  \* mutant
Flushed(stream) == Len(out[stream])
Flush ==
    /\ pc \in {"flushMessage", "flushOrderbook"}
    /\ Spill(Flushing, Flushed(Flushing))
    /\ pc' = IF pc = "flushMessage" THEN "flushOrderbook" ELSE "drop"
    /\ UNCHANGED <<corpus, version, todo, pairVars, sidecar, result, historyVars, runs, faults>>

FlushFails(n) ==
    /\ pc \in {"flushMessage", "flushOrderbook"}
    /\ n < Len(out[Flushing])
    /\ Spill(Flushing, n)
    /\ Fault
    /\ Fail("Io")
    /\ UNCHANGED <<corpus, version, row, at, sidecar, verified, unread, touched, counted, runs>>

\* The writers are dropped as the function returns. What a BufWriter still holds goes to
\* the device then, and an error of that is ignored.
LostOnDrop(stream) == 0  \* mutant
GivenOnDrop(stream) == Len(out[stream])
Drop(lost) ==
    /\ pc = "drop"
    /\ \A s \in Streams : lost[s] <= GivenOnDrop(s)
    /\ IF \A s \in Streams : lost[s] = 0 THEN UNCHANGED <<faults, faulted>> ELSE Fault
    /\ file' = [file EXCEPT ![Base] =
                   [s \in Streams |-> @[s] \o SubSeq(out[s], 1, GivenOnDrop(s) - lost[s])]]
    /\ out' = NoFile
    /\ IF result = "none"
       THEN pc' = "createCounts" /\ UNCHANGED <<todo, rows, result>>
       ELSE Return(result)
    /\ UNCHANGED <<corpus, version, row, at, sidecar, verified, unread, touched, counted, runs>>

\* The process is killed.
Kill ==
    /\ pc # "down"
    /\ out' = NoFile
    /\ Return("killed")
    /\ UNCHANGED <<corpus, version, row, at, file, sidecar, historyVars, runs, faults>>

-----------------------------------------------------------------------------

Init ==
    /\ corpus \in Corpora
    /\ version = 0
    /\ pc = "down"
    /\ todo = {}
    /\ rows = NoPair
    /\ row = 1
    /\ at = [stream |-> "message", part |-> "header"]
    /\ file = [b \in Bases |-> NoFile]
    /\ out = NoFile
    /\ sidecar = [b \in Bases |-> NoCounts]
    /\ result = "none"
    /\ verified = {}
    /\ unread = {}
    /\ touched = {}
    /\ counted = {}
    /\ faulted = FALSE
    /\ runs = 0
    /\ faults = 0

\* Halves a buffer may hold: those of the rows of the largest CSV.
MaxHalves == 2 * Max({0} \cup {Len(c[b][s]) : c \in Corpora, b \in Bases, s \in Streams})

Next ==
    \/ \E bases \in SUBSET Bases : Start(bases) \/ StartFails(bases)
    \/ \E c \in Corpora : Replace(c)
    \/ \E failing \in SUBSET Streams : OpenBase(failing)
    \/ CreateMessage
    \/ CreateOrderbook
    \/ CreateFails
    \/ NextRow
    \/ \E mode \in {"stored", "spilled", "direct"} : WriteHalf(mode)
    \/ \E n \in 0..MaxHalves : WriteFails(n)
    \/ Flush
    \/ \E n \in 0..MaxHalves : FlushFails(n)
    \/ \E lost \in [Streams -> 0..MaxHalves] : Drop(lost)
    \/ CreateCounts
    \/ WriteCounts
    \/ CountsFail
    \/ Kill

Spec == Init /\ [][Next]_vars

-----------------------------------------------------------------------------
(* Properties. *)

\* Frames one after another, the last of them perhaps without its payload.
Frames(halves) ==
    \A i \in DOMAIN halves :
        /\ halves[i].part = IF i % 2 = 1 THEN "header" ELSE "payload"
        /\ i % 2 = 0 => halves[i].time = halves[i - 1].time

\* The type invariant; a file with its buffer behind it holds frames one after another.
TypeOK ==
    /\ corpus \in Corpora
    /\ version \in 0..MaxRuns
    /\ pc \in {"down", "open", "createMessage", "createOrderbook", "row", "frame",
               "flushMessage", "flushOrderbook", "drop", "createCounts", "writeCounts"}
    /\ (pc = "down") = (todo = {})
    /\ \A s \in Streams : rows[s] \in Csv
    /\ at \in [stream : Streams, part : {"header", "payload"}]
    /\ \A b \in Bases, s \in Streams :
          Frames(IF todo # {} /\ b = Base THEN file[b][s] \o out[s] ELSE file[b][s])
    /\ \A b \in Bases : sidecar[b].kind \in {"missing", "torn", "counts"}
    /\ verified \cup counted \subseteq Bases
    /\ unread \cup touched \subseteq verified
    /\ runs \in 0..MaxRuns
    /\ faults \in 0..MaxFaults

Count(b, stream) == Len(Payloads(file[b][stream]))

(***************************************************************************)
(* "the k-th row inherits the time from the k-th message row" (the         *)
(* integration test): at every moment, also after a kill, a fault or a     *)
(* rerun on another corpus, the k-th whole frames of the two files of a    *)
(* base carry the same timestamp.                                          *)
(***************************************************************************)
PairsAligned ==
    \A b \in Bases : \A k \in 1..Min({Count(b, s) : s \in Streams}) :
        Payloads(file[b]["message"])[k].time = Payloads(file[b]["orderbook"])[k].time

(***************************************************************************)
(* A sidecar written after its streams gives the number of frames in each, *)
(* and the streams end behind a whole frame: no fault of the device and no *)
(* kill comes between without a rerun starting on the streams first.       *)
(***************************************************************************)
SidecarsTrue ==
    \A b \in counted :
        /\ \A s \in Streams : Whole(file[b][s])
        /\ sidecar[b] = [kind |-> "counts", message |-> Count(b, "message"),
                         orderbook |-> Count(b, "orderbook")]

(***************************************************************************)
(* A run that ends in an error of the data leaves whole frames in both     *)
(* files of every base it came to, with at most the message of the row it  *)
(* failed on in front of its orderbook row.                                *)
(***************************************************************************)
ErrorsLeavePairs ==
    pc = "down" /\ result # "killed" /\ ~faulted =>
        \A b \in touched :
            /\ \A s \in Streams : Whole(file[b][s])
            /\ Count(b, "message") - Count(b, "orderbook") \in {0, 1}

(***************************************************************************)
(* A run that returns Ok has turned both CSVs of every verified zip it     *)
(* could read into complete streams and counted them, whatever earlier     *)
(* runs have left.                                                         *)
(***************************************************************************)
SuccessIsComplete ==
    result = "Ok" =>
        \A b \in verified \ unread :
            (\A s \in Streams : corpus[b][s] # None) =>
                /\ b \in counted
                /\ \A s \in Streams :
                      Payloads(file[b][s])
                          = [k \in DOMAIN corpus[b][s] |-> [part |-> "payload",
                                                            time |-> <<version, k>>]]

=============================================================================
