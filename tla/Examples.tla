------------------------------ MODULE Examples ------------------------------
(***************************************************************************)
(* The example programs of the library: what each of them writes, reads    *)
(* back and asserts, for any payload of the kind it takes instead of the   *)
(* one in its text; and the reading side of a WriteStack, with the         *)
(* deframer that mirrors the writer's framer.                              *)
(***************************************************************************)
EXTENDS WriteStack, ReadStack

\* What one write of p through a framer returns, if the sink takes it.
Outcome(framer, p) ==
    LET refusers == {k \in DOMAIN framer : Refuses(framer[k], p)}
    IN  CASE refusers = {} -> IF Fits(p) THEN "Ok" ELSE "InvalidFrame"
          [] OTHER -> IF framer[IndexMin(refusers)].kind = "bounded"
                      THEN "InvalidFrame" ELSE "ValidationFailed"

\* The bytes of a stream of frames, and how many are of their payloads.
Stream(f, payloads) == Joined([k \in DOMAIN payloads |-> Frame(f, payloads[k])])
Summed(numbers) ==
    LET upTo[k \in 0..Len(numbers)] == IF k = 0 THEN 0 ELSE upTo[k - 1] + numbers[k]
    IN  upTo[Len(numbers)]
Total(payloads) == Summed([k \in DOMAIN payloads |-> Len(payloads[k])])

Readable(p) == Len(p) <= DefaultMaxFrameLen
Plain(f) == NewDeframer(f)
ReadAll(deframer, type, bytes) == Process(deframer, type, bytes, 0)

-----------------------------------------------------------------------------
(* The programs. *)

\* bounded_adapters_example: a payload between the two limits.
BoundedAdapters(p, generous, tight) ==
    LET bytes        == Stream(Default, << p >>)
        reading(max) == ReadAll(WithMaxFrameLen(NewDeframer(Default), max), Raw, bytes)
    IN  /\ Outcome(Bounded(<< >>, generous), p) = "Ok"
        /\ reading(generous).end = "None" /\ Total(reading(generous).payloads) = Len(p)
        /\ Outcome(Bounded(<< >>, tight), p) = "InvalidFrame"
        /\ reading(tight).end = "InvalidFrame"

\* sized_checksums_example: measure_overhead, and a flipped byte at the end.
MeasureOverhead(f, payloads) ==
    (Len(Stream(f, payloads)) - Total(payloads)) \div Len(payloads)

SizedChecksums(f, payloads) ==
    LET wire == Stream(f, payloads)
    IN  /\ ReadAll(Plain(f), Raw, wire).payloads = payloads
        /\ MeasureOverhead(f, payloads) = 4 + SizeOf(f.alg)

Flip(bytes) == [bytes EXCEPT ![Len(bytes)] = (@ + 1) % Base]
FlippedByte(alg, p) ==
    ReadMessage(Plain(WithChecksum(alg)), Flip(Stream(WithChecksum(alg), << p >>)), 0).kind
        = "ChecksumMismatch"

\* The flip changes what the checksum field can hold, as with XXH3 it always should.
Flips(alg, p) ==
    Readable(p) /\ p # << >> /\ SumField(alg, Flip(p)) # SumField(alg, p)

\* observer_adapters_example: the observer of the writer sees every payload it is given.
ObserverAdapters(f, payloads) ==
    LET read == ReadAll(ObservedBy(Plain(f)), Raw, Stream(f, payloads)).seen[1]
    IN  Len(read) = Len(payloads) /\ Total(read) = Total(payloads)

\* validation_example: an event, and a payload that is no table.
ValidationExample(event, invalid) ==
    LET readWith(v, p) == ReadAll(ValidatedBy(Plain(Default), v), Raw, Stream(Default, << p >>)).end
    IN  /\ \A v \in { NoValidator, TableRootValidator,
                      Add(Add(EmptyComposite, SizeValidator(1, MaxU32)), TableRootValidator) } :
              readWith(v, event) = "None"
        /\ readWith(TableRootValidator, invalid) = "ValidationFailed"
        /\ Outcome(WithValidator(<< >>, TableRootValidator), event) = "Ok"

\* typed_reading_example: payloads with a root of the type come back as such, in any format.
TypedReading(f, type, payloads) ==
    ReadAll(Plain(f), type, Stream(f, payloads)).payloads = payloads

\* typed_reading_flatc_example counts three events of the generated type.
TypedReadingFlatc(type, event) ==
    LET events == << event, event, event >>
    IN  Len(ReadAll(Plain(Default), type, Stream(Default, events)).payloads) = Len(events)

\* custom_framer_example: the closure takes the root of each payload itself.
CustomFramer(type, p) ==
    ReadAll(Plain(MagicHeader), type, Stream(MagicHeader, << p >>)).payloads = << p >>

-----------------------------------------------------------------------------
(* multiple_builders_example: a builder for each kind of message.          *)

Builders == {"control", "telemetry", "file"}
Workload(control, telemetry, file) ==
    LET of(builder, p) == [builder |-> builder, payload |-> p]
    IN  << of("control", control), of("control", control), of("telemetry", telemetry),
           of("file", file), of("control", control), of("control", control) >>

\* reset and serialize: the builder of its kind holds the message and nothing else.
Serialized(held, message) == [held EXCEPT ![message.builder] = message.payload]

MultipleBuilders(messages) ==
    LET held[k \in 0..Len(messages)] ==
            IF k = 0 THEN [b \in Builders |-> << >>] ELSE Serialized(held[k - 1], messages[k])
        wire == Stream(Default, [k \in DOMAIN messages |-> held[k][messages[k].builder]])
        read == ReadAll(Plain(Default), Raw, wire).payloads
    IN  /\ Len(read) = Len(messages)
        /\ \A i \in DOMAIN messages : read[i] = messages[i].payload

-----------------------------------------------------------------------------
(* adaptive_policy: one large blob, then fifteen small ones.               *)

Memory == INSTANCE Policy

\* `grown` is the capacity that the large blob leaves the builder with: the
\* policy fires once, on the tenth small blob.
AdaptivePolicy(grown) ==
    LET blob(n) == 8 + n
        config  == Memory!Wrapped(Memory!WithBaseline(Memory!NewAdaptive(4, 10), 16 * 1024), TRUE)
        write(s, size) ==
            LET verdict == Memory!ShouldReset(s.policy, size, s.cap, 0)
            IN  IF s.cap <= config.baseline
                THEN [s EXCEPT !.reason = "none"]
                ELSE [policy |-> verdict.state,
                      cap    |-> IF verdict.reason = "none" THEN s.cap ELSE config.baseline,
                      reason |-> verdict.reason]
        large == write([policy |-> Memory!NewPolicy(config), cap |-> grown, reason |-> "none"],
                       blob(1024 * 1024))
        small[i \in 0..15] == IF i = 0 THEN large ELSE write(small[i - 1], blob(100))
    IN  /\ large.reason = "none"
        /\ \A i \in 1..15 : small[i].reason = IF i = 10 THEN "MessageCount" ELSE "none"

-----------------------------------------------------------------------------
(* telemetry_agent: the ticks, with tenths of km/h and thousandths of the  *)
(* battery so that all are integers, and what the program counts in them.  *)

EVENT_COUNT == 2000
Ticks == 0..(EVENT_COUNT - 1)
ChannelsAt(i) ==
    [timestamp |-> i,           \* in hundredths of a second
     speed     |-> 5 * (i % 200),
     rpm       |-> 800 + i,
     temp      |-> 20 + (i % 40),
     battery   |-> 100000 - 45 * i]

SpeedAlerts == {i \in Ticks : ChannelsAt(i).speed > 800}
TempAlerts == {i \in Ticks : ChannelsAt(i).temp > 50}
BatteryAlerts == {i \in Ticks : ChannelsAt(i).battery < 20000}
\* Summed by periods of the channel, which keeps the recursion short.
SumOf(channel, period) ==
    Summed([c \in 1..(EVENT_COUNT \div period) |->
               Summed([j \in 1..period |-> ChannelsAt(period * (c - 1) + j - 1)[channel]])])

\* The averages are 49.75 km/h, 39.5 degrees and 1799.5 revolutions.
TelemetryAgent ==
    /\ Cardinality(SpeedAlerts) = 390
    /\ Cardinality(TempAlerts) = 450
    /\ Cardinality(BatteryAlerts) = 222
    /\ 2 * SumOf("speed", 200) = 995 * EVENT_COUNT
    /\ 2 * SumOf("temp", 40) = 79 * EVENT_COUNT
    /\ 2 * SumOf("rpm", 40) = 3599 * EVENT_COUNT
    /\ LET first == IndexMin(SpeedAlerts)
       IN  first + 1 = 162 /\ ChannelsAt(first).timestamp = 161

-----------------------------------------------------------------------------
(* Properties. *)

Types == UNION {Shape(p).roots : p \in Payloads}

ASSUME ExamplesAssumption ==
    /\ Raw \notin Types
    /\ \A p \in Payloads : Shape(p).depth \in Nat /\ Shape(p).tables \in Nat

\* A reader with the default limit gets to the end of the accepted payloads, or to the
\* first of them that is too long for it.
Within ==
    IndexMin({i \in DOMAIN accepted : ~Readable(accepted[i])} \cup {Len(accepted) + 1}) - 1
EndWithin == IF Within = Len(accepted) THEN "None" ELSE "InvalidFrame"

\* The reader built like the writer: the same validators and observers in the same order,
\* and the tightest bound of the framer as its max_frame_len.
Tightest ==
    IndexMin({DefaultMaxFrameLen} \cup
             {stack[k].max : k \in {j \in DOMAIN stack : stack[j].kind = "bounded"}})
Mirror ==
    LET around[k \in 0..Len(stack)] ==
            IF k = 0 THEN WithMaxFrameLen(NewDeframer(format), Tightest)
            ELSE LET adapter == stack[Len(stack) + 1 - k]
                 IN  CASE adapter.kind = "bounded"  -> around[k - 1]
                       [] adapter.kind = "validate" -> ValidatedBy(around[k - 1], adapter.validator)
                       [] adapter.kind = "observe"  -> ObservedBy(around[k - 1])
    IN  around[Len(stack)]

(***************************************************************************)
(* Such a reader reads everything the writer has accepted, to the end, and *)
(* its observers are given all of it (validation_example,                  *)
(* observer_adapters_example): no adapter of the reading side is stricter  *)
(* than its counterpart. Only the reader's default limit, which no framer  *)
(* has unless it is bounded, may stop it before.                           *)
(***************************************************************************)
MirrorReads ==
    Clean =>
        LET read  == ReadAll(Mirror, Raw, sink)
            given == SubSeq(accepted, 1, Within)
        IN  /\ read.payloads = given
            /\ read.end = EndWithin
            /\ \A k \in DOMAIN Mirror.adapters :
                  Mirror.adapters[k].kind = "observe" => read.seen[k] = given

\* The writer lets only payloads with a root of this type through, and with limits
\* no wider than those of flatbuffers::root.
Vouched(type) ==
    \E k \in DOMAIN stack :
        /\ stack[k].kind = "validate"
        /\ \E v \in Range(Parts(stack[k].validator)) :
              /\ v.kind = "typed" /\ v.type = type
              /\ v.limits.depth <= DefaultLimits.depth
              /\ v.limits.tables <= DefaultLimits.tables

(***************************************************************************)
(* A typed scan gives the roots up to the first payload that has none and  *)
(* fails there, which it never does on a stream whose writer validated the *)
(* type; a scan that leaves early has examined nothing behind the first    *)
(* payload it wanted, and a reader goes on from there with the very next   *)
(* one (telemetry_agent). All of it within the reader's default limit.     *)
(***************************************************************************)
TypedReads ==
    Clean =>
        /\ \A type \in Types :
              LET rootless == {i \in 1..Within : ~Verifies(type, DefaultLimits, accepted[i])}
                  rooted   == IndexMin(rootless \cup {Within + 1}) - 1
                  read     == ReadAll(Plain(format), type, sink)
              IN  /\ read.payloads = SubSeq(accepted, 1, rooted)
                  /\ read.end = IF rootless = {} THEN EndWithin ELSE "FlatbuffersError"
                  /\ Vouched(type) => rootless = {}
        /\ \A p \in Payloads :
              LET hits == {i \in 1..Within : accepted[i] = p}
                  scan == FirstWanted(Plain(format), Raw, {p}, sink)
              IN  /\ scan.examined = IndexMin(hits \cup {Within})
                  /\ scan.end = IF hits = {} THEN EndWithin ELSE "found"
                  /\ Process(Plain(format), Raw, sink, scan.next).payloads
                        = SubSeq(accepted, scan.examined + 1, Within)

IsEvent(p) == Readable(p) /\ RootVerdict(TableRootValidator, p) = "ok"

\* Those of the programs that use the default framer only.
DefaultExamplesHold ==
    /\ \A p \in Payloads, generous, tight \in ReaderLimits :
          tight < Len(p) /\ Len(p) <= generous => BoundedAdapters(p, generous, tight)
    /\ \A event, invalid \in Payloads :
          IsEvent(event) /\ Readable(invalid) /\ ~IsEvent(invalid)
              => ValidationExample(event, invalid)
    /\ \A p \in {r \in Payloads : Readable(r)}, type \in Types :
          Verifies(type, DefaultLimits, p) => TypedReadingFlatc(type, p)
    /\ \A control, telemetry, file \in {r \in Payloads : Readable(r)} :
          MultipleBuilders(Workload(control, telemetry, file))
    /\ \A grown \in {1024 * 1024 + 8, 2 * 1024 * 1024} : AdaptivePolicy(grown)
    /\ TelemetryAgent

(***************************************************************************)
(* Every example program's assertions hold, in each format it is shown     *)
(* with or might be, and for all payloads of the kind it writes.           *)
(***************************************************************************)
ExamplesHold ==
    calls = 0 /\ stack = << >> =>
        /\ \A p, q \in {r \in Payloads : Readable(r)} :
              /\ format.kind # "magic" => SizedChecksums(format, << p, q >>)
              /\ ObserverAdapters(format, << p, q >>)
              /\ \A type \in Types :
                    Verifies(type, DefaultLimits, p) /\ Verifies(type, DefaultLimits, q)
                        => TypedReading(format, type, << p, q >>)
        /\ format.kind = "checksum" =>
              \A p \in Payloads : Flips(format.alg, p) => FlippedByte(format.alg, p)
        /\ format = MagicHeader =>
              \A p \in {r \in Payloads : Readable(r)}, type \in Types :
                  Verifies(type, DefaultLimits, p) => CustomFramer(type, p)
        /\ format = Default => DefaultExamplesHold

=============================================================================
