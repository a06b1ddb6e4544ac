# A verification of flatstream-rs

TLA+ models, TLC runs and TLAPS proofs for `flatstream`, a Rust library that
frames FlatBuffers messages on a byte stream, reads them back, repairs a journal
after a crash and bounds the memory of long-running writers and readers.
Paths are relative to the repository's root; the library is `src/*.rs`.

## 1. Inventory

| Component | Source | State it keeps | Operations |
|---|---|---|---|
| Framers | `src/framing.rs:50-127` | none; the bytes are the sink's | `frame_and_write`: header (`len`, or `len` and checksum) and payload, two `write_all` |
| Deframers | `src/framing.rs:145-366` | none; the position is the stream's | `read_and_deframe`: a one-byte probe, the rest of the header, the bound, the payload, the checksum |
| Adapters | `src/framing.rs:372-574` | none | bound, validate, observe, in any order around a framer or deframer |
| `recover`, `recover_file` | `src/recover.rs` | counter, report, cursor of the file | scan from 0, count intact frames, classify the end, seek back |
| `StreamWriter` | `src/writer.rs` | sink, builder, policy slot | `write`, `write_finished`, `flush`, installing a policy |
| `StreamReader` | `src/reader.rs` | source, buffer (a high-water mark), policy slot, `pending_shrink` | `read_message`, `process_all`, `messages`, typed variants, `reserve` |
| Memory policies | `src/policy.rs` | counters, time of the first signal, "large seen" | `should_reset`, `on_reclaim`, `baseline_capacity` |
| Checksums | `src/checksum.rs` | none | `calculate`, `verify`, little-endian field of `SIZE` bytes |
| Validators | `src/validation.rs` | none | `validate` |
| Errors, traits | `src/error.rs`, `src/traits.rs` | none | kinds of failure, `serialize`, `from_payload` |
| LOBSTER ingest | `examples/ingest_lobster.rs` | two output files, their buffers, a sidecar | one pass over a corpus of zips |
| Other examples | `examples/*.rs` | none of their own | each writes a stream, reads it back and asserts something of it |

**How they interact.** A `StreamWriter` serializes an item into its builder, gives
the finished bytes to its framer, which writes to the sink, and then consults its
policy. A `StreamReader` lets its deframer fill its buffer from the source, hands a
borrowed slice to the caller, and consults its policy; the shrink the policy asks
for waits until the next read. `recover_file` runs the same deframer over a file
through a counting reader. Everything is sequential and owned: there is no thread,
lock or channel in the library. What makes it hard is the outside: the process or
the machine that stops between any two bytes, sinks and sources that take or give
only part of what is asked, or fail half way, callers that go on after an error,
and state that one call leaves for a later one.

**What makes each part correct.**

* Journal: it stays a concatenation of frames; recovery reports exactly the whole
  frames; nothing flushed is lost; no whole frame is lost by a repair; the
  application can always append again.
* Reader and writer memory: a policy fires only after the messages seen since the
  last reclaim have called for it; a steady load is never reclaimed and regrown; a
  burst is reclaimed; a frame never holds bytes of another item.
* Sessions: a reader delivers exactly the good frames, each once, in order, and ends
  clean only between frames.
* Wire: what a framer encodes its deframer decodes, for every format and checksum
  width; damage is detected; a cut stream ends clean only between frames.
* Adapters: the outermost that objects refuses and is blamed; an observer sees what
  gets as far as it; a reader that mirrors a writer reads all that was accepted.
* Ingest: the two streams of a pair stay aligned whatever happens; a sidecar that is
  younger than its streams is true; success means complete.

The hazards, each at its line and with the properties that watch it, are in
`PROJECT.json`.

## 2. Plan

In order of importance; all are done.

1. `Journal`, the file, its writer, crashes, `recover_file` and the repair; with
   `AppendLog`, the abstract log it implements.
2. `JournalProofs`: the inductive invariant of `Journal` and its safety properties, what
   recovery reports, and that `Journal` implements `AppendLog`.
3. `Policy`, the memory policies as operators, used by 4 and 5.
4. `ReaderBuffer`: the reader's buffer with its deferred shrink.
5. `WriterBuffer`: the writer's builder with its immediate rebuild.
6. `Session`: a reader on a live source that goes on after errors, with adapters,
   handler errors, transient I/O errors and a high-water-mark buffer.
7. `Checksum`, `Framing`, `Validation`: the wire format, byte for byte, and the
   validators, as operators without state.
8. `WriteStack`: a writer whose framer is wrapped in adapters, above a sink that may
   fail after any byte; its output read back with `Framing`.
9. `ReadStack`, `Examples`: the reading side of such a stack over a whole stream, and
   the example programs' assertions.
10. `Ingest`: the example that writes two streams and a sidecar, with faults, kills and
    reruns.
11. `PolicyProofs`, `ReaderBufferProofs`, `WriterBufferProofs`: hysteresis and steady
    state for every policy, size and capacity.
12. `IngestProofs`: every property of `Ingest` for every corpus, number of rows, runs and
    faults.
13. `Counting`, induction in the form the next two need; `SessionProofs`: every invariant
    of `Session`.
14. `WriteStackProofs`: what `Framing` computes, and every invariant of `WriteStack`.
15. The rest of `WriteStackProofs`: the invariants of `Examples`, which are about the
    reading side of such a stack and about the example programs. No module uses a
    RECURSIVE operator, so that all of them are open to proofs.

## 3. The modules

**`Journal`** (`src/recover.rs`, the framers and deframers of `src/framing.rs`,
`flush`). One application keeps one file. A byte is modelled by the frame it was
written for and its position in it, so that four bytes decode to a known length
exactly when they are the first four of one frame; any other four decode to any of
`WireLens`. `StartWrite`, `Accept`, `FinishWrite`, `DiskFull`, `WriteFault` are one
`write()`: header and payload are two slices (`SliceEnd`), each handed to the sink by
`write_all`, which may be taken a few bytes at a time and fail anywhere. `Flush` and
`FlushFault` are `flush()`. `StartRecovery`, `ReadProbe`, `ReadSome`, `EndOfStream`,
`ParseHeader`, `FrameRead`, `SeekBack` are one `recover_file()`, a `read()` of the file
per step, with `count` the `CountingReader` and `AfterError` the match on the error's
kind. `Truncate` is the application's `set_len(last_good_offset)` after a `TornTail`,
as README.md documents it. `Crash` cuts the file anywhere between `stable` and its
end, in every state, `Rot` overwrites a byte of a file at rest, `DeviceFault` fails a
read, a seek or `set_len`. `promised` and `safeLen` are history: the file when the
last `flush()` returned `Ok`.

**`AppendLog`** is what a journal promises, without bytes or recovery: entries are
appended one after the other, a crash takes a suffix, never a safe entry. `Journal`
implements it with the whole frames of the file as entries
(`ImplementsAppendLog`).

**`Policy`** (`src/policy.rs`): the constructors of the policies as records, each
policy as an operator from its state, the size of the last message, the capacity and
the clock to the new state and a verdict; also the history the hysteresis properties
compare the verdicts with (`Saw`, `CalledFor`), kept from the messages alone, whatever
the gate let the policy see. `Wrapped` is a policy of the application's around one of
these, which may forget to forward the baseline.

**`ReaderBuffer`** (`src/reader.rs`): `cap` and `filled` are the buffer's capacity and
length, `pending` is `pending_shrink`. `Read` is one successful `read_message()` with
the deferred shrink, the growth, the gate and the verdict; `ReadFails` one that
returned an error or the end, `Reserve` and `InstallPolicy` the other operations.

**`WriterBuffer`** (`src/writer.rs`): the same for the writer, whose builder is rebuilt
at once. `content` is what the builder holds, by item, so that a `serialize` that
failed half way leaves something a later frame must not contain. `Write`,
`WriteFails` (in `serialize` or in the framer), `WriteFinished`, `InstallPolicy`;
`InstallPolicyAndFactory` brings a factory that builds `extra` bytes more than it is
asked for.

**`Session`** (`src/reader.rs`, `src/framing.rs`): a reader on a source that gets its
bytes in pieces (`Arrive`), may be closed inside a frame (`Close`) and may fail
(`SourceFails`). A call is `StartRead`, `ReadSome` per `read()`, `ParseHeader`,
`FrameRead`, then `Validate` and `Observe` per adapter of the stack from the inside
out, `Deliver` or `DeliverTyped` (which takes the root first, and fails on a payload
without one) and `Handled`. The buffer holds the offset each byte came from, so a
slice of the wrong length or place shows. After an error the application reads on or
not (`After`); `derailed` records that it did so with a frame partly consumed.

**`Checksum`** (`src/checksum.rs`), **`Framing`** (`src/framing.rs` and the custom framer
of the examples), **`Validation`** (`src/validation.rs`): the stateless part of the
library as operators on sequences of bytes. `Base` is how many values a byte has (256;
2 in the instance), `Hash` the hash functions, `Shape` what the FlatBuffers verifier
makes of a payload. `Slices` is what a framer hands to the sink, `ReadAndDeframe` what a
deframer makes of the bytes from an offset on, `Verdict` who a validator blames.

**`WriteStack`** (`src/writer.rs`, `src/framing.rs`): one `write()` is `StartWrite`, then
`Bound`, `Validate` or `Observe` per adapter from the outermost in, `StartFrame`,
`Accept` per `write_all` of a slice, and `FinishWrite`, or `SinkFails` at any byte of a
slice. After a failure the application may write on, into the torn frame.

**`ReadStack`** (`src/reader.rs`, `src/framing.rs`): a deframer with adapters
(`ReadBehind`), the loops over payloads and typed roots (`Process`), and a loop that
leaves early (`FirstWanted`), over the bytes of a whole stream.

**`Examples`** (`examples/*.rs`) extends both. Each program is an operator that states
what the program asserts, with any payload of the right kind in place of its own, and
`TelemetryAgent` and `AdaptivePolicy` compute what those two programs count. `Mirror`
is the reader built like the writer of the current state.

**`Ingest`** (`examples/ingest_lobster.rs`): `todo` is the loop over the zips, `row` and
`at` the place in `write_pair_streams`, `file` and `out` the two files and the
`BufWriter`s in front of them, in halves of frames (header, payload), each with the
timestamp it carries. A row of a CSV is a record of numbers and texts, so that every
way a row fails to parse is there, at the field where it does. `Fail` is an error inside
`write_pair_streams`, which drops the writers (`Drop`) and thereby flushes them; `Kill`
does not. `Replace` changes the corpus between two runs.

The `MC` modules only give TLC their instances. `PROJECT.json` maps each definition
to its lines.

## 4. What each run shows

| Run | Checks | Bounds |
|---|---|---|
| `journal` | the journal stays appendable, reports are exact, promises and whole frames are kept, `AppendLog` is implemented, the application gets back to appending | 3 writes of 0, 1 or 2 bytes into 13 bytes, one length over the deframer's limit |
| `journal_rot` | what recovery reports as intact is intact, in a file corrupted at rest | 2 writes, 2 checksum bytes, 1 rotten byte |
| `journal_misconfig`, `journal_rotloss` | *violated*: recovery may authorize the loss of whole frames | as above |
| `reader_buffer`, `writer_buffer` | hysteresis, no thrash, bursts are reclaimed; a frame holds its item | 4 or 5 sizes, 8 policies, two of them in turn, clock to 3 |
| `reader_thrash` | *violated*: ratio 1 thrashes at steady state | as above, ratio 1 |
| `reader_reserve` | *violated*: a reserve is dropped with the buffer | as above |
| `session` | exact delivery and observation, clean ends, only good frames behind a checksum, the session ends | 2 frames of 5 kinds, 1 fault, validator between two observers, with and without checksum, raw and typed |
| `session_readson` | *violated*: a clean end is reported inside a frame | as above |
| `write_stack` | what is accepted reads back from every cut with every limit, on both read paths, through the mirrored stack and typed; damage is detected; adapters refuse and observe in order; zero tails; the examples' assertions | 3 writes of 7 payloads, 7 formats, 3 stacks, 1 fault of the sink |
| `ingest` | pairs aligned, sidecars true, errors leave whole pairs, success is complete | 2 zips, one of 10 contents, 2 runs, 2 faults, a kill anywhere |

`journal` is the liveness run too. The largest, `ingest`, has 1.3 million distinct
states, `session` 0.75 million, `reader_buffer` 0.5 million, `write_stack` 0.47 million.

**Why the bounds are enough.** 13 bytes hold three headers and a byte: the journal has
a frame behind, a frame at and a frame beyond every cut, and a disk that fills up in
each part of a frame. Payload lengths 0, 1 and 2 distinguish an empty payload, one
that cannot be torn and one that can; every length of four header bytes is kept, since
a torn header is a case of its own. `MaxFrameLen` 1 makes the third length an oversize
frame. Recovery, crash and repair repeat without bound: only calls of `write()` and
rotten bytes are counted. In the buffer runs the smallest baseline is 4 and the
growth of `Vec` (at least doubled, at least 8 bytes) is kept, since the slack it
leaves is what a ratio is compared with; `Sizes` has a size below, between and above
the thresholds. Ratio 2 is the smallest ratio above that slack, `Wait` 3 and `Cooldown`
2 let either condition come first. Two frames let a longer payload precede a shorter
one, and an error precede a good frame; `WireLens` has a junk length of no bytes, one
that fits and one over the limit. In `write_stack` a byte is a bit: the length field of
four such bytes holds 0 to 15, so that a payload of 16 does not fit it and the default
limit is 8; the widths 8, 4, 2, 1 and 0 of the checksum field are the real ones, and one
algorithm computes more than its width holds. Its hash functions are stand-ins with the
range of the real ones and their value on an empty payload (zero for the CRCs, not for
XXH3), which `ZeroTails` depends on; nothing else is assumed of them. The payloads are
the empty one, one too short for a root offset, an event, a table of another type, an
event nested too deep for the default limits, one too long for a reader with the default
limit (9 bytes), and one too long for the length field. Two zips let a failing
base come after a good one, two rows let a row fail behind a written one, and two runs
let a rerun meet every state the first may end in.

**Fairness.** `Journal!FairSpec`: a call that has begun runs on, and an application
whose recovery failed tries again. The library never waits on itself, and the standard
library's `read_exact` and `write_all` retry `Interrupted`. Disturbances
(`Disturbance`) have no fairness and are excused in the property. `Session!FairSpec`:
the reader's call goes on while there are bytes or the end to read, the handler
returns, and the sender eventually closes: the library promises no end of a stream that
has none. `BurstsAreReclaimed` names its own assumption, small messages only from some
time on, so its specification needs none.

**Findings.** Five documented promises are refuted by runs, each quoted at its line in
`PROJECT.json`:

1. A checksum-expecting recovery over a short plain journal says `TornTail`, and the
   repair cuts whole frames, though "corruption and misconfiguration never authorize
   truncation".
2. So does a corrupted length that is in bounds but larger than the rest of the file.
3. A size ratio of 1 is accepted, and thrashes at steady state.
4. `reserve()` after a read that scheduled a shrink does not hold for the next read.
5. After an error inside a frame the next call reports a clean end there.

Two remarks that are no findings. A frame the application writes above recovery's
`max_frame_len` blocks every later recovery with `InvalidFrame`, as documented:
`AlwaysReadyAgain` excuses the journals that contain one. An empty message ends the row of
over-provisioned ones, as its comment says, so `BurstsAreReclaimed` is about others.

## 5. What is proved

### The journal

`JournalProofs` proves, for every `Capacity`, `PayloadLens`, `MaxWrites`, checksum
width, `MaxFrameLen` and `WireLens`, that every behaviour of `Journal!Spec` keeps
`TypeOK` (`TypeCorrect`), `AppendsAtBoundary` (`AppendsSafe`), `PromisesKept`
(`Durable`) and `CompleteFramesKept` (`RepairSafe`).

The assumptions are `JournalAssumption`, which only types the constants, and `Matched`:
recovery runs with the deframer that matches the framer, and nothing rots at rest.
Both halves of `Matched` are needed: the runs `journal_misconfig` and
`journal_rotloss` are `RepairSafe` without one of them.

The properties are not inductive. `Inv` strengthens them by four parts:

* `Layout`: every byte of the file lies in a frame whose other bytes stand where that
  frame puts them. Without it a byte says nothing about its neighbours.
* `InvWriter`: an append under way has put exactly its first `done` bytes behind a point
  that no frame reaches over (`Closed`).
* `InvScan`: the scan stands at, or a known number of bytes behind, such a point, which
  is `last_good_offset`; when it ends, either the file does too, or it goes on with a
  frame that is not whole (`TornAtLastGood`). That is what makes the truncation safe.
* `InvPromise`: what was promised is stable and ends at such a point, so neither a crash
  nor an append nor a truncation can touch it.

There is a lemma per action that it preserves `Inv` (`StartWriteInv`, `AcceptInv`,
...). They rest on four lemmas about the layout: a frame starts wherever none reaches
over (`FrameStarts`), such a point is a boundary (`ClosedIsBoundary`), a frame between
two of them is whole (`WholeFrame`), and a whole frame reaches over none
(`WholeFramesEnd`). `InvInductive` joins the actions, `Invariance` is the induction.

The second part of `JournalProofs` is about the report. Its invariant keeps, for the scan under way,
that the frames counted are the whole frames before `last_good_offset`, which they fill
(`Counts`), and that the cursor is as far behind that offset as has been read of the next
(`CursorInv`). `TypesKept` needs neither half
of `Matched`; `IntactReported` (`OnlyIntactReported`) needs a deframer with a checksum,
whichever the framer's is, and no other assumption: a rotten byte or a deframer of another
format may make recovery stop early, never count what is not whole. `ReportsExactly`
(`ReportExact`) adds `Matched`, so that what verifies is what was written whole.

Its third part proves `Implementation`: under `Matched`, `Spec` implements
`AppendLog`. The entries are the whole frames of the file. `Numbered` strengthens the
invariant: frames carry the numbers of their `write()` calls in the order of the file, so
that the log is a sequence that a step extends at its end. The last byte of a frame is an
append (`AcceptIsAppend`), a `flush()` makes the log safe (`FlushIsFlush`), a truncation
changes no entry (`TruncateIsNone`), a crash loses a suffix of entries that are not safe
(`CrashIsLoss`), and every other step leaves the log alone.

### The buffers

`PolicyProofs` has lemmas about the policies: for every configuration a consultation
keeps the policy's counters no larger than what the stream has shown since the last
reclaim (`Backed`), within what it waits for (`Bounded`), and fires only if the stream has
called for it (`ShouldResetSound`); `FiresOnlyIf` says after which message it may.

`ReaderBufferProofs` and `WriterBufferProofs` take them through the baseline gate, for
every set of policies, sizes, capacities, reserves and factories. `Backed` is not
inductive: the gate hides messages from the policy, and one of them may end the row the
policy is counting. What saves it is that a buffer only grows until it is reclaimed, so
that a policy behind a closed gate has not counted anything since (`PolicyInv`, the
reader's with `Gated`: such a policy `IsFresh`). `TypeCorrect` is `TypeOK`, hence no
counter ever saturates; `Hysteresis` is `NoPrematureReclaim`; `ReclaimsReal` is the writer's
`ReclaimsAreReal`.

`SteadyState` proves README.md's "never thrash at steady state" under the condition
`Slack` that makes it true: every adaptive policy has a size ratio of at least 2 and, for
the reader, a baseline of at least 4, because the least capacity of a `Vec` is 8. The
run `reader_thrash` shows a ratio of 1 without it. `SteadyInv` says that while all
messages since the last shrink have one size, the buffer is the baseline's or that one
grown once (`OneSize`).

What doubling a builder until an item fits comes to (`Doubling`: no less than before,
enough, and less than twice the item when it grew) is proved with the lemmas of
`Counting`. `FramesUnmixed` is `FrameHoldsItsItem`.

### The ingest example

`IngestProofs` proves the five invariants of the run `ingest` for every set of zips and
corpora, and every number of rows, runs and faults. Its key is `Stamped`: the i-th half of
a stream is a header or a payload as `i` is odd or even, of the row `(i + 1) / 2` of one
version of the corpus. Lemmas about sequences say that writing through a `BufWriter`
(`PutStamped`) and handing part of a buffer over (`SpillStamped`, `StampedCut`) keep it,
so that a file with its buffer behind it is always the beginning of one stream.

`IngestInv` says that the two files of each base are stamped with the same version
(`Aligned`, hence `Alignment`), how many halves file and buffer together hold at each
place of the program (`Lengths`), and that a base being written has no young sidecar
(`Young`, hence `CountsCorrect`). The version of a base's files need not be the corpus's:
a run killed after it truncated the first file and before it truncated the second leaves
one empty, which is stamped with every version.

`RunInv`, proved on top of it, says what the current run has done to the bases behind it:
they are complete unless their zip could not be read (`AllDone`, hence `SuccessComplete`)
and hold whole frames unless the device failed (`AllTidy`, hence `ErrorsTidy`).

### Recursive definitions

What a recursive function computes takes an induction. The library's induction theorems
take the induction hypothesis as an operator, which no backend can instantiate, so
`Counting` states induction about a *set* of numbers (`CountUp`), from the library's
theorem that `Nat` is well-founded, and what follows for recursive functions: that there
is a function which takes given steps (`Recursion`, `StepsUp`, `StepsDown`), so that
the function a LET defines takes them too. Each recursive definition of the models gets
from it a lemma that says what it computes: `Starts` in `SessionProofs`; `FromLe`,
`JoinedRecursion`, `Gathering`, `EndsOf`, `LetThroughOf` and `FirstFailureIs` in
`WriteStackProofs`, and there too, for the loops of the reading side and of the programs,
`Behind`, `Processing`, `Searching`, `MirrorIs`, `SummedOf`, `MultipleBuildersHold` and
`AdaptivePolicyHolds`.

### Sessions

`SessionProofs` proves the five invariants of the run `session` for every stream of
frames, every stack of validators and observers, every limit, length on the wire and
number of failures, raw and typed, with any width of checksum or none; the only
assumption is `SessionAssumption`, which types the constants. Their invariant `Inv` has
these parts:

* `Cursor`: inside a call the reader is as many bytes behind the call's start as it has
  read, and the length it goes by is one the four bytes there can decode to.
* `Aligned`: a call starts between two frames unless `derailed`, and only an error that
  left part of a frame unread sets that.
* `Filled`: the front of the buffer holds the bytes of the payload read so far; the rest,
  the high-water mark, may hold anything.
* `Checked`: what has got through the deframer has been verified, and a frame that has got
  through a validator is valid.
* `Deliveries`, `Observations`: the history is that of the frames behind the reader, for
  the application and for the observer at each level of the stack.

`TypeCorrect`, `CleanEnds`, `ExactDelivery`, `GoodFramesOnly` and `ExactObservation` follow.

### The wire format and the writer's stack

`WriteStackProofs` proves the eleven invariants of the run `write_stack`, the eight of
`WriteStack` and the three of `Examples`, for every `Base` of the bytes, so for 256 as well as for the 2 of the
instance, every hash function, format, stack, payload, limit and number of writes and
failures. The assumptions on the constants:

* A `Hash` gives a u64 on every payload, also on one with a byte changed.
* `Magic` is not all zeros (the code's is 0xABBA), which `ZeroTails` needs; only a
  checksum framer has a checksum, of at most 8 bytes, as `ChecksumFramer::new` asserts.
* No validator of the application is named `"ok"` or `"panic"`, the model's words for two
  verdicts, and validators are built by the library's constructors.
* A reader's limit is at most `MAX_WIRE_FRAME_LEN`.
* No type of the application is the model's name for a payload that is read raw, and the
  depth and the tables of what a verifier finds in a payload are naturals.

The argument goes in layers.

1. *Integers.* A number written as little-endian digits is read back (`Digits`), as far
   as the field goes (`SumBack`), and two fields that differ in a digit are different
   numbers (`DigitsBack`), so that the masked comparison of `verify` accepts exactly the
   field that was written (`VerifyBack`, `VerifyFails`).
2. *One frame.* `FrameBytes` says which bytes a frame has. `ReadOne` says what a deframer
   makes of a place where a frame, or as much of one as there is, stands: each of its five
   outcomes, and when. `SplitRead` compares the two read paths on arbitrary bytes, hence
   `PathsMatch` needs an invariant only for where the cuts are.
3. *Streams.* `Ends` are the offsets of frames, `Holds` that a stream begins with them.
   `RunRead` is the induction: a reader is given the frames one after another and goes on
   behind them. `CutRead` says what it makes of a cut stream with a limit.
4. *The writer.* `Layout` is the inductive invariant: the sink begins with the frames
   accepted before it first failed (`Whole`); and before it fails, what is in the sink
   with what is left of the slices in `out` is exactly the frames accepted and the one
   under way (`Begun`). `ReadBack`, `FrontReadable`, `DamageFound` and `HolesRead` follow
   from `Layout` and the lemmas of layer 3.
5. *The adapters.* `Course` is inductive: those a payload has passed let it through, and
   the last call's result blames whom it should (`Blame`), hence `FirstBlamed`. `Heard` is
   inductive with it: an observer has been called for what those around it let through,
   of all payloads but the one still outside it, hence `SeenExactly`.

6. *The reading side.* `Passed` is inductive with `Course`: no adapter refuses what has
   been accepted. `Streams` says of a deframer and a stream what `Layout` and `Passed` come
   to: the stream begins with the frames of a run that none of the deframer's adapters
   stops. Then the loops go through it payload by payload (`Walk`, `StreamWalks`), up to
   the first that is too long for the reader or has no root of the type it asks for. A
   mirrored reader has the writer's validators and its tightest bound (`MirrorIs`,
   `TightestIs`), and a writer that vouches for a type has accepted roots of it alone
   (`VouchedRoots`), hence `MirrorRead` and `TypedRead`.
7. *The example programs.* A program that has no failing sink writes its frames one after
   the other (`StreamHolds`), and a reader of layer 6 reads them all (`RunIsRead`); from
   these two the assertions about what is read back follow one program at a time. The
   rest are the numbers in the programs' texts: that the builder of `adaptive_policy` is
   reclaimed at the tenth small blob is an induction over its writes (`BlobWrites`); the
   alerts of `telemetry_agent` are counted period by period (`BehindsCounted`), and its
   averages are sums of arithmetic series (`EvenSum`, `ChannelSum`). `ExamplesProved`
   states them all.

TLC finds `Layout`, `Course`, `Heard` and `Passed` invariant on the instance of
`write_stack` too.

### Only model-checked

* Liveness under fairness, which is outside the prover's reach, as is `ENABLED`: the
  journal's `AlwaysReadyAgain`, `SessionEnds`, and the buffers' `BurstsAreReclaimed`.

All safety properties that the runs check are proved.

## 6. Abstractions, and what is not modelled

* A checksum has no collisions: bytes that are no whole frame mismatch, unless there is
  none. Equal widths are the same algorithm.
* The model's `flush()` makes the sink's bytes stable. That of a `std::fs::File` does
  not, as README.md warns: the application has to give a sink whose flush does.
* A crash leaves a prefix of the file in `Journal`. A tail that a file system fills with
  zeros is the subject of `ZeroTails` in `WriteStack`: without a checksum, or with a CRC
  of an empty payload, zeros are frames.
* `set_len` is atomic. Errors are their kinds; their texts and contexts are wording.
* In `Session` the payload or the checksum of a frame may be damaged, not its length;
  damaged lengths are in `Journal`. `Interrupted` is retried inside `read_exact` and
  has no step. A shrink may come before any call that follows a successful one: when
  it does is `ReaderBuffer`'s subject.
* The policies' saturating counters stay below `messages_to_wait` (`IsPolicyState`), so
  they never saturate; saturation of the product `size x ratio` is left out.
* A FlatBuffers payload is its bytes, and what the verifier accepts of them is the
  constant `Shape`; the verifier, the hash functions, `csv`, `zip`, `Vec`, `BufWriter` and
  `FlatBufferBuilder` are other crates, modelled from how this one uses them.
* `MagicHeaderDeframer` bounds its frames by a constant of its own, 16 MiB. Here its
  limit is a parameter, as that of the other deframers is, and its default is theirs: what
  is proved for every limit holds for 16 MiB. `TypedReads` and `CustomFramer` are stated
  with the default, so that for this format they are about payloads of at most 16 MiB.
* The example programs' payloads are replaced by all payloads of a small set; their
  output is left out. `ergonomics_example` and `custom_allocator_example` show accessors
  and constructors and assert nothing about a stream that the others do not.
* In `Ingest` a frame is two halves, header and payload, and a file cut inside a half
  counts as cut behind its header. What verifies a zip (`lobster_common`) is outside;
  `write_message_stream` and `write_orderbook_stream` are called by nobody.
* Not modelled: the unchecked typed reads (`unsafe_typed`), which skip verification and
  are undefined on invalid payloads; accessors; the texts and contexts of errors; the
  re-exports; generated code; unit tests (about a third of the lines under `src/`),
  integration tests, benches and fuzz targets. The programs under `experiments/` are
  snapshots written for earlier versions of the interface.
