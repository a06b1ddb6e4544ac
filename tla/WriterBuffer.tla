---------------------------- MODULE WriterBuffer ----------------------------
(***************************************************************************)
(* The builder of a StreamWriter: write() resets it, serializes one item   *)
(* into it, hands the finished bytes to the framer and, when all of that   *)
(* succeeded, asks the memory policy whether to replace it by a fresh one  *)
(* of the baseline capacity, at once.                                      *)
(***************************************************************************)
EXTENDS Policy

CONSTANTS
    Sizes,          \* bytes an item takes in the builder
    Capacities,     \* capacities of the builders the application constructs
    Policies,       \* configurations of the policies it installs
    Overshoots,     \* bytes by which a factory's builder exceeds the baseline asked for
    MaxTime,        \* bound on the clock
    MaxInstalls     \* bound: policies installed in one behaviour

ASSUME WriterBufferAssumption ==
    /\ Sizes \subseteq Nat
    /\ Capacities \subseteq Nat
    /\ \A p \in Policies : IsConfig(p)
    /\ Overshoots \subseteq Nat
    /\ MaxTime \in Nat
    /\ MaxInstalls \in Nat

VARIABLES
    cap,        \* length of the builder's backing buffer
    content,    \* the items with bytes in the builder
    policy,     \* state of the installed policy
    baseline,   \* PolicySlot::baseline_capacity, or NoPolicy
    extra,      \* what PolicySlot::make_builder adds to the capacity it is asked for
    installs,   \* policies installed so far
    now,        \* the clock
    item,       \* the item of the last call of write(): calls alternate between two
    framed,     \* history: what the framer was given in the last step
    event,      \* history: the ReclamationInfo of the last step, if it fired
    seen        \* history: the messages since the last rebuild (Policy)

builderVars == <<cap, content>>
policyVars  == <<policy, baseline, extra, installs>>
historyVars == <<item, framed, event, seen>>
vars == <<builderVars, policyVars, now, historyVars>>

NoPolicy == -1
NoEvent == [reason |-> "none", before |-> 0, after |-> 0]
Items == {0, 1}

\* What write_finished() frames: the finished root of a builder of the caller's.
External == 2

-----------------------------------------------------------------------------
(* FlatBufferBuilder of the flatbuffers crate. *)

\* The capacity after `size` bytes have been built in a builder of capacity c,
\* which doubles until they fit.
Grown(c) == IF c = 0 THEN 1 ELSE 2 * c
Doubled(c, size) ==
    LET grow[n \in 0..(c + 2 * size)] == IF size <= n THEN n ELSE grow[Grown(n)]
    IN  grow[c]

-----------------------------------------------------------------------------
(* StreamWriter::write *)

\* What is left in the builder when the serialization begins.
NotReset == content  \* mutant
ResetContent == {}

\* The gate of evaluate_memory_policy.
Ungated(c) == baseline # NoPolicy  \* mutant
Consulted(c) == baseline # NoPolicy /\ c > baseline

\* The capacity of the builder that replaces one of capacity c.
NotRebuilt(c) == c  \* mutant
Rebuilt(c) == baseline + extra

SeenSince == IF event.reason = "none" THEN seen ELSE NothingSeen

\* A write() that returns Ok.
Write(size) ==
    LET c == Doubled(cap, size)
        verdict == ShouldReset(policy, size, c, now)
        fires == Consulted(c) /\ verdict.reason # "none"
    IN  /\ item' = 1 - item
        /\ framed' = ResetContent \cup {item'}
        /\ cap' = IF fires THEN Rebuilt(c) ELSE c
        /\ content' = IF fires THEN {} ELSE framed'
        /\ policy' = IF Consulted(c) THEN verdict.state ELSE policy
        /\ event' = IF fires
                    THEN [reason |-> verdict.reason, before |-> c, after |-> baseline]
                    ELSE NoEvent
        /\ seen' = Saw(policy.config, SeenSince, size, c, now)
        /\ UNCHANGED <<baseline, extra, installs, now>>

\* A write() that returns Err, because serialize did after building `size` bytes
\* or because the framer did: the policy is not consulted.
WriteFails(size, atFramer) ==
    /\ item' = 1 - item
    /\ cap' = Doubled(cap, size)
    /\ content' = ResetContent \cup {item'}
    /\ framed' = IF atFramer THEN content' ELSE {}
    /\ event' = NoEvent
    /\ seen' = [SeenSince EXCEPT !.sizes = @ \cup {size}]
    /\ UNCHANGED <<policyVars, now>>

\* write_finished: the caller's builder, and no policy.
WriteFinished ==
    /\ framed' = {External}
    /\ event' = NoEvent
    /\ seen' = SeenSince
    /\ UNCHANGED <<builderVars, policyVars, now, item>>

Install(config, e) ==
    /\ installs < MaxInstalls
    /\ installs' = installs + 1
    /\ baseline' = config.baseline
    /\ extra' = e
    /\ policy' = NewPolicy(config)
    /\ framed' = {}
    /\ event' = NoEvent
    /\ seen' = [NothingSeen EXCEPT !.sizes = SeenSince.sizes \cup {0}]
    /\ UNCHANGED <<builderVars, now, item>>

\* with_memory_policy, before the first write or between two; the variant with a factory.
InstallPolicy(config) == Install(config, 0)
InstallPolicyAndFactory(config, e) == Install(config, e)

Tick ==
    /\ now < MaxTime
    /\ now' = now + 1
    /\ framed' = {}
    /\ event' = NoEvent
    /\ seen' = SeenSince
    /\ UNCHANGED <<builderVars, policyVars, item>>

-----------------------------------------------------------------------------

Init ==
    /\ cap \in Capacities               \* new, with_capacity, with_builder
    /\ content = {}
    /\ policy = NewPolicy(NoOpPolicy)
    /\ baseline = NoPolicy
    /\ extra = 0
    /\ installs = 0
    /\ now = 0
    /\ item = 0
    /\ framed = {}
    /\ event = NoEvent
    /\ seen = [NothingSeen EXCEPT !.sizes = {0}]

Next ==
    \/ \E n \in Sizes : Write(n)
    \/ \E n \in Sizes, atFramer \in BOOLEAN : WriteFails(n, atFramer)
    \/ WriteFinished
    \/ \E config \in Policies : InstallPolicy(config)
    \/ \E config \in Policies, e \in Overshoots : InstallPolicyAndFactory(config, e)
    \/ Tick

Spec == Init /\ [][Next]_vars

-----------------------------------------------------------------------------
(* Properties. *)

\* The type invariant; a builder that holds an item has capacity for one.
TypeOK ==
    /\ cap \in Nat
    /\ content \subseteq Items
    /\ content # {} => \E n \in Sizes : n <= cap
    /\ IsPolicyState(policy, Policies \cup {NoOpPolicy})
    /\ baseline \in {policy.config.baseline, NoPolicy}
    /\ extra \in Overshoots \cup {0}
    /\ installs \in 0..MaxInstalls
    /\ now \in 0..MaxTime
    /\ item \in Items
    /\ framed \subseteq Items \cup {External}
    /\ seen.run \in 0..policy.config.wait
    /\ seen.from \in 0..MaxTime \cup {NoTime}
    /\ seen.small \in 0..policy.config.wait

(***************************************************************************)
(* A frame holds the item it was written for and nothing of another, also  *)
(* after a write() that failed half way or a rebuild of the builder.       *)
(***************************************************************************)
FrameHoldsItsItem == framed \in {{}, {External}, {item}}

(***************************************************************************)
(* Hysteresis: a rebuild comes only after the messages written have called *)
(* for it since the last one, whatever the gate let the policy see.        *)
(***************************************************************************)
NoPrematureReclaim == CalledFor(policy.config, event.reason, seen, now)

(***************************************************************************)
(* "The baseline gate guarantees a policy can never thrash at steady       *)
(* state" (README.md): when every message since the last rebuild had one   *)
(* size, the builder is not rebuilt again, if a rebuild gives the baseline.*)
(***************************************************************************)
NeverThrashesAtSteadyState ==
    extra = 0 /\ event.reason # "none" => \A n \in Sizes : seen.sizes # {n}

(***************************************************************************)
(* Every reclaim reported to the policy (on_reclaim) has freed memory and  *)
(* left what it reports, up to what the factory adds; no write that did    *)
(* not fire takes capacity away.                                           *)
(***************************************************************************)
ReclaimsAreReal ==
    [][IF event'.reason # "none"
       THEN /\ cap' - event'.after \in Overshoots \cup {0}
            /\ cap' = event'.after => cap' < event'.before
       ELSE cap' >= cap]_vars

(***************************************************************************)
(* Under an adaptive policy a burst is not kept for ever: if only small    *)
(* messages are written from some time on, the builder goes back to what   *)
(* a rebuild gives and stays there, also when the factory overshoots the   *)
(* baseline and the policy fires again and again.                          *)
(***************************************************************************)
SmallWrite ==
    /\ policy.config.kind = "adaptive"
    /\ \E n \in Sizes : n > 0 /\ n * policy.config.ratio <= baseline /\ Write(n)
BurstsAreReclaimed ==
    (<>[][SmallWrite]_vars /\ []<><<SmallWrite>>_vars) => <>[](cap <= baseline + extra)

=============================================================================
