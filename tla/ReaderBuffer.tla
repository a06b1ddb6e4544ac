---------------------------- MODULE ReaderBuffer ----------------------------
(***************************************************************************)
(* The buffer of a StreamReader: it grows to the largest message read and  *)
(* shrinks when the installed memory policy asks for it, one read later so *)
(* that the payload just returned stays valid.                             *)
(***************************************************************************)
EXTENDS Policy

CONSTANTS
    Sizes,          \* payload lengths the stream declares
    Capacities,     \* arguments of with_capacity
    Policies,       \* configurations of the policies the application installs
    Reserves,       \* arguments of reserve()
    MaxCap,         \* bound: reserve() is called only up to this capacity
    MaxTime,        \* bound on the clock
    MaxInstalls     \* bound: policies installed in one behaviour

ASSUME ReaderBufferAssumption ==
    /\ Sizes \subseteq Nat
    /\ Capacities \subseteq Nat
    /\ \A p \in Policies : IsConfig(p)
    /\ Reserves \subseteq Nat
    /\ MaxCap \in Nat
    /\ MaxTime \in Nat
    /\ MaxInstalls \in Nat

VARIABLES
    filled,     \* buffer.len(): the high-water mark
    cap,        \* buffer.capacity()
    policy,     \* state of the installed policy
    baseline,   \* PolicySlot::baseline_capacity, or NoPolicy
    pending,    \* pending_shrink
    installs,   \* policies installed so far
    now,        \* the clock
    event,      \* history: the ReclamationInfo of the last step, if it fired
    seen,       \* history: the messages since the last shrink (Policy)
    reads,      \* history: parity of the reads, so that no read is a stuttering step
    room        \* history: what reserve() was last asked for, until the next read

bufferVars  == <<filled, cap, pending>>
policyVars  == <<policy, baseline, installs>>
historyVars == <<event, seen, reads, room>>
vars == <<bufferVars, policyVars, now, historyVars>>

NoPolicy == -1
NoEvent == [reason |-> "none", before |-> 0, after |-> 0]

MaxOf(a, b) == IF a >= b THEN a ELSE b

-----------------------------------------------------------------------------
(* Vec<u8> of the standard library. *)

\* Capacity after room for `required` bytes has been asked of a buffer of capacity c.
Grown(c, required) ==
    IF required <= c THEN c ELSE MaxOf(MaxOf(2 * c, required), 8)

-----------------------------------------------------------------------------
(* StreamReader::read_message *)

\* apply_pending_shrink: the buffer is replaced by one of the installed baseline.
NeverApplied == cap  \* mutant
CapAtRead == IF pending THEN baseline ELSE cap
FilledAtRead == IF pending THEN 0 ELSE filled

\* read_payload: the buffer grows when the high-water mark rises.
NeverResized(n) == CapAtRead  \* mutant
CapFor(n) == Grown(CapAtRead, MaxOf(n, FilledAtRead))

\* The gate of evaluate_memory_policy.
Consulted(c) == baseline # NoPolicy /\ c > baseline

SeenAtRead == IF pending THEN NothingSeen ELSE seen

\* A read that returns a payload of n bytes.
Read(n) ==
    LET c == CapFor(n)
        verdict == ShouldReset(policy, n, c, now)
        fires == Consulted(c) /\ verdict.reason # "none"
    IN  /\ cap' = c
        /\ filled' = MaxOf(n, FilledAtRead)
        /\ policy' = IF Consulted(c) THEN verdict.state ELSE policy
        /\ pending' = fires
        /\ event' = IF fires
                    THEN [reason |-> verdict.reason, before |-> c, after |-> baseline]
                    ELSE NoEvent
        /\ seen' = Saw(policy.config, SeenAtRead, n, c, now)
        /\ reads' = 1 - reads
        /\ room' = 0
        /\ UNCHANGED <<baseline, installs, now>>

\* A read that returns Err or Ok(None) after the buffer was made to hold n bytes
\* (0: it failed or ended before): the policy is not consulted.
ReadFails(n) ==
    /\ cap' = CapFor(n)
    /\ filled' = MaxOf(n, FilledAtRead)
    /\ pending' = FALSE
    /\ event' = NoEvent
    /\ seen' = [SeenAtRead EXCEPT !.sizes = @ \cup ({n} \ {0})]
    /\ reads' = 1 - reads
    /\ room' = 0
    /\ UNCHANGED <<policyVars, now>>

\* StreamReader::reserve, Vec::reserve on top of the high-water mark.
Reserve(n) ==
    /\ filled + n <= MaxCap
    /\ cap' = Grown(cap, filled + n)
    /\ event' = NoEvent
    /\ seen' = [seen EXCEPT !.sizes = @ \cup {filled + n}]
    /\ room' = n
    /\ UNCHANGED <<filled, pending, policyVars, now, reads>>

\* with_memory_policy, before the first read or between two.
InstallPolicy(config) ==
    /\ installs < MaxInstalls
    /\ installs' = installs + 1
    /\ baseline' = config.baseline
    /\ policy' = NewPolicy(config)
    /\ event' = NoEvent
    /\ seen' = [NothingSeen EXCEPT !.sizes = seen.sizes \cup {0}]
    /\ UNCHANGED <<bufferVars, now, reads, room>>

Tick ==
    /\ now < MaxTime
    /\ now' = now + 1
    /\ event' = NoEvent
    /\ UNCHANGED <<bufferVars, policyVars, seen, reads, room>>

-----------------------------------------------------------------------------

Init ==
    /\ filled = 0
    /\ cap \in {0} \cup Capacities      \* new, or with_capacity
    /\ policy = NewPolicy(NoOpPolicy)
    /\ baseline = NoPolicy
    /\ pending = FALSE
    /\ installs = 0
    /\ now = 0
    /\ event = NoEvent
    /\ seen = [NothingSeen EXCEPT !.sizes = {0}]
    /\ reads = 0
    /\ room = 0

Next ==
    \/ \E n \in Sizes : Read(n)
    \/ \E n \in Sizes \cup {0} : ReadFails(n)
    \/ \E n \in Reserves : Reserve(n)
    \/ \E config \in Policies : InstallPolicy(config)
    \/ Tick

Spec == Init /\ [][Next]_vars

-----------------------------------------------------------------------------
(* Properties. *)

\* The type invariant; a buffer holds no more than its capacity.
TypeOK ==
    /\ cap \in Nat
    /\ filled \in 0..cap
    /\ IsPolicyState(policy, Policies \cup {NoOpPolicy})
    /\ baseline \in {policy.config.baseline, NoPolicy}
    /\ pending \in BOOLEAN
    /\ installs \in 0..MaxInstalls
    /\ now \in 0..MaxTime
    /\ seen.run \in 0..policy.config.wait
    /\ seen.from \in 0..MaxTime \cup {NoTime}
    /\ seen.small \in 0..policy.config.wait
    /\ reads \in {0, 1}
    /\ room \in Reserves \cup {0}

(***************************************************************************)
(* Hysteresis: a reclaim comes only after the stream itself has called for *)
(* it since the last one, whatever the gate let the policy see: so many    *)
(* over-provisioned messages in a row, or such a row lasting the cooldown, *)
(* or so many small messages in a row.                                     *)
(***************************************************************************)
NoPrematureReclaim == CalledFor(policy.config, event.reason, seen, now)

(***************************************************************************)
(* "The baseline gate guarantees a policy can never thrash at steady       *)
(* state" (README.md): when every message since the last shrink had one    *)
(* size, the buffer is not reclaimed again.                                *)
(***************************************************************************)
NeverThrashesAtSteadyState ==
    event.reason # "none" => \A n \in Sizes : seen.sizes # {n}

(***************************************************************************)
(* reserve(): "the internal buffer can hold at least `additional` more     *)
(* bytes without reallocation", so the next read of no more bytes than     *)
(* that leaves the buffer where it is.                                     *)
(***************************************************************************)
ReserveHonoured ==
    [][\A n \in Sizes : 0 < room /\ n <= room /\ Read(n) => cap' = cap]_vars

(***************************************************************************)
(* Under an adaptive policy a burst is not kept for ever: if only small    *)
(* messages are read from some time on, the buffer goes back to the        *)
(* baseline and stays there.                                               *)
(***************************************************************************)
SmallRead ==
    /\ policy.config.kind = "adaptive"
    /\ \E n \in Sizes : n > 0 /\ n * policy.config.ratio <= baseline /\ Read(n)
BurstsAreReclaimed ==
    (<>[][SmallRead]_vars /\ []<><<SmallRead>>_vars) => <>[](cap <= baseline)

=============================================================================
