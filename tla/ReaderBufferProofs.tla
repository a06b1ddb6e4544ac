------------------------- MODULE ReaderBufferProofs -------------------------
(***************************************************************************)
(* Theorems about the buffer of a StreamReader, for all sizes, capacities, *)
(* policies and times.                                                     *)
(***************************************************************************)
EXTENDS ReaderBuffer, PolicyProofs

Configs == Policies \cup {NoOpPolicy}

-----------------------------------------------------------------------------
(* The inductive invariant. *)

Types ==
    /\ cap \in Nat
    /\ filled \in 0..cap
    /\ policy \in PolicyStates(Configs)
    /\ baseline \in {policy.config.baseline, NoPolicy}
    /\ pending \in BOOLEAN
    /\ installs \in 0..MaxInstalls
    /\ now \in 0..MaxTime
    /\ seen \in Histories
    /\ seen.from # NoTime => seen.from <= now
    /\ reads \in {0, 1}
    /\ room \in Reserves \cup {0}

\* A policy the gate does not let see the messages, or that has just fired, is fresh: it
\* has counted nothing that the messages it did not see could contradict.
Gated == pending \/ baseline = NoPolicy \/ cap <= baseline

PolicyInv ==
    /\ OwnPart(policy)
    /\ Bounded(policy, seen)
    /\ Gated => IsFresh(policy)
    /\ ~pending => Backed(policy, seen)
    /\ pending => baseline # NoPolicy

Inv == Types /\ PolicyInv /\ NoPrematureReclaim

\* Every policy the reader can have is configured with unsigned counts.
LEMMA ConfigTypes == \A config \in Configs : IsConfig(config)
<1>1. IsConfig(NoOpPolicy)
  BY DEF NoOpPolicy, IsConfig, DEFAULT_BASELINE_CAPACITY
<1>. QED BY <1>1, ReaderBufferAssumption DEF Configs

\* A policy as with_memory_policy installs it.
LEMMA NewPolicyTypes ==
    ASSUME NEW config \in Configs
    PROVE  /\ NewPolicy(config) \in PolicyStates(Configs)
           /\ NewPolicy(config).config = config
           /\ IsFresh(NewPolicy(config)) /\ OwnPart(NewPolicy(config))
BY DEF NewPolicy, PolicyStates, IsFresh, OwnPart, NoTime

\* Growing a buffer never shrinks it and makes it hold what is required.
LEMMA GrownTypes ==
    ASSUME NEW c \in Nat, NEW required \in Nat
    PROVE  Grown(c, required) \in Nat /\ Grown(c, required) >= c /\ Grown(c, required) >= required
BY DEF Grown, MaxOf

\* A buffer grown for a message holds it and all that was read before.
LEMMA HoldsWhatIsRead ==
    ASSUME NEW c \in Nat, NEW f \in 0..c, NEW n \in Nat
    PROVE  /\ Grown(c, MaxOf(n, f)) \in Nat /\ Grown(c, MaxOf(n, f)) >= c
           /\ MaxOf(n, f) \in 0..Grown(c, MaxOf(n, f))
<1>1. MaxOf(n, f) \in Nat
  BY DEF MaxOf
<1> DEFINE m == MaxOf(n, f)
<1>2. m \in Nat
  BY <1>1
<1>. HIDE DEF m
<1>3. Grown(c, m) \in Nat /\ Grown(c, m) >= c /\ m \in 0..Grown(c, m)
  BY <1>2, GrownTypes
<1>. QED BY <1>3 DEF m

\* The buffer and the history a read starts with.
LEMMA AtRead ==
    ASSUME Types, PolicyInv
    PROVE  /\ CapAtRead \in Nat /\ FilledAtRead \in 0..CapAtRead
           /\ SeenAtRead \in Histories /\ (SeenAtRead.from # NoTime => SeenAtRead.from <= now)
           /\ Bounded(policy, SeenAtRead) /\ Backed(policy, SeenAtRead)
           /\ IsConfig(policy.config) /\ policy.config \in Configs
           /\ pending => CapAtRead = baseline
           /\ baseline \in Nat \cup {NoPolicy}
           /\ CapAtRead <= baseline => IsFresh(policy)
<1>1. /\ policy.config \in Configs /\ IsConfig(policy.config) /\ policy.config.baseline \in Nat
      /\ policy.config.wait \in Nat
  BY ConfigTypes DEF Types, PolicyStates, IsConfig
<1>2. NothingSeen \in Histories /\ NothingSeen.run = 0 /\ NothingSeen.small = 0
      /\ NothingSeen.from = NoTime
  BY DEF NothingSeen, Histories, NoTime
<1>3. CASE pending
  <2>1. baseline = policy.config.baseline /\ IsFresh(policy)
    BY <1>3 DEF Types, PolicyInv, Gated
  <2>2. Backed(policy, NothingSeen) /\ Bounded(policy, NothingSeen)
    BY <1>1, <1>2, <2>1, FreshIsBacked DEF Types, PolicyInv, Bounded
  <2>. QED BY <1>1, <1>2, <1>3, <2>1, <2>2 DEF CapAtRead, FilledAtRead, SeenAtRead
<1>4. CASE ~pending
  BY <1>1, <1>4 DEF Types, PolicyInv, Gated, CapAtRead, FilledAtRead, SeenAtRead
<1>. QED BY <1>3, <1>4 DEF Types

\* An empty buffer without a policy.
LEMMA InitInv == Init => Inv
<1>. SUFFICES ASSUME Init PROVE Inv
  OBVIOUS
<1>1. NoOpPolicy \in Configs
  BY DEF Configs
<1>2. /\ seen \in Histories /\ seen.run = 0 /\ seen.small = 0 /\ seen.from = NoTime
  BY DEF Init, NothingSeen, Histories, NoTime
<1>3. Types
  <2>1. /\ policy \in PolicyStates(Configs) /\ baseline = NoPolicy /\ pending = FALSE
        /\ filled = 0 /\ installs = 0 /\ now = 0 /\ reads = 0 /\ room = 0
    BY <1>1, NewPolicyTypes DEF Init
  <2>2. cap \in Nat /\ MaxInstalls \in Nat /\ MaxTime \in Nat
    BY ReaderBufferAssumption DEF Init
  <2>3. seen.from = NoTime /\ seen \in Histories
    BY <1>2
  <2>4. seen \in Histories /\ (seen.from # NoTime => seen.from <= now)
    BY <2>3
  <2>5. /\ cap \in Nat /\ filled \in 0..cap /\ installs \in 0..MaxInstalls
        /\ now \in 0..MaxTime /\ reads \in {0, 1} /\ room \in Reserves \cup {0}
    BY <2>1, <2>2
  <2>6. pending \in BOOLEAN /\ baseline \in {policy.config.baseline, NoPolicy}
    BY <2>1
  <2>. QED BY <2>1, <2>4, <2>5, <2>6 DEF Types
<1>4. IsConfig(policy.config) /\ policy.config.wait \in Nat
  BY <1>1, NewPolicyTypes, ConfigTypes DEF Init, IsConfig
<1>5. PolicyInv
  BY <1>1, <1>2, <1>3, <1>4, NewPolicyTypes, FreshIsBacked
  DEF Init, PolicyInv, Types, Bounded, IsFresh
<1>6. NoPrematureReclaim
  BY DEF Init, NoPrematureReclaim, NoEvent, CalledFor
<1>. QED BY <1>3, <1>5, <1>6 DEF Inv

\* A read of a message: the policy is consulted behind the gate.
LEMMA ReadInv == ASSUME Inv, NEW n \in Sizes, Read(n) PROVE Inv'
<1> DEFINE c == CapFor(n)
           h == SeenAtRead
           verdict == ShouldReset(policy, n, c, now)
           fires == Consulted(c) /\ verdict.reason # "none"
           g == Saw(policy.config, h, n, c, now)
<1>1. /\ n \in Nat /\ now \in Nat /\ CapAtRead \in Nat /\ FilledAtRead \in 0..CapAtRead
      /\ h \in Histories /\ (h.from # NoTime => h.from <= now)
      /\ Bounded(policy, h) /\ Backed(policy, h) /\ IsConfig(policy.config)
      /\ policy \in PolicyStates(Configs) /\ OwnPart(policy)
      /\ baseline \in Nat \cup {NoPolicy}
  BY AtRead, ReaderBufferAssumption DEF Inv, Types, PolicyInv
<1>2. c \in Nat /\ c >= CapAtRead /\ MaxOf(n, FilledAtRead) \in 0..c
  BY <1>1, HoldsWhatIsRead DEF CapFor
<1>3. Sound(verdict, Configs, policy.config, g, now)
  BY <1>1, <1>2, ShouldResetSound
<1>4. /\ g \in Histories /\ g.run <= policy.config.wait /\ g.small <= policy.config.wait
      /\ (g.from # NoTime => g.from <= now)
  <2>1. h.run <= policy.config.wait /\ h.small <= policy.config.wait
    BY <1>1 DEF Bounded
  <2>. HIDE DEF c, h, g
  <2>2. g = Saw(policy.config, h, n, c, now)
    BY DEF g
  <2>. QED BY <1>1, <1>2, <2>1, <2>2, SawTypes
<1>5. /\ cap' = c /\ filled' = MaxOf(n, FilledAtRead) /\ pending' = fires /\ seen' = g
      /\ UNCHANGED <<baseline, installs, now>> /\ reads' = 1 - reads /\ room' = 0
      /\ policy' = IF Consulted(c) THEN verdict.state ELSE policy
      /\ event'.reason = IF fires THEN verdict.reason ELSE "none"
  BY DEF Read, NoEvent
<1>. HIDE DEF c, h, verdict, g
<1>6. policy' \in PolicyStates(Configs) /\ policy'.config = policy.config /\ OwnPart(policy')
  BY <1>1, <1>3, <1>5 DEF Sound
<1>7. Types'
  BY <1>1, <1>2, <1>4, <1>5, <1>6 DEF Inv, Types
<1>8. CASE Consulted(c)
  <2>1. c > baseline /\ baseline # NoPolicy /\ baseline \in Nat /\ policy' = verdict.state
    BY <1>1, <1>5, <1>8 DEF Consulted
  <2>2. CASE fires
    <3>1. IsFresh(policy') /\ CalledFor(policy.config, verdict.reason, g, now)
      BY <1>3, <2>1, <2>2 DEF Sound
    <3>2. Bounded(policy', g)
      BY <1>4, <1>6, <3>1, ConfigTypes DEF Bounded, IsFresh, PolicyStates, IsConfig
    <3>. QED
      BY <1>5, <1>6, <1>7, <2>1, <2>2, <3>1, <3>2
      DEF Inv, PolicyInv, Gated, NoPrematureReclaim
  <2>3. CASE ~fires
    <3>1. Backed(policy', g) /\ Bounded(policy', g)
      BY <1>3, <1>8, <2>1, <2>3 DEF Sound
    <3>2. ~Gated'
      <4>1. pending' = FALSE /\ baseline' = baseline /\ cap' = c
        BY <1>5, <2>3
      <4>. QED BY <1>2, <2>1, <4>1 DEF Gated
    <3>. QED
      BY <1>5, <1>6, <1>7, <2>1, <2>3, <3>1, <3>2
      DEF Inv, PolicyInv, NoPrematureReclaim, CalledFor
  <2>. QED BY <2>2, <2>3
<1>9. CASE ~Consulted(c)
  <2>1. IsFresh(policy)
    <3>1. baseline = NoPolicy \/ CapAtRead <= baseline
      BY <1>1, <1>2, <1>9 DEF Consulted
    <3>. QED BY <3>1, AtRead DEF Inv, PolicyInv, Gated
  <2>2. Backed(policy, g) /\ Bounded(policy, g)
    BY <1>1, <1>4, <2>1, FreshIsBacked DEF Bounded
  <2>. QED
    BY <1>5, <1>6, <1>7, <1>9, <2>1, <2>2
    DEF Inv, PolicyInv, NoPrematureReclaim, CalledFor
<1>. QED BY <1>8, <1>9

\* A read that fails may grow the buffer, and does not consult the policy.
LEMMA ReadFailsInv == ASSUME Inv, NEW n \in Sizes \cup {0}, ReadFails(n) PROVE Inv'
<1> DEFINE c == CapFor(n)
           h == SeenAtRead
           g == [h EXCEPT !.sizes = @ \cup ({n} \ {0})]
<1>1. /\ n \in Nat /\ CapAtRead \in Nat /\ FilledAtRead \in 0..CapAtRead
      /\ h \in Histories /\ (h.from # NoTime => h.from <= now)
      /\ Bounded(policy, h) /\ Backed(policy, h)
      /\ baseline \in Nat \cup {NoPolicy}
  BY AtRead, ReaderBufferAssumption DEF Inv
<1>2. c \in Nat /\ c >= CapAtRead /\ MaxOf(n, FilledAtRead) \in 0..c
  BY <1>1, HoldsWhatIsRead DEF CapFor
<1>3. /\ g \in Histories /\ g.run = h.run /\ g.from = h.from /\ g.small = h.small
      /\ h.sizes \subseteq g.sizes
  BY <1>1 DEF Histories
<1>4. /\ cap' = c /\ filled' = MaxOf(n, FilledAtRead) /\ pending' = FALSE /\ seen' = g
      /\ UNCHANGED <<policy, baseline, installs, now>> /\ reads' = 1 - reads /\ room' = 0
      /\ event'.reason = "none"
  BY DEF ReadFails, policyVars, NoEvent
<1>. HIDE DEF c, h, g
<1>5. Types'
  <2>1. /\ policy' \in PolicyStates(Configs) /\ baseline' \in {policy'.config.baseline, NoPolicy}
        /\ installs' \in 0..MaxInstalls /\ now' \in 0..MaxTime /\ reads' \in {0, 1}
    BY <1>4 DEF Inv, Types
  <2>2. seen' \in Histories /\ (seen'.from # NoTime => seen'.from <= now')
    BY <1>1, <1>3, <1>4
  <2>. QED BY <1>2, <1>4, <2>1, <2>2 DEF Types
<1>6. Backed(policy, g) /\ Bounded(policy, g)
  BY <1>1, <1>3 DEF Backed, Bounded
<1>7. Gated' => IsFresh(policy)
  <2>1. Gated' => baseline = NoPolicy \/ CapAtRead <= baseline
    BY <1>1, <1>2, <1>4 DEF Gated
  <2>. QED BY <2>1, AtRead DEF Inv, PolicyInv, Gated
<1>8. PolicyInv' /\ NoPrematureReclaim'
  BY <1>4, <1>6, <1>7 DEF Inv, PolicyInv, NoPrematureReclaim, CalledFor
<1>. QED BY <1>5, <1>8 DEF Inv

\* reserve() only grows the buffer.
LEMMA ReserveInv == ASSUME Inv, NEW n \in Reserves, Reserve(n) PROVE Inv'
<1> DEFINE g == [seen EXCEPT !.sizes = @ \cup {filled + n}]
<1>1. n \in Nat /\ filled \in Nat /\ filled + n \in Nat /\ cap \in Nat
  BY ReaderBufferAssumption DEF Inv, Types
<1>2. /\ g \in Histories /\ g.run = seen.run /\ g.from = seen.from /\ g.small = seen.small
      /\ seen.sizes \subseteq g.sizes
  BY <1>1 DEF Inv, Types, Histories
<1>3. cap' \in Nat /\ cap' >= cap
  BY <1>1, GrownTypes DEF Reserve
<1>4. /\ seen' = g /\ UNCHANGED <<filled, pending, policy, baseline, installs, now, reads>>
      /\ room' = n /\ event'.reason = "none"
  BY DEF Reserve, policyVars, NoEvent
<1>. HIDE DEF g
<1>5. Types'
  BY <1>1, <1>2, <1>3, <1>4 DEF Inv, Types
<1>6. Gated' => Gated
  BY <1>1, <1>3, <1>4, AtRead DEF Gated, Inv, NoPolicy
<1>7. PolicyInv' /\ NoPrematureReclaim'
  BY <1>2, <1>4, <1>6 DEF Inv, PolicyInv, NoPrematureReclaim, CalledFor, Backed, Bounded
<1>. QED BY <1>5, <1>7 DEF Inv

\* A policy starts fresh.
LEMMA InstallInv == ASSUME Inv, NEW config \in Policies, InstallPolicy(config) PROVE Inv'
<1> DEFINE g == [NothingSeen EXCEPT !.sizes = seen.sizes \cup {0}]
<1>1. /\ g \in Histories /\ g.run = 0 /\ g.from = NoTime /\ g.small = 0
  BY DEF Inv, Types, Histories, NothingSeen, NoTime
<1>2. config \in Configs /\ config.baseline \in Nat /\ config.wait \in Nat
  BY ConfigTypes DEF Configs, IsConfig
<1>3. /\ policy' = NewPolicy(config) /\ baseline' = config.baseline /\ seen' = g
      /\ installs' \in 0..MaxInstalls
      /\ UNCHANGED <<filled, cap, pending, now, reads, room>> /\ event'.reason = "none"
  BY ReaderBufferAssumption DEF InstallPolicy, bufferVars, NoEvent, Inv, Types
<1>. HIDE DEF g
<1>4. /\ policy' \in PolicyStates(Configs) /\ policy'.config = config
      /\ IsFresh(policy') /\ OwnPart(policy')
  BY <1>2, <1>3, NewPolicyTypes
<1>5. Types'
  BY <1>1, <1>3, <1>4 DEF Inv, Types
<1>6. Backed(policy', g) /\ Bounded(policy', g)
  BY <1>1, <1>2, <1>4, FreshIsBacked DEF Bounded, IsFresh
<1>7. PolicyInv' /\ NoPrematureReclaim'
  BY <1>2, <1>3, <1>4, <1>6
  DEF Inv, PolicyInv, NoPrematureReclaim, CalledFor, NoPolicy
<1>. QED BY <1>5, <1>7 DEF Inv

\* Time passes.
LEMMA TickInv == ASSUME Inv, Tick PROVE Inv'
<1>1. /\ now' \in 0..MaxTime /\ now' = now + 1 /\ event'.reason = "none"
      /\ UNCHANGED <<filled, cap, pending, policy, baseline, installs, seen, reads, room>>
  BY ReaderBufferAssumption DEF Tick, bufferVars, policyVars, NoEvent, Inv, Types
<1>2. Types'
  BY <1>1 DEF Inv, Types, Histories
<1>3. PolicyInv' /\ NoPrematureReclaim'
  BY <1>1 DEF Inv, PolicyInv, Gated, NoPrematureReclaim, CalledFor
<1>. QED BY <1>2, <1>3 DEF Inv

-----------------------------------------------------------------------------

\* Every call of the reader's preserves the invariant.
THEOREM InvInductive == Inv /\ [Next]_vars => Inv'
<1>. SUFFICES ASSUME Inv, [Next]_vars PROVE Inv'
  OBVIOUS
<1>1. CASE UNCHANGED vars
  BY <1>1
  DEF vars, bufferVars, policyVars, historyVars, Inv, Types, PolicyInv, Gated, NoPrematureReclaim
<1>. QED BY <1>1, ReadInv, ReadFailsInv, ReserveInv, InstallInv, TickInv DEF Next

(***************************************************************************)
(* The buffer holds what was read into it, and no policy counts past what  *)
(* it waits for, so that its saturating counters never saturate.           *)
(***************************************************************************)
THEOREM TypeCorrect == Spec => []TypeOK
<1>1. Inv => TypeOK
  <2>. SUFFICES ASSUME Inv PROVE TypeOK
    OBVIOUS
  <2>1. IsConfig(policy.config) /\ policy.config.wait \in Nat
    BY ConfigTypes DEF Inv, Types, PolicyStates, IsConfig
  <2>2. IsPolicyState(policy, Policies \cup {NoOpPolicy})
    BY <2>1 DEF Inv, Types, PolicyInv, PolicyStates, Bounded, IsPolicyState, Configs
  <2>3. seen.run \in 0..policy.config.wait /\ seen.small \in 0..policy.config.wait
    BY <2>1 DEF Inv, Types, PolicyInv, Histories, Bounded
  <2>4. seen.from \in 0..MaxTime \cup {NoTime}
    BY ReaderBufferAssumption DEF Inv, Types, Histories
  <2>. QED BY <2>2, <2>3, <2>4 DEF Inv, Types, TypeOK
<1>. QED BY <1>1, InitInv, InvInductive, PTL DEF Spec

(***************************************************************************)
(* Hysteresis: under every policy, a reclaim comes only after the stream   *)
(* has called for it since the last one, although the gate hides messages  *)
(* from the policy and the reclaim itself waits for the next read.         *)
(***************************************************************************)
THEOREM Hysteresis == Spec => []NoPrematureReclaim
<1>1. Inv => NoPrematureReclaim
  BY DEF Inv
<1>. QED BY <1>1, InitInv, InvInductive, PTL DEF Spec

-----------------------------------------------------------------------------
(* Steady state. *)

\* What the baseline gate needs to keep its promise: a size ratio that leaves no slack to a
\* doubled buffer, and a baseline that the least capacity of a Vec, 8, is not twice of.
Slack == \A p \in Policies : p.kind = "adaptive" => p.ratio >= 2 /\ p.baseline >= 4

\* With requests for one size n alone since the last shrink, the buffer is the one of the
\* baseline, or that one grown once for n.
OneSize(b, c, f, sizes) ==
    \A n \in Nat \ {0} : sizes \subseteq {n} => c \in {b, Grown(b, n)} /\ f <= n

SteadyInv ==
    /\ pending \/ 0 \in seen.sizes \/ (baseline # NoPolicy /\ OneSize(baseline, cap, filled, seen.sizes))
    /\ NeverThrashesAtSteadyState

\* A buffer that grew above the baseline for a message is not twice as large as it.
LEMMA GrownHasNoSlack ==
    ASSUME NEW b \in Nat, b >= 4, NEW n \in Nat, NEW ratio \in Nat, ratio >= 2,
           Grown(b, n) > b
    PROVE  ~(Grown(b, n) >= n * ratio)
<1>1. n > b /\ Grown(b, n) \in {2 * b, n, 8}
  BY DEF Grown, MaxOf
<1>2. 2 * n <= n * ratio /\ n * ratio \in Nat
  OBVIOUS
<1>. QED BY <1>1, <1>2

\* Growing the buffer for a size it was grown for before leaves it alone.
LEMMA GrowsOnce ==
    ASSUME NEW b \in Nat, NEW n \in Nat \ {0}, NEW c \in {b, Grown(b, n)}, NEW f \in Nat, f <= n
    PROVE  MaxOf(n, f) = n /\ Grown(c, n) = Grown(b, n)
BY DEF Grown, MaxOf

\* A read, also one that fails, that makes the buffer hold n bytes.
LEMMA ReadKeepsOneSize ==
    ASSUME Inv, SteadyInv, NEW n \in Nat, NEW k \in Nat \ {0}, 0 \notin SeenAtRead.sizes,
           SeenAtRead.sizes \cup ({n} \ {0}) \subseteq {k}
    PROVE  /\ baseline \in Nat /\ FilledAtRead <= k /\ CapAtRead \in {baseline, Grown(baseline, k)}
           /\ n # 0 => n = k /\ CapFor(n) = Grown(baseline, k) /\ MaxOf(n, FilledAtRead) = k
           /\ n = 0 => CapFor(n) \in {baseline, Grown(baseline, k)} /\ MaxOf(n, FilledAtRead) <= k
<1>1. /\ CapAtRead \in Nat /\ FilledAtRead \in 0..CapAtRead /\ baseline \in Nat \cup {NoPolicy}
      /\ FilledAtRead \in Nat
  BY AtRead DEF Inv
<1>2. baseline # NoPolicy /\ OneSize(baseline, CapAtRead, FilledAtRead, SeenAtRead.sizes)
  <2>1. CASE pending
    <3>1. CapAtRead = baseline /\ FilledAtRead = 0 /\ baseline # NoPolicy
      BY <2>1 DEF CapAtRead, FilledAtRead, Inv, PolicyInv
    <3>. QED BY <3>1 DEF OneSize
  <2>2. CASE ~pending
    BY <2>2 DEF CapAtRead, FilledAtRead, SeenAtRead, SteadyInv
  <2>. QED BY <2>1, <2>2
<1>3. baseline \in Nat
  BY <1>1, <1>2
<1>4. CapAtRead \in {baseline, Grown(baseline, k)} /\ FilledAtRead <= k
  <2>1. SeenAtRead.sizes \subseteq {k}
    OBVIOUS
  <2>. QED BY <1>2, <2>1 DEF OneSize
<1>5. ASSUME n # 0
      PROVE  n = k /\ CapFor(n) = Grown(baseline, k) /\ MaxOf(n, FilledAtRead) = k
  <2>1. n = k
    BY <1>5
  <2>2. MaxOf(k, FilledAtRead) = k /\ Grown(CapAtRead, k) = Grown(baseline, k)
    BY <1>1, <1>3, <1>4, GrowsOnce
  <2>. QED BY <2>1, <2>2 DEF CapFor
<1>6. ASSUME n = 0 PROVE CapFor(n) = CapAtRead /\ MaxOf(n, FilledAtRead) = FilledAtRead
  <2>1. MaxOf(n, FilledAtRead) = FilledAtRead
    BY <1>1, <1>6 DEF MaxOf
  <2>. QED BY <1>1, <2>1 DEF CapFor, Grown
<1>. QED BY <1>3, <1>4, <1>5, <1>6

\* A reclaim that a read schedules was called for by messages of more sizes than one.
LEMMA FiringSawTwoSizes ==
    ASSUME Slack, Inv, SteadyInv, NEW n \in Sizes, Read(n), event'.reason # "none", NEW k,
           SeenAtRead.sizes \cup {n} = {k}
    PROVE  FALSE
<1> DEFINE c == CapFor(n)
<1>1. /\ n = k /\ n \in Nat /\ now \in Nat /\ policy \in PolicyStates(Configs) /\ OwnPart(policy)
      /\ IsConfig(policy.config) /\ Backed(policy, SeenAtRead) /\ policy.config \in Configs
      /\ SeenAtRead.sizes \subseteq {n}
  BY AtRead, ReaderBufferAssumption DEF Inv, Types, PolicyInv
<1>2. Consulted(c) /\ ShouldReset(policy, n, c, now).reason # "none"
  BY DEF Read, NoEvent
<1>3. CASE policy.config.kind = "adaptive" /\ n # 0 /\ Overprovisioned(policy.config, n, c)
  <2>1. policy.config \in Policies
    BY <1>1, <1>3 DEF Configs, NoOpPolicy
  <2>2. baseline = policy.config.baseline /\ baseline >= 4 /\ policy.config.ratio >= 2
    BY <1>2, <2>1, <1>3 DEF Slack, Consulted, Inv, Types
  <2>3. policy.config.ratio \in Nat
    BY <1>1, <1>3 DEF IsConfig
  <2>4. 0 \notin SeenAtRead.sizes /\ SeenAtRead.sizes \cup ({n} \ {0}) \subseteq {n}
    BY <1>1, <1>3
  <2>5. baseline \in Nat /\ c = Grown(baseline, n)
    BY <1>1, <1>3, <2>4, ReadKeepsOneSize
  <2>6. Grown(baseline, n) > baseline /\ Grown(baseline, n) >= n * policy.config.ratio
    BY <1>2, <1>3, <2>5 DEF Consulted, Overprovisioned
  <2>. QED BY <1>1, <2>2, <2>3, <2>5, <2>6, GrownHasNoSlack
<1>4. CASE policy.config.kind = "threshold" /\ policy.large /\ ~(n > policy.config.growAbove)
  BY <1>1, <1>4 DEF Backed
<1>. QED BY <1>1, <1>2, <1>3, <1>4, FiresOnlyIf

\* A call that asks the buffer for n bytes, and notes it.
LEMMA ReadSteady ==
    ASSUME Inv, SteadyInv, NEW n \in Nat, cap' = CapFor(n), filled' = MaxOf(n, FilledAtRead),
           NEW m, seen'.sizes = SeenAtRead.sizes \cup m, {n} \ {0} \subseteq m,
           0 \notin seen'.sizes, baseline' = baseline
    PROVE  baseline' # NoPolicy /\ OneSize(baseline', cap', filled', seen'.sizes)
<1>1. 0 \notin SeenAtRead.sizes
  OBVIOUS
<1>2. ASSUME NEW k \in Nat \ {0}, seen'.sizes \subseteq {k}
      PROVE  baseline \in Nat /\ cap' \in {baseline, Grown(baseline, k)} /\ filled' <= k
  <2>1. SeenAtRead.sizes \cup ({n} \ {0}) \subseteq {k}
    BY <1>2
  <2>. QED BY <1>1, <2>1, ReadKeepsOneSize
<1>3. baseline # NoPolicy
  BY <1>1 DEF SteadyInv, SeenAtRead, Inv, PolicyInv
<1>. QED BY <1>2, <1>3 DEF OneSize

\* Every call preserves the steady state.
LEMMA SteadyInductive ==
    ASSUME Slack, Inv, SteadyInv, [Next]_vars
    PROVE  SteadyInv'
<1>1. ASSUME NEW n \in Sizes, Read(n) PROVE SteadyInv'
  <2>1. /\ cap' = CapFor(n) /\ filled' = MaxOf(n, FilledAtRead) /\ baseline' = baseline
        /\ seen'.sizes = SeenAtRead.sizes \cup {n} /\ n \in Nat
    BY <1>1, ReaderBufferAssumption DEF Read, Saw
  <2>2. ASSUME 0 \notin seen'.sizes
        PROVE  baseline' # NoPolicy /\ OneSize(baseline', cap', filled', seen'.sizes)
    BY <2>1, <2>2, ReadSteady
  <2>3. ASSUME event'.reason # "none", NEW k \in Sizes, seen'.sizes = {k} PROVE FALSE
    BY <1>1, <2>1, <2>3, FiringSawTwoSizes
  <2>. QED BY <2>2, <2>3 DEF SteadyInv, NeverThrashesAtSteadyState
<1>2. ASSUME NEW n \in Sizes \cup {0}, ReadFails(n) PROVE SteadyInv'
  <2>1. /\ cap' = CapFor(n) /\ filled' = MaxOf(n, FilledAtRead) /\ baseline' = baseline
        /\ event'.reason = "none" /\ n \in Nat
    BY <1>2, ReaderBufferAssumption DEF ReadFails, policyVars, NoEvent
  <2>2. seen'.sizes = SeenAtRead.sizes \cup ({n} \ {0})
    BY <1>2, AtRead DEF ReadFails, Histories, Inv
  <2>3. ASSUME 0 \notin seen'.sizes
        PROVE  baseline' # NoPolicy /\ OneSize(baseline', cap', filled', seen'.sizes)
    BY <2>1, <2>2, <2>3, ReadSteady
  <2>. QED BY <2>1, <2>3 DEF SteadyInv, NeverThrashesAtSteadyState
<1>3. ASSUME NEW n \in Reserves, Reserve(n) PROVE SteadyInv'
  <2>1. /\ cap' = Grown(cap, filled + n) /\ UNCHANGED <<filled, pending, baseline>>
        /\ event'.reason = "none" /\ n \in Nat /\ filled \in Nat /\ cap \in Nat
    BY <1>3, ReaderBufferAssumption DEF Reserve, policyVars, NoEvent, Inv, Types
  <2>2. seen'.sizes = seen.sizes \cup {filled + n}
    BY <1>3 DEF Reserve, Inv, Types, Histories
  <2>3. ASSUME ~pending, 0 \notin seen'.sizes
        PROVE  baseline' # NoPolicy /\ OneSize(baseline', cap', filled', seen'.sizes)
    <3>1. baseline \in Nat /\ OneSize(baseline, cap, filled, seen.sizes)
      BY <2>2, <2>3, AtRead DEF SteadyInv, Inv
    <3>2. ASSUME NEW k \in Nat \ {0}, seen'.sizes \subseteq {k}
          PROVE  cap' \in {baseline, Grown(baseline, k)} /\ filled' <= k
      <4>1. filled + n = k /\ seen.sizes \subseteq {k}
        BY <2>2, <3>2
      <4>2. cap \in {baseline, Grown(baseline, k)} /\ filled <= k
        BY <3>1, <4>1 DEF OneSize
      <4>. QED BY <2>1, <3>1, <4>1, <4>2, GrowsOnce
    <3>. QED BY <2>1, <3>1, <3>2 DEF OneSize, NoPolicy
  <2>. QED BY <2>1, <2>3 DEF SteadyInv, NeverThrashesAtSteadyState
<1>4. ASSUME NEW config \in Policies, InstallPolicy(config) PROVE SteadyInv'
  <2>1. 0 \in seen'.sizes /\ event'.reason = "none"
    BY <1>4 DEF InstallPolicy, NothingSeen, NoEvent
  <2>. QED BY <2>1 DEF SteadyInv, NeverThrashesAtSteadyState
<1>5. CASE Tick
  BY <1>5 DEF Tick, bufferVars, policyVars, NoEvent, SteadyInv, NeverThrashesAtSteadyState
<1>6. CASE UNCHANGED vars
  BY <1>6
  DEF vars, bufferVars, policyVars, historyVars, SteadyInv, NeverThrashesAtSteadyState
<1>. QED BY <1>1, <1>2, <1>3, <1>4, <1>5, <1>6 DEF Next

(***************************************************************************)
(* "The baseline gate guarantees a policy can never thrash at steady       *)
(* state" (README.md), for every message size: true for any size ratio of  *)
(* at least 2 and baseline of at least 4, whatever reads fail and whatever *)
(* is reserved in between.                                                 *)
(***************************************************************************)
THEOREM SteadyState == ASSUME Slack PROVE Spec => []NeverThrashesAtSteadyState
<1>1. Init => SteadyInv
  BY DEF Init, SteadyInv, NeverThrashesAtSteadyState, NothingSeen, NoEvent
<1>2. Inv /\ SteadyInv /\ [Next]_vars => SteadyInv'
  BY SteadyInductive
<1>3. SteadyInv => NeverThrashesAtSteadyState
  BY DEF SteadyInv
<1>. QED BY <1>1, <1>2, <1>3, InitInv, InvInductive, PTL DEF Spec

=============================================================================
