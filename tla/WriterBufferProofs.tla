------------------------- MODULE WriterBufferProofs -------------------------
(***************************************************************************)
(* Theorems about the builder of a StreamWriter, for all sizes,            *)
(* capacities, policies, factories and times.                              *)
(***************************************************************************)
EXTENDS WriterBuffer, PolicyProofs, Counting

Configs == Policies \cup {NoOpPolicy}

-----------------------------------------------------------------------------
(* What doubling a builder until an item fits comes to. *)

\* The recursion that defines Doubled has a solution if the top leaves room for the last
\* doubling.
LEMMA GrowthExists ==
    ASSUME NEW size \in Nat, NEW top \in Nat, 2 * size <= top
    PROVE  \E g : g = [n \in 0..top |-> IF size <= n THEN n ELSE g[Grown(n)]]
<1> DEFINE D == 0..top
           stop == {n \in D : size <= n}
           base == [n \in D |-> n]
           next == [n \in D |-> IF size <= n THEN n ELSE Grown(n)]
           step == [n \in D |-> [v \in Nat |-> v]]
           measure == [n \in D |-> top - n]
<1>1. /\ measure \in [D -> 0..top] /\ base \in [D -> Nat] /\ stop \in SUBSET D
      /\ step \in [D -> [Nat -> Nat]]
  OBVIOUS
<1>2. next \in [D -> D] /\ \A n \in D \ stop : measure[next[n]] < measure[n]
  <2>1. ASSUME NEW n \in D, ~(size <= n)
        PROVE  Grown(n) \in D /\ top - Grown(n) < top - n
    BY <2>1 DEF Grown
  <2>2. next \in [D -> D]
    BY <2>1
  <2>3. ASSUME NEW n \in D \ stop PROVE measure[next[n]] < measure[n]
    <3>1. n \in D /\ ~(size <= n) /\ next[n] = Grown(n)
      OBVIOUS
    <3>2. Grown(n) \in D /\ top - Grown(n) < top - n
      BY <2>1, <3>1
    <3>3. measure[Grown(n)] = top - Grown(n) /\ measure[n] = top - n
      BY <3>1, <3>2
    <3>. HIDE DEF measure, next
    <3>. QED BY <3>1, <3>2, <3>3
  <2>. HIDE DEF D, stop, next, measure
  <2>. QED BY <2>2, <2>3
<1>3. PICK g \in [D -> Nat] :
        \A n \in D : g[n] = IF n \in stop THEN base[n] ELSE step[n][g[next[n]]]
  <2>1. Recursive(D, Nat, top, measure, stop, base, next, step)
    <3>. HIDE DEF D, stop, base, next, step, measure
    <3>. QED BY <1>1, <1>2 DEF Recursive
  <2>. HIDE DEF D, stop, base, next, step, measure
  <2>. QED BY <2>1, Recursion
<1>4. ASSUME NEW n \in D PROVE g[n] = IF size <= n THEN n ELSE g[Grown(n)]
  <2>1. CASE size <= n
    BY <1>3, <2>1
  <2>2. CASE ~(size <= n)
    <3>1. next[n] = Grown(n) /\ Grown(n) \in D /\ g[Grown(n)] \in Nat
      BY <1>2, <1>3, <2>2
    <3>2. g[n] = step[n][g[Grown(n)]]
      BY <1>3, <2>2, <3>1
    <3>. QED BY <2>2, <3>1, <3>2
  <2>. QED BY <2>1, <2>2
<1>. QED BY <1>3, <1>4

\* What a solution gives on the capacities above the top less m.
Fits(g, size, top, m) ==
    \A n \in 0..top : n + m >= top =>
        /\ g[n] \in Nat /\ g[n] >= n /\ g[n] >= size
        /\ size > n => g[n] < 2 * size

\* A solution keeps these bounds everywhere.
LEMMA GrowthFits ==
    ASSUME NEW size \in Nat, NEW top \in Nat, 2 * size <= top,
           NEW g, g = [n \in 0..top |-> IF size <= n THEN n ELSE g[Grown(n)]]
    PROVE  Fits(g, size, top, top)
<1> DEFINE S == {m \in Nat : Fits(g, size, top, m)}
<1>0. \A n \in 0..top : g[n] = IF size <= n THEN n ELSE g[Grown(n)]
  OBVIOUS
<1>1. 0 \in S
  BY <1>0 DEF Fits
<1>2. ASSUME NEW m \in S, m < top PROVE m + 1 \in S
  <2>1. m \in Nat /\ Fits(g, size, top, m)
    OBVIOUS
  <2>2. ASSUME NEW n \in 0..top, n + (m + 1) >= top
        PROVE  /\ g[n] \in Nat /\ g[n] >= n /\ g[n] >= size
               /\ size > n => g[n] < 2 * size
    <3>1. CASE size <= n
      BY <1>0, <3>1
    <3>2. CASE size > n
      <4>1. Grown(n) \in 0..top /\ Grown(n) + m >= top /\ Grown(n) > n
        BY <2>1, <2>2, <3>2 DEF Grown
      <4>2. /\ g[Grown(n)] \in Nat /\ g[Grown(n)] >= Grown(n) /\ g[Grown(n)] >= size
            /\ size > Grown(n) => g[Grown(n)] < 2 * size
        BY <2>1, <4>1 DEF Fits
      <4>3. size <= Grown(n) => g[Grown(n)] = Grown(n) /\ Grown(n) < 2 * size
        BY <1>0, <3>2, <4>1 DEF Grown
      <4>4. g[n] = g[Grown(n)]
        BY <1>0, <3>2
      <4>. QED BY <3>2, <4>1, <4>2, <4>3, <4>4
    <3>. QED BY <3>1, <3>2
  <2>. QED BY <2>1, <2>2 DEF Fits
<1>3. S \in SUBSET Nat
  OBVIOUS
<1>4. top \in S
  <2>. HIDE DEF S
  <2>. QED BY <1>1, <1>2, <1>3, CountUp
<1>. QED BY <1>4

\* A builder doubles until the item fits, and not once more.
LEMMA Doubling ==
    \A c, size \in Nat :
        /\ Doubled(c, size) \in Nat /\ Doubled(c, size) >= c /\ Doubled(c, size) >= size
        /\ size <= c => Doubled(c, size) = c
        /\ size > c => Doubled(c, size) < 2 * size
<1>. SUFFICES ASSUME NEW c \in Nat, NEW size \in Nat
              PROVE  /\ Doubled(c, size) \in Nat
                     /\ Doubled(c, size) >= c /\ Doubled(c, size) >= size
                     /\ size <= c => Doubled(c, size) = c
                     /\ size > c => Doubled(c, size) < 2 * size
  OBVIOUS
<1> DEFINE top == c + 2 * size
           grow == CHOOSE g : g = [n \in 0..top |-> IF size <= n THEN n ELSE g[Grown(n)]]
<1>1. top \in Nat /\ 2 * size <= top /\ c \in 0..top /\ c + top >= top
  OBVIOUS
<1>2. Doubled(c, size) = grow[c]
  BY DEF Doubled
<1>. HIDE DEF top
<1>3. \E g : g = [n \in 0..top |-> IF size <= n THEN n ELSE g[Grown(n)]]
  BY <1>1, GrowthExists
<1>4. grow = [n \in 0..top |-> IF size <= n THEN n ELSE grow[Grown(n)]]
  BY <1>3
<1>. HIDE DEF grow
<1>5. Fits(grow, size, top, top)
  BY <1>1, <1>4, GrowthFits
<1>6. grow[c] = IF size <= c THEN c ELSE grow[Grown(c)]
  BY <1>1, <1>4
<1>. QED BY <1>1, <1>2, <1>5, <1>6 DEF Fits

-----------------------------------------------------------------------------
(* The inductive invariant. *)

Types ==
    /\ cap \in Nat
    /\ content \subseteq Items
    /\ content # {} => \E n \in Sizes : n <= cap
    /\ policy \in PolicyStates(Configs)
    /\ baseline \in {policy.config.baseline, NoPolicy}
    /\ extra \in Overshoots \cup {0}
    /\ installs \in 0..MaxInstalls
    /\ now \in 0..MaxTime
    /\ item \in Items
    /\ framed \subseteq Items \cup {External}
    /\ seen \in Histories
    /\ seen.from # NoTime => seen.from <= now

\* A policy that has just fired, or that the gate has not let see any message, is fresh.
PolicyInv ==
    /\ OwnPart(policy)
    /\ Bounded(policy, seen)
    /\ Backed(policy, SeenSince)
    /\ event.reason # "none" => IsFresh(policy)
    /\ baseline = NoPolicy \/ cap <= baseline => IsFresh(policy)

Inv == Types /\ PolicyInv /\ NoPrematureReclaim

\* Every policy the writer can have is configured with unsigned counts.
LEMMA ConfigTypes == \A config \in Configs : IsConfig(config)
<1>1. IsConfig(NoOpPolicy)
  BY DEF NoOpPolicy, IsConfig, DEFAULT_BASELINE_CAPACITY
<1>. QED BY <1>1, WriterBufferAssumption DEF Configs

\* A policy as with_memory_policy installs it.
LEMMA NewPolicyTypes ==
    ASSUME NEW config \in Configs
    PROVE  /\ NewPolicy(config) \in PolicyStates(Configs)
           /\ NewPolicy(config).config = config
           /\ IsFresh(NewPolicy(config)) /\ OwnPart(NewPolicy(config))
BY DEF NewPolicy, PolicyStates, IsFresh, OwnPart, NoTime

\* The history a call starts with, and the policy that goes with it.
LEMMA AtCall ==
    ASSUME Types, PolicyInv
    PROVE  /\ SeenSince \in Histories /\ (SeenSince.from # NoTime => SeenSince.from <= now)
           /\ Bounded(policy, SeenSince)
           /\ policy.config \in Configs /\ IsConfig(policy.config)
           /\ baseline \in Nat \cup {NoPolicy}
           /\ now \in Nat
<1>1. policy.config \in Configs /\ IsConfig(policy.config) /\ policy.config.wait \in Nat
  BY ConfigTypes DEF Types, PolicyStates, IsConfig
<1>2. /\ NothingSeen \in Histories /\ NothingSeen.run = 0 /\ NothingSeen.small = 0
      /\ NothingSeen.from = NoTime
  BY DEF NothingSeen, Histories, NoTime
<1>3. Bounded(policy, SeenSince)
  BY <1>1, <1>2 DEF SeenSince, PolicyInv, Bounded
<1>4. SeenSince \in Histories /\ (SeenSince.from # NoTime => SeenSince.from <= now)
  BY <1>2 DEF SeenSince, Types
<1>5. baseline \in Nat \cup {NoPolicy} /\ now \in Nat
  BY <1>1, WriterBufferAssumption DEF Types, IsConfig
<1>. QED BY <1>1, <1>3, <1>4, <1>5

\* A builder without a policy.
LEMMA InitInv == Init => Inv
<1>. SUFFICES ASSUME Init PROVE Inv
  OBVIOUS
<1>1. NoOpPolicy \in Configs
  BY DEF Configs
<1>2. /\ seen \in Histories /\ seen.run = 0 /\ seen.small = 0 /\ seen.from = NoTime
      /\ event.reason = "none" /\ SeenSince = seen
  BY DEF Init, NothingSeen, Histories, NoTime, NoEvent, SeenSince
<1>3. /\ policy \in PolicyStates(Configs) /\ IsFresh(policy) /\ OwnPart(policy)
      /\ policy.config = NoOpPolicy /\ policy.config.wait \in Nat
  BY <1>1, NewPolicyTypes, ConfigTypes DEF Init, IsConfig
<1>4. Types
  <2>1. cap \in Nat /\ MaxInstalls \in Nat /\ MaxTime \in Nat
    BY WriterBufferAssumption DEF Init
  <2>2. /\ content = {} /\ baseline = NoPolicy /\ extra = 0 /\ installs = 0 /\ now = 0
        /\ item \in Items /\ framed = {}
    BY DEF Init, Items
  <2>. QED BY <1>2, <1>3, <2>1, <2>2 DEF Types
<1>5. PolicyInv
  BY <1>2, <1>3, FreshIsBacked DEF PolicyInv, Bounded, IsFresh
<1>6. NoPrematureReclaim
  BY <1>2 DEF NoPrematureReclaim, CalledFor
<1>. QED BY <1>4, <1>5, <1>6 DEF Inv

\* What a write() that returns Ok does.
LEMMA WriteSteps ==
    ASSUME Inv, NEW size \in Sizes, Write(size),
           NEW c, c = Doubled(cap, size), NEW g, g = Saw(policy.config, SeenSince, size, c, now),
           NEW v, v = ShouldReset(policy, size, c, now)
    PROVE  /\ size \in Nat /\ c \in Nat /\ c >= cap /\ c >= size
           /\ g \in Histories /\ (g.from # NoTime => g.from <= now)
           /\ g.run <= policy.config.wait /\ g.small <= policy.config.wait
           /\ g.sizes = SeenSince.sizes \cup {size}
           /\ Sound(v, Configs, policy.config, g, now)
<1>1. size \in Nat /\ cap \in Nat /\ policy \in PolicyStates(Configs)
  BY WriterBufferAssumption DEF Inv, Types
<1>2. c \in Nat /\ c >= cap /\ c >= size
  BY <1>1, Doubling
<1>3. /\ SeenSince \in Histories /\ (SeenSince.from # NoTime => SeenSince.from <= now)
      /\ Bounded(policy, SeenSince) /\ Backed(policy, SeenSince) /\ OwnPart(policy)
      /\ IsConfig(policy.config) /\ now \in Nat
  BY AtCall DEF Inv, PolicyInv
<1>4. SeenSince.run <= policy.config.wait /\ SeenSince.small <= policy.config.wait
  BY <1>3 DEF Bounded
<1>5. /\ g \in Histories /\ (g.from # NoTime => g.from <= now)
      /\ g.run <= policy.config.wait /\ g.small <= policy.config.wait
      /\ g.sizes = SeenSince.sizes \cup {size}
  <2>1. g.sizes = SeenSince.sizes \cup {size}
    BY DEF Saw
  <2>2. /\ g \in Histories /\ (g.from # NoTime => g.from <= now)
        /\ g.run <= policy.config.wait /\ g.small <= policy.config.wait
    BY <1>1, <1>2, <1>3, <1>4, SawTypes
  <2>. QED BY <2>1, <2>2
<1>6. Sound(v, Configs, policy.config, g, now)
  BY <1>1, <1>2, <1>3, ShouldResetSound
<1>. QED BY <1>1, <1>2, <1>5, <1>6

\* A write() that returns Ok.
LEMMA WriteInv == ASSUME Inv, NEW size \in Sizes, Write(size) PROVE Inv'
<1> DEFINE c == Doubled(cap, size)
           v == ShouldReset(policy, size, c, now)
           g == Saw(policy.config, SeenSince, size, c, now)
           fires == Consulted(c) /\ v.reason # "none"
<1>1. /\ size \in Nat /\ c \in Nat /\ c >= cap /\ c >= size
      /\ g \in Histories /\ (g.from # NoTime => g.from <= now)
      /\ g.run <= policy.config.wait /\ g.small <= policy.config.wait
      /\ Sound(v, Configs, policy.config, g, now)
  BY WriteSteps
<1>2. /\ item' = 1 - item /\ framed' = {item'} /\ cap' = (IF fires THEN baseline + extra ELSE c)
      /\ content' = (IF fires THEN {} ELSE {item'}) /\ seen' = g
      /\ policy' = (IF Consulted(c) THEN v.state ELSE policy)
      /\ event'.reason = (IF fires THEN v.reason ELSE "none")
      /\ UNCHANGED <<baseline, extra, installs, now>>
  BY DEF Write, ResetContent, Rebuilt, NoEvent
<1>. HIDE DEF c, v, g
<1>3. /\ policy' \in PolicyStates(Configs) /\ policy'.config = policy.config /\ OwnPart(policy')
  BY <1>1, <1>2 DEF Sound, Inv, Types, PolicyInv
<1>4. /\ policy.config.wait \in Nat /\ baseline \in Nat \cup {NoPolicy} /\ extra \in Nat
      /\ policy \in PolicyStates(Configs)
  <2>1. IsConfig(policy.config) /\ baseline \in Nat \cup {NoPolicy}
    BY AtCall DEF Inv
  <2>2. extra \in Nat /\ policy \in PolicyStates(Configs)
    BY WriterBufferAssumption DEF Inv, Types
  <2>. QED BY <2>1, <2>2 DEF IsConfig
<1>5. Types'
  <2>1. cap' \in Nat
    BY <1>1, <1>2, <1>4 DEF Consulted
  <2>2. item' \in Items
    BY <1>2 DEF Inv, Types, Items
  <2>3. content' # {} => \E n \in Sizes : n <= cap'
    BY <1>1, <1>2
  <2>4. content' \subseteq Items /\ framed' \subseteq Items \cup {External}
    BY <1>2, <2>2
  <2>. QED BY <1>1, <1>2, <1>3, <2>1, <2>2, <2>3, <2>4 DEF Inv, Types
<1>6. CASE fires
  <2>1. IsFresh(policy') /\ CalledFor(policy.config, v.reason, g, now)
    BY <1>1, <1>2, <1>6 DEF Sound
  <2>2. Bounded(policy', g)
    BY <1>1, <1>3, <1>4, <2>1 DEF Bounded, IsFresh
  <2>3. SeenSince' = NothingSeen /\ NothingSeen \in Histories
    BY <1>2, <1>6 DEF SeenSince, NothingSeen, Histories, NoTime
  <2>4. Backed(policy', NothingSeen)
    BY <1>3, <2>1, <2>3, FreshIsBacked
  <2>. QED BY <1>2, <1>3, <1>5, <1>6, <2>1, <2>2, <2>3, <2>4
       DEF Inv, PolicyInv, NoPrematureReclaim
<1>7. CASE ~fires
  <2>1. SeenSince' = g /\ event'.reason = "none" /\ cap' = c /\ baseline' = baseline
    BY <1>2, <1>7 DEF SeenSince
  <2>2. baseline' = NoPolicy \/ cap' <= baseline' => ~Consulted(c) /\ IsFresh(policy)
    BY <1>1, <1>4, <2>1 DEF Consulted, Inv, Types, PolicyInv
  <2>3. Backed(policy', g) /\ Bounded(policy', g)
    <3>1. CASE Consulted(c)
      BY <1>1, <1>2, <1>7, <3>1 DEF Sound
    <3>2. CASE ~Consulted(c)
      <4>1. policy' = policy /\ IsFresh(policy)
        BY <1>1, <1>2, <1>4, <3>2 DEF Consulted, Inv, Types, PolicyInv
      <4>. QED BY <1>1, <1>4, <4>1, FreshIsBacked DEF Bounded, IsFresh
    <3>. QED BY <3>1, <3>2
  <2>. QED BY <1>2, <1>3, <1>5, <2>1, <2>2, <2>3
       DEF Inv, PolicyInv, NoPrematureReclaim, CalledFor
<1>. QED BY <1>6, <1>7

\* A write() that fails may grow the builder, and does not consult the policy.
LEMMA WriteFailsInv ==
    ASSUME Inv, NEW size \in Sizes, NEW atFramer \in BOOLEAN, WriteFails(size, atFramer)
    PROVE  Inv'
<1> DEFINE g == [SeenSince EXCEPT !.sizes = @ \cup {size}]
           c == Doubled(cap, size)
<1>1. /\ SeenSince \in Histories /\ (SeenSince.from # NoTime => SeenSince.from <= now)
      /\ Bounded(policy, SeenSince) /\ baseline \in Nat \cup {NoPolicy} /\ size \in Nat
  BY AtCall, WriterBufferAssumption DEF Inv
<1>2. /\ g \in Histories /\ g.run = SeenSince.run /\ g.from = SeenSince.from
      /\ g.small = SeenSince.small /\ SeenSince.sizes \subseteq g.sizes
  BY <1>1 DEF Histories
<1>3. c \in Nat /\ c >= cap /\ c >= size /\ cap \in Nat
  BY <1>1, Doubling DEF Inv, Types
<1>4. /\ item' = 1 - item /\ cap' = c /\ content' = {item'} /\ framed' \in {{item'}, {}}
      /\ event'.reason = "none" /\ seen' = g
      /\ UNCHANGED <<policy, baseline, extra, installs, now>>
  BY DEF WriteFails, policyVars, NoEvent, ResetContent
<1>. HIDE DEF g, c
<1>5. Types'
  <2>1. item' \in Items
    BY <1>4 DEF Inv, Types, Items
  <2>2. content' \subseteq Items /\ framed' \subseteq Items \cup {External}
    BY <1>4, <2>1
  <2>3. \E n \in Sizes : n <= cap'
    BY <1>3, <1>4
  <2>4. seen' \in Histories /\ (seen'.from # NoTime => seen'.from <= now')
    BY <1>1, <1>2, <1>4
  <2>. QED BY <1>3, <1>4, <2>1, <2>2, <2>3, <2>4 DEF Inv, Types
<1>6. PolicyInv'
  <2>1. Backed(policy, g) /\ Bounded(policy, g)
    BY <1>1, <1>2 DEF Backed, Bounded, Inv, PolicyInv
  <2>2. SeenSince' = g
    BY <1>4 DEF SeenSince
  <2>3. baseline = NoPolicy \/ c <= baseline => IsFresh(policy)
    BY <1>1, <1>3 DEF Inv, PolicyInv
  <2>. QED BY <1>4, <2>1, <2>2, <2>3 DEF Inv, PolicyInv
<1>. QED BY <1>4, <1>5, <1>6 DEF Inv, NoPrematureReclaim, CalledFor

\* A step that leaves the builder and its policy alone.
LEMMA OtherInv ==
    ASSUME Inv, UNCHANGED <<cap, content, policy, baseline, extra, installs, item>>,
           seen' = SeenSince, event'.reason = "none", framed' \subseteq {External},
           now' \in 0..MaxTime, now' >= now
    PROVE  Inv'
<1>1. /\ SeenSince \in Histories /\ (SeenSince.from # NoTime => SeenSince.from <= now)
      /\ Bounded(policy, SeenSince) /\ now \in Nat
  BY AtCall DEF Inv
<1>2. Types'
  <2>1. seen'.from # NoTime => seen'.from <= now'
    BY <1>1, WriterBufferAssumption DEF Histories
  <2>. QED BY <1>1, <2>1 DEF Inv, Types
<1>3. SeenSince' = SeenSince
  BY DEF SeenSince
<1>4. PolicyInv'
  BY <1>1, <1>3 DEF Inv, PolicyInv
<1>. QED BY <1>2, <1>4 DEF Inv, NoPrematureReclaim, CalledFor

\* A policy starts fresh.
LEMMA InstallInv ==
    ASSUME Inv, NEW config \in Policies, NEW e \in Overshoots \cup {0}, Install(config, e)
    PROVE  Inv'
<1> DEFINE g == [NothingSeen EXCEPT !.sizes = SeenSince.sizes \cup {0}]
<1>1. g \in Histories /\ g.run = 0 /\ g.from = NoTime /\ g.small = 0
  BY AtCall DEF Inv, Histories, NothingSeen, NoTime
<1>2. config \in Configs /\ config.baseline \in Nat /\ config.wait \in Nat
  BY ConfigTypes DEF Configs, IsConfig
<1>3. /\ policy' = NewPolicy(config) /\ baseline' = config.baseline /\ extra' = e /\ seen' = g
      /\ installs' \in 0..MaxInstalls /\ framed' = {} /\ event'.reason = "none"
      /\ UNCHANGED <<cap, content, now, item>>
  BY WriterBufferAssumption DEF Install, builderVars, NoEvent, Inv, Types
<1>. HIDE DEF g
<1>4. /\ policy' \in PolicyStates(Configs) /\ policy'.config = config
      /\ IsFresh(policy') /\ OwnPart(policy')
  BY <1>2, <1>3, NewPolicyTypes
<1>5. Types'
  BY <1>1, <1>3, <1>4 DEF Inv, Types
<1>6. Backed(policy', g) /\ Bounded(policy', g)
  BY <1>1, <1>2, <1>4, FreshIsBacked DEF Bounded, IsFresh
<1>7. SeenSince' = g
  BY <1>3 DEF SeenSince
<1>8. PolicyInv'
  BY <1>3, <1>4, <1>6, <1>7 DEF PolicyInv
<1>. QED BY <1>3, <1>5, <1>8 DEF Inv, NoPrematureReclaim, CalledFor

\* Every call of the writer's preserves the invariant.
LEMMA InvInductive == Inv /\ [Next]_vars => Inv'
<1>. SUFFICES ASSUME Inv, [Next]_vars PROVE Inv'
  OBVIOUS
<1>1. CASE WriteFinished
  <2>1. now \in 0..MaxTime /\ now \in Nat
    BY WriterBufferAssumption DEF Inv, Types
  <2>. QED BY <1>1, <2>1, OtherInv DEF WriteFinished, builderVars, policyVars, NoEvent
<1>2. CASE Tick
  <2>1. now' \in 0..MaxTime /\ now' >= now
    BY <1>2, WriterBufferAssumption DEF Tick, Inv, Types
  <2>. QED BY <1>2, <2>1, OtherInv DEF Tick, builderVars, policyVars, NoEvent
<1>3. ASSUME NEW config \in Policies, InstallPolicy(config) PROVE Inv'
  BY <1>3, InstallInv DEF InstallPolicy
<1>4. ASSUME NEW config \in Policies, NEW e \in Overshoots, InstallPolicyAndFactory(config, e)
      PROVE  Inv'
  BY <1>4, InstallInv DEF InstallPolicyAndFactory
<1>5. CASE UNCHANGED vars
  BY <1>5 DEF vars, builderVars, policyVars, historyVars, Inv, Types, PolicyInv, SeenSince,
              NoPrematureReclaim
<1>. QED BY <1>1, <1>2, <1>3, <1>4, <1>5, WriteInv, WriteFailsInv DEF Next

-----------------------------------------------------------------------------

\* The builder has capacity for what it holds, and no policy counts past what it waits for.
THEOREM TypeCorrect == Spec => []TypeOK
<1>1. Inv => TypeOK
  <2>. SUFFICES ASSUME Inv PROVE TypeOK
    OBVIOUS
  <2>1. IsConfig(policy.config) /\ policy.config.wait \in Nat
    BY AtCall DEF Inv, IsConfig
  <2>2. IsPolicyState(policy, Policies \cup {NoOpPolicy})
    BY <2>1 DEF Inv, Types, PolicyInv, PolicyStates, Bounded, IsPolicyState, Configs
  <2>3. seen.run \in 0..policy.config.wait /\ seen.small \in 0..policy.config.wait
    BY <2>1 DEF Inv, Types, PolicyInv, Histories, Bounded
  <2>4. seen.from \in 0..MaxTime \cup {NoTime}
    BY WriterBufferAssumption DEF Inv, Types, Histories
  <2>. QED BY <2>2, <2>3, <2>4 DEF Inv, Types, TypeOK
<1>. QED BY <1>1, InitInv, InvInductive, PTL DEF Spec

(***************************************************************************)
(* Hysteresis: the builder is rebuilt only after the messages written      *)
(* since the last rebuild have called for it, although the policy sees     *)
(* none that the gate holds back, and a factory may leave the builder      *)
(* above the gate at once.                                                 *)
(***************************************************************************)
THEOREM Hysteresis == Spec => []NoPrematureReclaim
<1>1. Inv => NoPrematureReclaim
  BY DEF Inv
<1>. QED BY <1>1, InitInv, InvInductive, PTL DEF Spec

\* A frame holds the item it was written for and nothing of another, although a write()
\* that fails leaves its item in the builder: the next one resets it first.
THEOREM FramesUnmixed == Spec => []FrameHoldsItsItem
<1>1. Init => FrameHoldsItsItem
  BY DEF Init, FrameHoldsItsItem
<1>2. FrameHoldsItsItem /\ [Next]_vars => FrameHoldsItsItem'
  BY DEF FrameHoldsItsItem, Next, vars, historyVars, Write, WriteFails, WriteFinished,
         InstallPolicy, InstallPolicyAndFactory, Install, Tick, ResetContent
<1>. QED BY <1>1, <1>2, PTL DEF Spec

\* A rebuild that is reported has freed memory, and nothing else takes capacity away.
THEOREM ReclaimsReal == Spec => ReclaimsAreReal
<1> DEFINE A == IF event'.reason # "none"
                THEN /\ cap' - event'.after \in Overshoots \cup {0}
                     /\ cap' = event'.after => cap' < event'.before
                ELSE cap' >= cap
<1>1. ASSUME Inv, Next PROVE A
  <2>0. /\ cap \in Nat /\ baseline \in Nat \cup {NoPolicy} /\ extra \in Overshoots \cup {0}
        /\ extra \in Nat
    <3>1. baseline \in Nat \cup {NoPolicy}
      BY <1>1, AtCall DEF Inv
    <3>2. cap \in Nat /\ extra \in Overshoots \cup {0}
      BY <1>1 DEF Inv, Types
    <3>3. extra \in Nat
      BY <3>2, WriterBufferAssumption
    <3>. QED BY <3>1, <3>2, <3>3
  <2>1. ASSUME NEW size \in Sizes, Write(size) PROVE A
    <3> DEFINE c == Doubled(cap, size)
               v == ShouldReset(policy, size, c, now)
               fires == Consulted(c) /\ v.reason # "none"
    <3>1. c \in Nat /\ c >= cap
      BY <1>1, <2>1, WriteSteps
    <3>2. /\ cap' = (IF fires THEN baseline + extra ELSE c)
          /\ event' = (IF fires THEN [reason |-> v.reason, before |-> c, after |-> baseline]
                       ELSE NoEvent)
      BY <2>1 DEF Write, Rebuilt
    <3>. HIDE DEF c, v
    <3>3. CASE fires
      <4>1. event'.reason = v.reason /\ event'.before = c /\ event'.after = baseline
            /\ cap' = baseline + extra
        BY <3>2, <3>3
      <4>2. baseline \in Nat /\ c > baseline
        BY <2>0, <3>3 DEF Consulted
      <4>. QED BY <2>0, <3>1, <3>3, <4>1, <4>2
    <3>4. CASE ~fires
      BY <3>1, <3>2, <3>4 DEF NoEvent
    <3>. QED BY <3>3, <3>4
  <2>2. ASSUME NEW size \in Sizes, NEW atFramer \in BOOLEAN, WriteFails(size, atFramer) PROVE A
    <3>1. Doubled(cap, size) \in Nat /\ Doubled(cap, size) >= cap
      BY <2>0, WriterBufferAssumption, Doubling
    <3>. QED BY <2>2, <3>1 DEF WriteFails, NoEvent
  <2>3. ASSUME UNCHANGED cap, event' = NoEvent PROVE A
    BY <2>0, <2>3 DEF NoEvent
  <2>. QED
    BY <1>1, <2>1, <2>2, <2>3
    DEF Next, WriteFinished, InstallPolicy, InstallPolicyAndFactory, Install, Tick, builderVars
<1>2. Inv /\ [Next]_vars => [A]_vars
  BY <1>1
<1>. QED BY <1>2, InitInv, InvInductive, PTL DEF Spec, ReclaimsAreReal

-----------------------------------------------------------------------------
(* Steady state. *)

\* The size ratio must leave no slack to a doubled builder.
Slack == \A p \in Policies : p.kind = "adaptive" => p.ratio >= 2

\* With items of one size n alone since the last rebuild, the builder is the one of the
\* baseline, or that one grown once for n.
OneSize(b, c, sizes) ==
    \A n \in Nat \ {0} : sizes \subseteq {n} => c \in {b, Doubled(b, n)}

SteadyInv ==
    /\ \/ 0 \in SeenSince.sizes
       \/ baseline # NoPolicy /\ (extra = 0 => OneSize(baseline, cap, SeenSince.sizes))
    /\ NeverThrashesAtSteadyState

\* Items of one size grow the builder of the baseline once.
LEMMA GrowsOnce ==
    ASSUME NEW b \in Nat, NEW c \in Nat, NEW n \in Nat \ {0}, NEW sizes,
           OneSize(b, c, sizes), sizes \subseteq {n}
    PROVE  Doubled(c, n) = Doubled(b, n)
<1>1. c \in {b, Doubled(b, n)}
  BY DEF OneSize
<1>2. Doubled(b, n) \in Nat /\ n <= Doubled(b, n)
  BY Doubling
<1>3. Doubled(Doubled(b, n), n) = Doubled(b, n)
  <2> DEFINE d == Doubled(b, n)
  <2>1. d \in Nat /\ n <= d
    BY <1>2
  <2>. HIDE DEF d
  <2>2. Doubled(d, n) = d
    BY <2>1, <1>2, Doubling
  <2>. QED BY <2>2 DEF d
<1>. QED BY <1>1, <1>3

\* A rebuild was called for by items of more sizes than one, unless a factory left the
\* builder above the baseline.
LEMMA FiringSawTwoSizes ==
    ASSUME Slack, Inv, SteadyInv, NEW n \in Sizes, Write(n), event'.reason # "none",
           extra = 0, SeenSince.sizes \subseteq {n}
    PROVE  FALSE
<1> DEFINE c == Doubled(cap, n)
<1>1. /\ n \in Nat /\ cap \in Nat /\ policy \in PolicyStates(Configs) /\ OwnPart(policy)
      /\ Backed(policy, SeenSince)
  BY WriterBufferAssumption DEF Inv, Types, PolicyInv
<1>2. /\ IsConfig(policy.config) /\ policy.config \in Configs /\ now \in Nat
      /\ baseline \in Nat \cup {NoPolicy}
  BY AtCall DEF Inv
<1>3. Consulted(c) /\ ShouldReset(policy, n, c, now).reason # "none"
  BY DEF Write, NoEvent
<1>4. CASE policy.config.kind = "adaptive" /\ n # 0 /\ Overprovisioned(policy.config, n, c)
  <2>1. policy.config \in Policies /\ policy.config.ratio \in Nat
    BY <1>2, <1>4 DEF Configs, NoOpPolicy, IsConfig
  <2>2. policy.config.ratio >= 2
    BY <1>4, <2>1 DEF Slack
  <2>3. baseline \in Nat /\ OneSize(baseline, cap, SeenSince.sizes)
    BY <1>2, <1>3, <1>4 DEF SteadyInv, Consulted
  <2>4. c = Doubled(baseline, n)
    BY <1>1, <1>4, <2>3, GrowsOnce
  <2>5. c \in Nat /\ c > baseline
    BY <1>1, <1>3, Doubling DEF Consulted
  <2>6. n > baseline
    <3>1. n <= baseline => Doubled(baseline, n) = baseline
      BY <1>1, <2>3, Doubling
    <3>. QED BY <1>1, <2>3, <2>4, <2>5, <3>1
  <2>7. c < 2 * n
    BY <1>1, <2>3, <2>4, <2>6, Doubling
  <2>8. c >= n * policy.config.ratio
    BY <1>4 DEF Overprovisioned
  <2>9. n * policy.config.ratio >= 2 * n /\ n * policy.config.ratio \in Nat
    BY <1>1, <2>1, <2>2
  <2>. HIDE DEF c
  <2>. QED BY <1>1, <2>5, <2>7, <2>8, <2>9
<1>5. CASE policy.config.kind = "threshold" /\ policy.large /\ ~(n > policy.config.growAbove)
  BY <1>1, <1>5 DEF Backed
<1>. QED BY <1>1, <1>2, <1>3, <1>4, <1>5, FiresOnlyIf

\* Every call preserves the steady state.
LEMMA SteadyInductive ==
    ASSUME Slack, Inv, SteadyInv, [Next]_vars
    PROVE  SteadyInv'
<1>1. /\ cap \in Nat /\ baseline \in Nat \cup {NoPolicy} /\ extra \in Nat
      /\ SeenSince \in Histories
  <2>1. baseline \in Nat \cup {NoPolicy} /\ SeenSince \in Histories
    BY AtCall DEF Inv
  <2>. QED BY <2>1, WriterBufferAssumption DEF Inv, Types
\* Building an item that the history notes.
<1>2. ASSUME NEW n \in Nat, 0 \notin SeenSince.sizes \cup {n}
      PROVE  /\ baseline # NoPolicy
             /\ extra = 0 => OneSize(baseline, Doubled(cap, n), SeenSince.sizes \cup {n})
  <2>1. baseline \in Nat /\ (extra = 0 => OneSize(baseline, cap, SeenSince.sizes))
    BY <1>1, <1>2 DEF SteadyInv
  <2>2. ASSUME extra = 0, NEW k \in Nat \ {0}, SeenSince.sizes \cup {n} \subseteq {k}
        PROVE  Doubled(cap, n) \in {baseline, Doubled(baseline, k)}
    <3>1. n = k /\ SeenSince.sizes \subseteq {k}
      BY <2>2
    <3>. QED BY <1>1, <2>1, <2>2, <3>1, GrowsOnce
  <2>. QED BY <2>1, <2>2 DEF OneSize, NoPolicy
<1>3. ASSUME NEW n \in Sizes, Write(n) PROVE SteadyInv'
  <2> DEFINE c == Doubled(cap, n)
             v == ShouldReset(policy, n, c, now)
             fires == Consulted(c) /\ v.reason # "none"
  <2>1. /\ cap' = (IF fires THEN baseline + extra ELSE c)
        /\ event'.reason = (IF fires THEN v.reason ELSE "none")
        /\ seen'.sizes = SeenSince.sizes \cup {n} /\ n \in Nat
        /\ UNCHANGED <<baseline, extra>>
    BY <1>3, WriterBufferAssumption DEF Write, Rebuilt, Saw, NoEvent
  <2>2. CASE fires
    <3>1. SeenSince' = NothingSeen
      BY <2>1, <2>2 DEF SeenSince
    <3>2. baseline' # NoPolicy /\ (extra' = 0 => cap' = baseline')
      BY <1>1, <2>1, <2>2 DEF Consulted
    <3>3. baseline' # NoPolicy /\ (extra' = 0 => OneSize(baseline', cap', (SeenSince').sizes))
      BY <3>2 DEF OneSize
    <3>4. ASSUME extra' = 0, NEW k \in Sizes, seen'.sizes = {k} PROVE FALSE
      <4>1. extra = 0 /\ SeenSince.sizes \subseteq {n} /\ event'.reason # "none"
        BY <2>1, <2>2, <3>4
      <4>. QED BY <1>3, <4>1, FiringSawTwoSizes
    <3>. QED BY <3>3, <3>4 DEF SteadyInv, NeverThrashesAtSteadyState
  <2>3. CASE ~fires
    <3>1. SeenSince' = seen' /\ event'.reason = "none" /\ cap' = c
      BY <2>1, <2>3 DEF SeenSince
    <3>2. 0 \in seen'.sizes \/ (baseline' # NoPolicy
                                 /\ (extra' = 0 => OneSize(baseline', cap', seen'.sizes)))
      BY <1>2, <2>1, <3>1
    <3>. QED BY <3>1, <3>2 DEF SteadyInv, NeverThrashesAtSteadyState
  <2>. QED BY <2>2, <2>3
<1>4. ASSUME NEW n \in Sizes, NEW atFramer \in BOOLEAN, WriteFails(n, atFramer) PROVE SteadyInv'
  <2>1. /\ cap' = Doubled(cap, n) /\ event'.reason = "none" /\ n \in Nat
        /\ UNCHANGED <<baseline, extra>>
    BY <1>4, WriterBufferAssumption DEF WriteFails, policyVars, NoEvent
  <2>2. seen'.sizes = SeenSince.sizes \cup {n}
    BY <1>1, <1>4 DEF WriteFails, Histories
  <2>3. SeenSince' = seen'
    BY <2>1 DEF SeenSince
  <2>. QED BY <1>2, <2>1, <2>2, <2>3 DEF SteadyInv, NeverThrashesAtSteadyState
<1>5. ASSUME NEW config \in Policies, NEW e, Install(config, e) PROVE SteadyInv'
  <2>1. 0 \in seen'.sizes /\ event'.reason = "none"
    BY <1>5 DEF Install, NothingSeen, NoEvent
  <2>. QED BY <2>1 DEF SteadyInv, NeverThrashesAtSteadyState, SeenSince
<1>6. ASSUME UNCHANGED <<cap, baseline, extra>>, seen' = SeenSince, event' = NoEvent
      PROVE  SteadyInv'
  <2>1. SeenSince' = SeenSince /\ event'.reason = "none"
    BY <1>6 DEF SeenSince, NoEvent
  <2>. QED BY <1>6, <2>1 DEF SteadyInv, NeverThrashesAtSteadyState
<1>7. CASE UNCHANGED vars
  BY <1>7 DEF vars, builderVars, policyVars, historyVars, SteadyInv, SeenSince,
              NeverThrashesAtSteadyState
<1>. QED
  BY <1>3, <1>4, <1>5, <1>6, <1>7
  DEF Next, WriteFinished, InstallPolicy, InstallPolicyAndFactory, Tick, builderVars, policyVars

(***************************************************************************)
(* "The baseline gate guarantees a policy can never thrash at steady       *)
(* state" (README.md), for every item size: true for any size ratio of at  *)
(* least 2, when rebuilds give the baseline asked for.                     *)
(***************************************************************************)
THEOREM SteadyState == ASSUME Slack PROVE Spec => []NeverThrashesAtSteadyState
<1>1. Init => SteadyInv
  BY DEF Init, SteadyInv, SeenSince, NeverThrashesAtSteadyState, NothingSeen, NoEvent
<1>2. Inv /\ SteadyInv /\ [Next]_vars => SteadyInv'
  BY SteadyInductive
<1>3. SteadyInv => NeverThrashesAtSteadyState
  BY DEF SteadyInv
<1>. QED BY <1>1, <1>2, <1>3, InitInv, InvInductive, PTL DEF Spec

=============================================================================
