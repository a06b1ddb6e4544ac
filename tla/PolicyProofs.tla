---------------------------- MODULE PolicyProofs ----------------------------
(***************************************************************************)
(* Lemmas about the memory policies, for every configuration: what a       *)
(* policy has counted lies within what the stream has shown, so it fires   *)
(* only when the stream has called for it.                                 *)
(***************************************************************************)
EXTENDS Policy, TLAPS

PolicyStates(Configs) ==
    [config : Configs, over : Nat, since : Nat \cup {NoTime}, large : BOOLEAN, small : Nat]

Histories == [run : Nat, from : Nat \cup {NoTime}, small : Nat, sizes : SUBSET Nat]

\* A policy as it was installed: nothing counted, no timer, no large message seen.
IsFresh(s) == s.over = 0 /\ s.since = NoTime /\ ~s.large /\ s.small = 0

\* Each kind uses its own part of the state.
OwnPart(s) ==
    /\ s.config.kind # "adaptive" => s.over = 0 /\ s.since = NoTime
    /\ s.config.kind # "threshold" => ~s.large
    /\ ~s.large => s.small = 0

\* What the state counts, the history h has seen.
Backed(s, h) ==
    /\ s.over <= h.run
    /\ s.small <= h.small
    /\ s.since # NoTime => h.from # NoTime /\ h.from <= s.since
    /\ s.large => \E n \in h.sizes : n > s.config.growAbove

\* The counts stay within what a policy waits for.
Bounded(s, h) ==
    /\ s.over <= s.config.wait /\ s.small <= s.config.wait
    /\ h.run <= s.config.wait /\ h.small <= s.config.wait

\* A policy that is fresh is backed by any history.
LEMMA FreshIsBacked ==
    ASSUME NEW Configs, NEW s \in PolicyStates(Configs), IsFresh(s), NEW h \in Histories
    PROVE  OwnPart(s) /\ Backed(s, h)
BY DEF PolicyStates, IsFresh, Histories, OwnPart, Backed

\* What a message adds to the history.
LEMMA SawTypes ==
    ASSUME NEW config, IsConfig(config), NEW h \in Histories, NEW size \in Nat, NEW cap \in Nat,
           NEW now \in Nat, h.run <= config.wait, h.small <= config.wait,
           h.from # NoTime => h.from <= now, NEW g, g = Saw(config, h, size, cap, now)
    PROVE  /\ g \in Histories /\ g.run <= config.wait /\ g.small <= config.wait
           /\ g.from # NoTime => g.from <= now
           /\ g.sizes = h.sizes \cup {size}
BY DEF Saw, Histories, IsConfig, UpTo, NoTime

\* What a consultation must establish, given the history before and after its message.
Sound(v, Configs, config, g, now) ==
    /\ v.state \in PolicyStates(Configs)
    /\ v.state.config = config
    /\ OwnPart(v.state)
    /\ v.reason = "none" => Backed(v.state, g) /\ Bounded(v.state, g)
    /\ v.reason # "none" => IsFresh(v.state) /\ CalledFor(config, v.reason, g, now)

\* The adaptive policy fires after its count or its cooldown, and forgets both when the
\* row of over-provisioned messages ends.
LEMMA AdaptiveSound ==
    ASSUME NEW Configs, NEW s \in PolicyStates(Configs), IsConfig(s.config),
           s.config.kind = "adaptive", NEW h \in Histories, OwnPart(s), Backed(s, h), Bounded(s, h),
           NEW size \in Nat, NEW cap \in Nat, NEW now \in Nat, h.from # NoTime => h.from <= now,
           NEW g, g = Saw(s.config, h, size, cap, now), NEW v, v = Adaptive(s, size, cap, now)
    PROVE  Sound(v, Configs, s.config, g, now)
<1> DEFINE config == s.config
           over == Overprovisioned(config, size, cap)
           time == IF config.cooldown = NoTime THEN NoTime ELSE now
           t == Observe(s, size, cap, time)
<1>0. /\ config.wait \in Nat /\ config.ratio \in Nat /\ config.cooldown \in Nat \cup {NoTime}
      /\ s.over \in Nat /\ s.since \in Nat \cup {NoTime} /\ s.small = 0 /\ ~s.large
      /\ h.run \in Nat /\ h.from \in Nat \cup {NoTime} /\ h.small \in Nat
  BY DEF IsConfig, PolicyStates, Histories, OwnPart
<1>1. g.small = 0 /\ g.sizes = h.sizes \cup {size}
  BY DEF Saw
<1>2. CASE size = 0 \/ ~over
  <2>1. g.run = 0 /\ g.from = NoTime
    BY <1>2 DEF Saw
  <2>2. v = Quiet([s EXCEPT !.over = 0, !.since = NoTime])
    BY <1>0, <1>2 DEF Adaptive, Observe, NoTime
  <2> DEFINE r == [s EXCEPT !.over = 0, !.since = NoTime]
  <2>3. /\ r \in PolicyStates(Configs) /\ r.config = config
        /\ r.over = 0 /\ r.since = NoTime /\ r.small = 0 /\ ~r.large
    BY <1>0 DEF PolicyStates
  <2>4. v.state = r /\ v.reason = "none"
    BY <2>2 DEF Quiet
  <2>. HIDE DEF r
  <2>. QED BY <1>0, <1>1, <2>1, <2>3, <2>4 DEF Sound, OwnPart, Backed, Bounded
<1>3. CASE size # 0 /\ over
  <2>1. /\ g.run = UpTo(h.run + 1, config.wait)
        /\ g.from = IF h.from = NoTime THEN now ELSE h.from
    BY <1>3 DEF Saw
  <2>2. /\ t \in PolicyStates(Configs) /\ t.config = config /\ t.over = s.over + 1
        /\ t.since = IF s.since = NoTime THEN time ELSE s.since
        /\ t.small = 0 /\ ~t.large
    <3>1. t = [s EXCEPT !.over = @ + 1, !.since = IF @ = NoTime THEN time ELSE @]
      BY <1>3 DEF Observe
    <3>2. time \in Nat \cup {NoTime}
      BY DEF NoTime
    <3> DEFINE since == IF s.since = NoTime THEN time ELSE s.since
    <3>3. t = [s EXCEPT !.over = s.over + 1, !.since = since]
      BY <3>1 DEF PolicyStates
    <3>4. since \in Nat \cup {NoTime} /\ s.over + 1 \in Nat
      BY <1>0, <3>2
    <3>. HIDE DEF since, t
    <3>5. /\ t \in PolicyStates(Configs) /\ t.config = config /\ t.over = s.over + 1
          /\ t.since = since /\ t.small = s.small /\ t.large = s.large
      BY <3>3, <3>4 DEF PolicyStates
    <3>. QED BY <1>0, <3>5 DEF since
  <2>3. g.from \in Nat /\ g.from <= now /\ (t.since # NoTime => g.from <= t.since)
    BY <1>0, <2>1, <2>2 DEF Backed, NoTime
  <2> DEFINE timeOk == config.cooldown # NoTime /\ t.since # NoTime /\ time - t.since >= config.cooldown
             countOk == t.over >= config.wait
  <2>4. CASE timeOk \/ countOk
    <3>1. v = [state |-> AfterFire(t), reason |-> IF timeOk THEN "TimeCooldown" ELSE "MessageCount"]
      BY <1>3, <2>4 DEF Adaptive
    <3>2. timeOk => g.from # NoTime /\ now - g.from >= config.cooldown
      BY <1>0, <2>2, <2>3 DEF NoTime, PolicyStates
    <3>3. ~timeOk => g.run = config.wait
      BY <1>0, <2>1, <2>2, <2>4 DEF Backed, Bounded, UpTo
    <3>4. /\ AfterFire(t) \in PolicyStates(Configs) /\ AfterFire(t).config = config
          /\ IsFresh(AfterFire(t)) /\ OwnPart(AfterFire(t))
      BY <1>0, <2>2 DEF AfterFire, PolicyStates, IsFresh, OwnPart
    <3>5. v.state = AfterFire(t) /\ v.reason # "none"
          /\ v.reason = IF timeOk THEN "TimeCooldown" ELSE "MessageCount"
      BY <3>1
    <3>6. CalledFor(config, v.reason, g, now)
      BY <3>2, <3>3, <3>5 DEF CalledFor
    <3>. QED BY <3>4, <3>5, <3>6 DEF Sound
  <2>5. CASE ~(timeOk \/ countOk)
    <3>1. v = Quiet(t)
      BY <1>3, <2>5 DEF Adaptive
    <3>2. t.over <= g.run /\ t.over <= config.wait /\ g.run <= config.wait
      BY <1>0, <2>1, <2>2, <2>5 DEF Backed, Bounded, UpTo
    <3>. QED BY <1>0, <1>1, <2>2, <2>3, <3>1, <3>2
         DEF Sound, Quiet, OwnPart, Backed, Bounded, NoTime
  <2>. QED BY <2>4, <2>5
<1>. QED BY <1>2, <1>3

\* The threshold policy fires only after a large message and its count of small ones.
LEMMA ThresholdSound ==
    ASSUME NEW Configs, NEW s \in PolicyStates(Configs), IsConfig(s.config),
           s.config.kind = "threshold", NEW h \in Histories, OwnPart(s), Backed(s, h), Bounded(s, h),
           NEW size \in Nat, NEW cap \in Nat, NEW now \in Nat,
           NEW g, g = Saw(s.config, h, size, cap, now), NEW v, v = Threshold(s, size)
    PROVE  Sound(v, Configs, s.config, g, now)
<1> DEFINE config == s.config
<1>0. /\ config.wait \in Nat /\ config.growAbove \in Nat /\ config.shrinkBelow \in Nat
      /\ s.over = 0 /\ s.since = NoTime /\ s.small \in Nat /\ s.large \in BOOLEAN
      /\ h.run \in Nat /\ h.small \in Nat /\ h.sizes \subseteq Nat
  BY DEF IsConfig, PolicyStates, Histories, OwnPart
<1>1. g.run = 0 /\ g.from = NoTime /\ g.sizes = h.sizes \cup {size}
  BY DEF Saw
<1> DEFINE small == size < config.shrinkBelow /\ size <= config.growAbove
<1>2. g.small = IF small THEN UpTo(h.small + 1, config.wait) ELSE 0
  BY DEF Saw
<1>3. CASE size > config.growAbove
  <2> DEFINE r == [s EXCEPT !.large = TRUE, !.small = 0]
  <2>1. v.state = r /\ v.reason = "none"
    BY <1>3 DEF Threshold, Quiet
  <2>2. /\ r \in PolicyStates(Configs) /\ r.config = config
        /\ r.over = 0 /\ r.since = NoTime /\ r.small = 0 /\ r.large
    BY <1>0 DEF PolicyStates
  <2>3. g.small = 0
    BY <1>0, <1>2, <1>3
  <2>. HIDE DEF r
  <2>. QED BY <1>0, <1>1, <1>3, <2>1, <2>2, <2>3 DEF Sound, OwnPart, Backed, Bounded
<1>4. CASE ~(size > config.growAbove) /\ ~s.large
  <2>1. v = Quiet(s) /\ s.small = 0
    BY <1>4 DEF Threshold, OwnPart
  <2>2. g.small \in Nat /\ g.small <= config.wait
    BY <1>0, <1>2 DEF UpTo
  <2>. QED BY <1>0, <1>1, <1>4, <2>1, <2>2 DEF Sound, Quiet, Backed, Bounded
<1>5. CASE ~(size > config.growAbove) /\ s.large /\ size >= config.shrinkBelow
  BY <1>0, <1>1, <1>2, <1>5
  DEF Threshold, MidSize, Sound, Quiet, PolicyStates, OwnPart, Backed, Bounded
<1>6. CASE small /\ s.large
  <2>1. g.small = UpTo(h.small + 1, config.wait)
    BY <1>2, <1>6
  <2>2. CASE s.small + 1 >= config.wait
    <3>1. v = [state |-> [s EXCEPT !.large = FALSE, !.small = 0], reason |-> "SizeThreshold"]
      BY <1>0, <1>6, <2>2 DEF Threshold
    <3>2. g.small = config.wait
      BY <1>0, <2>1, <2>2 DEF Backed, Bounded, UpTo
    <3> DEFINE r == [s EXCEPT !.large = FALSE, !.small = 0]
    <3>3. v.state = r /\ v.reason = "SizeThreshold"
      BY <3>1
    <3>4. /\ r \in PolicyStates(Configs) /\ r.config = config
          /\ r.over = 0 /\ r.since = NoTime /\ r.small = 0 /\ ~r.large
      BY <1>0 DEF PolicyStates
    <3>5. CalledFor(config, v.reason, g, now)
      BY <3>2, <3>3 DEF CalledFor
    <3>. HIDE DEF r
    <3>. QED BY <3>3, <3>4, <3>5 DEF Sound, OwnPart, IsFresh
  <2>3. CASE ~(s.small + 1 >= config.wait)
    <3>1. v = Quiet([s EXCEPT !.small = @ + 1])
      BY <1>0, <1>6, <2>3 DEF Threshold
    <3>2. s.small + 1 <= g.small /\ g.small <= config.wait
      BY <1>0, <2>1, <2>3 DEF Backed, Bounded, UpTo
    <3>. QED BY <1>0, <1>1, <1>6, <2>3, <3>1, <3>2
         DEF Sound, Quiet, PolicyStates, OwnPart, Backed, Bounded
  <2>. QED BY <2>2, <2>3
<1>. QED BY <1>0, <1>3, <1>4, <1>5, <1>6

(***************************************************************************)
(* Whatever the policy, a consultation keeps its state backed by what the  *)
(* stream has shown, and fires only if that calls for it, leaving the      *)
(* policy as if newly installed.                                           *)
(***************************************************************************)
LEMMA ShouldResetSound ==
    ASSUME NEW Configs, NEW s \in PolicyStates(Configs), IsConfig(s.config), NEW h \in Histories,
           OwnPart(s), Backed(s, h), Bounded(s, h),
           NEW size \in Nat, NEW cap \in Nat, NEW now \in Nat, h.from # NoTime => h.from <= now
    PROVE  Sound(ShouldReset(s, size, cap, now), Configs, s.config,
                 Saw(s.config, h, size, cap, now), now)
<1>1. CASE s.config.kind = "adaptive"
  BY <1>1, AdaptiveSound DEF ShouldReset
<1>2. CASE s.config.kind = "threshold"
  BY <1>2, ThresholdSound DEF ShouldReset
<1>3. CASE s.config.kind = "noop"
  <2>1. ShouldReset(s, size, cap, now) = Quiet(s)
    BY <1>3 DEF ShouldReset
  <2>2. Saw(s.config, h, size, cap, now)
            = [run |-> 0, from |-> NoTime, small |-> 0, sizes |-> h.sizes \cup {size}]
    BY <1>3 DEF Saw
  <2>3. s.over = 0 /\ s.since = NoTime /\ s.small = 0 /\ ~s.large /\ s.config.wait \in Nat
    BY <1>3 DEF OwnPart, IsConfig
  <2>. QED BY <2>1, <2>2, <2>3 DEF Sound, Quiet, Backed, Bounded
<1>. QED BY <1>1, <1>2, <1>3 DEF IsConfig

\* Which messages make a policy fire: over-provisioned ones an adaptive policy, one that is
\* not large itself, after a large one, a threshold policy.
LEMMA FiresOnlyIf ==
    ASSUME NEW Configs, NEW s \in PolicyStates(Configs), IsConfig(s.config), NEW size, NEW cap,
           NEW now \in Nat, OwnPart(s), ShouldReset(s, size, cap, now).reason # "none"
    PROVE  \/ /\ s.config.kind = "adaptive" /\ size # 0
              /\ Overprovisioned(s.config, size, cap)
           \/ s.config.kind = "threshold" /\ s.large /\ ~(size > s.config.growAbove)
<1>1. CASE s.config.kind = "adaptive"
  <2>1. ASSUME size = 0 PROVE FALSE
    BY <1>1, <2>1 DEF ShouldReset, Adaptive, Quiet
  <2>2. ASSUME size # 0, ~Overprovisioned(s.config, size, cap) PROVE FALSE
    <3> DEFINE time == IF s.config.cooldown = NoTime THEN NoTime ELSE now
               t == Observe(s, size, cap, time)
    <3>1. t.since = NoTime
      BY <2>2 DEF Observe, PolicyStates
    <3>2. Adaptive(s, size, cap, now) = Quiet(t)
      BY <2>2, <3>1 DEF Adaptive
    <3>. QED BY <1>1, <3>2 DEF ShouldReset, Quiet
  <2>. QED BY <1>1, <2>1, <2>2
<1>2. CASE s.config.kind = "threshold"
  BY <1>2 DEF ShouldReset, Threshold, Quiet, MidSize
<1>3. CASE s.config.kind = "noop"
  BY <1>3 DEF ShouldReset, Quiet
<1>. QED BY <1>1, <1>2, <1>3 DEF IsConfig

=============================================================================
