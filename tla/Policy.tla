------------------------------- MODULE Policy -------------------------------
(***************************************************************************)
(* The memory policies of the library as operators: each takes the         *)
(* state the policy keeps between messages, the size of the last message   *)
(* and the capacity of the buffer, and returns the new state and whether   *)
(* the policy asks for a reclaim (MemoryPolicy::should_reset).             *)
(***************************************************************************)
EXTENDS Integers

\* Option::None of a Duration.
NoTime == -1

-----------------------------------------------------------------------------
(* Configurations. *)

DEFAULT_BASELINE_CAPACITY == 16 * 1024

NoOpPolicy == [kind |-> "noop", wait |-> 0, baseline |-> DEFAULT_BASELINE_CAPACITY]

NewAdaptive(ratio, wait) ==
    [kind |-> "adaptive", ratio |-> ratio, wait |-> wait, cooldown |-> NoTime,
     baseline |-> DEFAULT_BASELINE_CAPACITY]
DefaultAdaptive == NewAdaptive(4, 5)
WithCooldown(config, duration) == [config EXCEPT !.cooldown = duration]

NewThreshold(growAbove, shrinkBelow, wait) ==
    [kind |-> "threshold", growAbove |-> growAbove, shrinkBelow |-> shrinkBelow, wait |-> wait,
     baseline |-> DEFAULT_BASELINE_CAPACITY]
DefaultThreshold == NewThreshold(2^20, 2^10, 8)

WithBaseline(config, bytes) == [config EXCEPT !.baseline = bytes]

\* A policy of the application's around one of these, which must forward
\* baseline_capacity as well, "or the inner policy's configured baseline is lost".
Wrapped(config, forwards) ==
    IF forwards THEN config ELSE WithBaseline(config, DEFAULT_BASELINE_CAPACITY)

\* The counts and sizes of a configuration are unsigned, a cooldown is optional.
IsConfig(config) ==
    /\ config.kind \in {"noop", "adaptive", "threshold"}
    /\ config.wait \in Nat /\ config.baseline \in Nat
    /\ config.kind = "adaptive" => config.ratio \in Nat /\ config.cooldown \in Nat \cup {NoTime}
    /\ config.kind = "threshold" => config.growAbove \in Nat /\ config.shrinkBelow \in Nat

\* The state of a policy: its configuration, and over: messages_since_over;
\* since: last_over_seen_at; large: large_event_seen; small: small_since_large.
NewPolicy(config) ==
    [config |-> config, over |-> 0, since |-> NoTime, large |-> FALSE, small |-> 0]

\* No counter passes messages_to_wait, so that none of them ever saturates.
IsPolicyState(s, configs) ==
    /\ s.config \in configs
    /\ s.over \in 0..s.config.wait
    /\ s.since \in Nat \cup {NoTime}
    /\ s.large \in BOOLEAN
    /\ s.small \in 0..s.config.wait

Quiet(s) == [state |-> s, reason |-> "none"]

-----------------------------------------------------------------------------
(* AdaptiveWatermarkPolicy *)

AnySlack(config, size, cap) == cap >= size  \* mutant
Overprovisioned(config, size, cap) == cap >= size * config.ratio

\* The signal and its duration after one more message, before the decision.
NoResetOnGap(s, size, cap, now) ==  \* mutant
    IF Overprovisioned(s.config, size, cap)
    THEN [s EXCEPT !.over = @ + 1, !.since = IF @ = NoTime THEN now ELSE @]
    ELSE s
Observe(s, size, cap, now) ==
    IF Overprovisioned(s.config, size, cap)
    THEN [s EXCEPT !.over = @ + 1, !.since = IF @ = NoTime THEN now ELSE @]
    ELSE [s EXCEPT !.over = 0, !.since = NoTime]

\* The state left by a fire.
KeepsTimer(s) == [s EXCEPT !.over = 0]  \* mutant
AfterFire(s) == [s EXCEPT !.over = 0, !.since = NoTime]

\* The clock is read only when there is a cooldown.
Adaptive(s, size, cap, clock) ==
    IF size = 0
    THEN Quiet([s EXCEPT !.over = 0, !.since = NoTime])
    ELSE LET cooldown == s.config.cooldown
             now      == IF cooldown = NoTime THEN NoTime ELSE clock
             t        == Observe(s, size, cap, now)
             timeOk   == cooldown # NoTime /\ t.since # NoTime /\ now - t.since >= cooldown
             countOk  == Overprovisioned(s.config, size, cap) /\ t.over >= s.config.wait
         IN  IF timeOk \/ countOk
             THEN [state |-> AfterFire(t),
                   reason |-> IF timeOk THEN "TimeCooldown" ELSE "MessageCount"]
             ELSE Quiet(t)

-----------------------------------------------------------------------------
(* SizeThresholdPolicy *)

\* A message that is neither large nor small ends the run of small ones.
MidSizeIgnored(s) == s  \* mutant
MidSizeTakesOne(s) == [s EXCEPT !.small = @ - 1]  \* mutant
MidSize(s) == [s EXCEPT !.small = 0]

Threshold(s, size) ==
    IF size > s.config.growAbove
    THEN Quiet([s EXCEPT !.large = TRUE, !.small = 0])
    ELSE IF ~s.large
    THEN Quiet(s)
    ELSE IF size >= s.config.shrinkBelow
    THEN Quiet(MidSize(s))
    ELSE IF s.small + 1 >= s.config.wait
    THEN [state |-> [s EXCEPT !.large = FALSE, !.small = 0], reason |-> "SizeThreshold"]
    ELSE Quiet([s EXCEPT !.small = @ + 1])

-----------------------------------------------------------------------------

\* MemoryPolicy::should_reset
ShouldReset(s, size, cap, clock) ==
    CASE s.config.kind = "noop"      -> Quiet(s)
      [] s.config.kind = "adaptive"  -> Adaptive(s, size, cap, clock)
      [] s.config.kind = "threshold" -> Threshold(s, size)

-----------------------------------------------------------------------------
(* History, for the properties: what the messages were since the buffer    *)
(* was last reclaimed or the policy installed, whatever the policy saw.    *)
(*   run: over-provisioned messages in a row, up to messages_to_wait; from: when the   *)
(*   first of them came; small: small messages in a row, up to messages_to_wait;       *)
(*   sizes: what was asked of the buffer.                                  *)

NothingSeen == [run |-> 0, from |-> NoTime, small |-> 0, sizes |-> {}]

UpTo(n, bound) == IF n <= bound THEN n ELSE bound

Saw(config, h, size, cap, now) ==
    LET over  == config.kind = "adaptive" /\ size > 0 /\ Overprovisioned(config, size, cap)
        small == config.kind = "threshold" /\ size < config.shrinkBelow /\ size <= config.growAbove
    IN  [run   |-> IF over THEN UpTo(h.run + 1, config.wait) ELSE 0,
         from  |-> IF over THEN (IF h.from = NoTime THEN now ELSE h.from) ELSE NoTime,
         small |-> IF small THEN UpTo(h.small + 1, config.wait) ELSE 0,
         sizes |-> h.sizes \cup {size}]

\* The messages seen call for a reclaim with this reason.
CalledFor(config, reason, h, now) ==
    CASE reason = "none"          -> TRUE
      [] reason = "MessageCount"  -> h.run = config.wait
      [] reason = "TimeCooldown"  -> h.from # NoTime /\ now - h.from >= config.cooldown
      [] reason = "SizeThreshold" -> h.small = config.wait

=============================================================================
