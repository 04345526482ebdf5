---------------------------- MODULE HealthMachine ----------------------------
(***************************************************************************)
(* The health state machine of health/machine.rs behind HealthHandle: one  *)
(* action per HealthEvent that has an effect (an event the code ignores is *)
(* a stuttering step), one for the passage of time, and the snapshot as    *)
(* operators on the state.  HealthHandle applies events and reads          *)
(* snapshots under one RwLock, so each action is atomic.                   *)
(*                                                                         *)
(* Instants are kept as ages: the time since the event, counted up to      *)
(* StaleAfter, beyond which nothing depends on it; Never is the Option's   *)
(* None.  started_at only sets the origin of reported milliseconds and is  *)
(* left out, as are the texts of failures.                                 *)
(*                                                                         *)
(* Watermarks are integer percentages.  The code compares the quotient     *)
(* depth / capacity in f64 with a decimal literal: both are the correctly  *)
(* rounded values of the rationals compared here, so the comparisons agree *)
(* for capacities below 2^40.                                              *)
(***************************************************************************)
EXTENDS Integers

CONSTANTS
  StaleAfter,    \* HealthLimits.stale_after, in units of Elapse
  Watermarks,    \* watermark percentages an embedder may configure
  NonFinite,     \* stands for NaN and the infinities
  Identities,    \* checkpoint identities
  NoCheckpoint,  \* the None of the checkpoint Option
  Samples,       \* queue samples << depth, capacity >> the tick loop may report
  Counter,       \* fields of RuntimeCounters
  MaxCount       \* largest counter value published; bounds the model

ASSUME HealthAssumption ==
  /\ StaleAfter \in Nat
  /\ NonFinite \notin Int
  /\ Watermarks \subseteq Int \cup {NonFinite}
  /\ NoCheckpoint \notin Identities
  /\ Samples \subseteq Nat \X Nat
  /\ MaxCount \in Nat

FatalCode == {"initialization_failed", "checkpoint_invalid", "unspecified"}

Never == -1
Age == {Never} \cup 0 .. StaleAfter

Percent == 0 .. 100
DefaultLimits == [high |-> 90, low |-> 70]

FiniteOr(value, fallback) == IF value = NonFinite THEN fallback ELSE value

(* HealthLimits::sanitized: all or nothing, once non-finite values have    *)
(* been replaced one by one.                                               *)
Sanitized(raw_high, raw_low) ==
  LET high == FiniteOr(raw_high, DefaultLimits.high)
      low == FiniteOr(raw_low, DefaultLimits.low)
  IN IF high \in Percent /\ low \in Percent /\ high > low
     THEN [high |-> high, low |-> low]
     ELSE DefaultLimits

VARIABLES
  limits,         \* the sanitized watermarks; never changes
  started, initialized, checkpoint_ok, draining,
  fatal,          \* FatalState.code, or "none"
  checkpoint,     \* identity of the last validated checkpoint
  checkpoint_at, last_tick, last_ingress,   \* ages
  queue_depth, queue_capacity, overloaded,
  counters

lifecycle == << started, initialized, checkpoint_ok, draining, fatal, checkpoint >>
ages == << checkpoint_at, last_tick, last_ingress >>
pressure == << queue_depth, queue_capacity, overloaded >>
vars == << limits, lifecycle, ages, pressure, counters >>

TypeOK ==
  /\ limits \in [high : Percent, low : Percent]
  /\ started \in BOOLEAN /\ initialized \in BOOLEAN
  /\ checkpoint_ok \in BOOLEAN /\ draining \in BOOLEAN
  /\ fatal \in FatalCode \cup {"none"}
  /\ checkpoint \in Identities \cup {NoCheckpoint}
  /\ checkpoint_at \in Age /\ last_tick \in Age /\ last_ingress \in Age
  /\ queue_depth \in Nat /\ queue_capacity \in Nat /\ overloaded \in BOOLEAN
  /\ counters \in [Counter -> Nat]

(* HealthMachine::new, then with ProcessStarted applied or not. *)
New(is_started) ==
  /\ \E high, low \in Watermarks : limits = Sanitized(high, low)
  /\ started = is_started
  /\ initialized = FALSE /\ checkpoint_ok = FALSE /\ draining = FALSE
  /\ fatal = "none"
  /\ checkpoint = NoCheckpoint
  /\ checkpoint_at = Never /\ last_tick = Never /\ last_ingress = Never
  /\ queue_depth = 0 /\ queue_capacity = 0 /\ overloaded = FALSE
  /\ counters = [k \in Counter |-> 0]

Init == New(FALSE)

(* HealthHandle::started: the daemon's own machine. *)
HandleInit == New(TRUE)
-----------------------------------------------------------------------------
(* Lifecycle events                                                        *)

ProcessStarted ==
  /\ ~started
  /\ started' = TRUE
  /\ UNCHANGED << limits, initialized, checkpoint_ok, draining, fatal,
                  checkpoint, ages, pressure, counters >>

(* mark_initialized *)
InitializationCompleted ==
  /\ started /\ fatal = "none" /\ ~draining
  /\ initialized' = TRUE
  /\ UNCHANGED << limits, started, checkpoint_ok, draining, fatal, checkpoint,
                  ages, pressure, counters >>

(* The last failure wins. *)
MutEnterFatal(code) ==
  /\ fatal' = code
  /\ checkpoint_ok' = FALSE
  /\ UNCHANGED << limits, started, initialized, draining, checkpoint, ages,
                  pressure, counters >>

(* enter_fatal: the first failure wins and takes readiness away. *)
EnterFatal(code) ==
  /\ fatal = "none"
  /\ fatal' = code
  /\ checkpoint_ok' = FALSE
  /\ UNCHANGED << limits, started, initialized, draining, checkpoint, ages,
                  pressure, counters >>

(* InitializationFailed and CheckpointRejected go through fatal_if_started. *)
InitializationFailed == started /\ EnterFatal("initialization_failed")
CheckpointRejected == started /\ EnterFatal("checkpoint_invalid")

(* Fatal does not. *)
Fatal == \E code \in FatalCode : EnterFatal(code)

(* A checkpoint accepted before initialization. *)
MutCheckpointValidated ==
  /\ started /\ fatal = "none" /\ ~draining
  /\ checkpoint' \in Identities
  /\ checkpoint_ok' = TRUE
  /\ checkpoint_at' = 0
  /\ UNCHANGED << limits, started, initialized, draining, fatal, last_tick,
                  last_ingress, pressure, counters >>

(* can_accept_checkpoint and its effect. *)
CheckpointValidated ==
  /\ started /\ fatal = "none" /\ ~draining /\ initialized
  /\ checkpoint' \in Identities
  /\ checkpoint_ok' = TRUE
  /\ checkpoint_at' = 0
  /\ UNCHANGED << limits, started, initialized, draining, fatal, last_tick,
                  last_ingress, pressure, counters >>

BeginDrain ==
  /\ fatal = "none"
  /\ draining' = TRUE
  /\ UNCHANGED << limits, started, initialized, checkpoint_ok, fatal,
                  checkpoint, ages, pressure, counters >>
-----------------------------------------------------------------------------
(* Runtime events: accepted in every phase.                                *)

TickSucceeded ==
  /\ last_tick' = 0
  /\ UNCHANGED << limits, lifecycle, checkpoint_at, last_ingress, pressure,
                  counters >>

IngressObserved ==
  /\ last_ingress' = 0
  /\ UNCHANGED << limits, lifecycle, checkpoint_at, last_tick, pressure,
                  counters >>

(* No hysteresis: one threshold for both directions. *)
MutNextOverload(currently, depth, capacity) ==
  /\ capacity # 0
  /\ depth * 100 >= limits.high * capacity

(* next_overload *)
NextOverload(currently, depth, capacity) ==
  /\ capacity # 0
  /\ IF currently THEN depth * 100 > limits.low * capacity
                  ELSE depth * 100 >= limits.high * capacity

Sampled(depth, capacity) ==
  /\ queue_depth' = depth
  /\ queue_capacity' = capacity
  /\ overloaded' = NextOverload(overloaded, depth, capacity)
  /\ UNCHANGED << limits, lifecycle, ages, counters >>

QueuePressure == \E s \in Samples : Sampled(s[1], s[2])

(* RuntimeCounters::merged_monotonic *)
MergedMonotonic(current, next) ==
  [k \in Counter |-> IF next[k] > current[k] THEN next[k] ELSE current[k]]

Published(next) ==
  /\ counters' = MergedMonotonic(counters, next)
  /\ UNCHANGED << limits, lifecycle, ages, pressure >>

CountersPublished ==
  \E next \in [Counter -> 0 .. MaxCount] : Published(next)

(* The clock advances. *)
Older(age) == IF age = Never \/ age = StaleAfter THEN age ELSE age + 1

Elapse ==
  /\ checkpoint_at' = Older(checkpoint_at)
  /\ last_tick' = Older(last_tick)
  /\ last_ingress' = Older(last_ingress)
  /\ UNCHANGED << limits, lifecycle, pressure, counters >>
-----------------------------------------------------------------------------
Next ==
  \/ ProcessStarted \/ InitializationCompleted \/ InitializationFailed
  \/ CheckpointValidated \/ CheckpointRejected \/ BeginDrain \/ Fatal
  \/ TickSucceeded \/ IngressObserved \/ QueuePressure \/ CountersPublished
  \/ Elapse

Spec == Init /\ [][Next]_vars
HandleSpec == HandleInit /\ [][Next]_vars
-----------------------------------------------------------------------------
(* The snapshot                                                            *)

(* Freshness measured from the last tick as well. *)
MutBaseline == IF last_ingress # Never THEN last_ingress
               ELSE IF last_tick # Never THEN last_tick ELSE checkpoint_at

(* last_ingress.or(checkpoint_at) *)
Baseline == IF last_ingress # Never THEN last_ingress ELSE checkpoint_at

(* compute_stale *)
Stale == /\ initialized /\ checkpoint_ok
         /\ Baseline # Never /\ Baseline >= StaleAfter

(* A draining process still reports ready. *)
MutReady == started /\ initialized /\ checkpoint_ok /\ fatal = "none"

(* is_ready *)
Ready == started /\ initialized /\ checkpoint_ok /\ ~draining /\ fatal = "none"

Phase ==
  CASE fatal # "none" -> "fatal"
    [] fatal = "none" /\ draining -> "draining"
    [] fatal = "none" /\ ~draining /\ ~initialized -> "starting"
    [] fatal = "none" /\ ~draining /\ initialized /\ ~checkpoint_ok
         -> "loading_checkpoint"
    [] OTHER -> IF Stale \/ overloaded THEN "degraded" ELSE "running"

(* reasons: the vector's members. *)
Reasons ==
  IF fatal # "none" THEN {"fatal"}
  ELSE {r \in {"starting", "checkpoint_pending", "draining", "stale_input",
               "overload"} :
          \/ r = "starting" /\ ~initialized
          \/ r = "checkpoint_pending" /\ initialized /\ ~checkpoint_ok
          \/ r = "draining" /\ draining
          \/ r = "stale_input" /\ Stale
          \/ r = "overload" /\ overloaded}
-----------------------------------------------------------------------------
(* Properties                                                              *)

(* The parts of a snapshot, computed by separate functions from separate   *)
(* fields, tell one story: the ready bit is the phase's (is_ready and      *)
(* phase), a running process is a ready one with no reason against it      *)
(* (reasons), and a ready one names the checkpoint it serves.              *)
SnapshotCoherent ==
  /\ Ready <=> Phase \in {"running", "degraded"}
  /\ Phase = "running" <=> Ready /\ Reasons = {}
  /\ Ready => checkpoint # NoCheckpoint

(* Terminal states are final: a drain or a failure ends readiness for good *)
(* and the first failure is the one reported, whatever events arrive late  *)
(* (enter_fatal, can_accept_checkpoint, mark_initialized).                 *)
TerminalIsFinal ==
  [][/\ draining => draining'
     /\ fatal # "none" => fatal' = fatal
     /\ draining \/ fatal # "none" => ~Ready']_vars

(* Staleness is cleared by input, by validating a checkpoint when no input *)
(* was ever seen, or by the failure that hides it; never by successful     *)
(* ticks ("Ticks without ingress do not clear stale", compute_stale).      *)
StaleClearedByInput ==
  [][Stale /\ ~Stale' =>
       \/ last_ingress' = 0
       \/ last_ingress' = Never /\ checkpoint_at' = 0
       \/ fatal' # "none"]_vars

(* Hysteresis: overload means the last sample was above the low watermark, *)
(* its absence that it was below the high one or that no queue is          *)
(* instrumented, and inside the band the flag keeps its value              *)
(* (next_overload, HealthLimits::sanitized).                               *)
InBand(depth, capacity) ==
  /\ capacity # 0
  /\ limits.low * capacity < depth * 100
  /\ depth * 100 < limits.high * capacity

OverloadHysteresis ==
  [][/\ overloaded' => limits.low * queue_capacity' < queue_depth' * 100
     /\ ~overloaded' => \/ queue_capacity' = 0
                        \/ queue_depth' * 100 < limits.high * queue_capacity'
     /\ InBand(queue_depth', queue_capacity') => overloaded' = overloaded]_vars

(* Published counters never move backwards, even when a stale record is    *)
(* published late (merged_monotonic).                                      *)
CountersMonotone == [][\A k \in Counter : counters'[k] >= counters[k]]_vars

(* The documented transition table holds of what a snapshot shows. *)
Table == INSTANCE HealthTable WITH phase <- Phase, ready <- Ready
FollowsTable == Table!TSpec

(* docs/health.md: before ProcessStarted, "the fatal transition below      *)
(* applies only after `ProcessStarted`".                                   *)
FatalOnlyAfterStart == fatal # "none" => started
=============================================================================
