------------------------- MODULE HealthMachineProofs -------------------------
(***************************************************************************)
(* Theorems about HealthMachine, for every stale_after, every set of       *)
(* configured watermarks and every queue sample.                           *)
(***************************************************************************)
EXTENDS HealthMachine, TLAPS

(* What the lifecycle fields never contradict: the gates are passed in     *)
(* order, a valid checkpoint has an identity and a time, and a failure     *)
(* revokes it.                                                             *)
Gates ==
  /\ initialized => started
  /\ checkpoint_ok => initialized /\ checkpoint \in Identities
  /\ fatal # "none" => ~checkpoint_ok

HInv == TypeOK /\ Gates
-----------------------------------------------------------------------------
(* Sanitized watermarks are percentages and leave a hysteresis band,       *)
(* whatever was configured.                                                *)
LEMMA SanitizedBand ==
  ASSUME NEW high \in Watermarks, NEW low \in Watermarks
  PROVE  /\ Sanitized(high, low) \in [high : Percent, low : Percent]
         /\ Sanitized(high, low).low < Sanitized(high, low).high
  BY HealthAssumption DEF Sanitized, FiniteOr, DefaultLimits, Percent

(* Growing older keeps an age an age. *)
LEMMA OlderAge == ASSUME NEW a \in Age PROVE Older(a) \in Age
  BY HealthAssumption DEF Older, Age, Never

(* A freshly built machine satisfies the invariant, started or not. *)
LEMMA NewInv == ASSUME NEW b \in BOOLEAN, New(b) PROVE HInv
  <1>1. limits \in [high : Percent, low : Percent]
    BY SanitizedBand DEF New
  <1>2. Never \in Age
    BY DEF Age
  <1>3. checkpoint_at \in Age /\ last_tick \in Age /\ last_ingress \in Age
    BY <1>2 DEF New
  <1>4. queue_depth \in Nat /\ queue_capacity \in Nat
    BY DEF New
  <1>5. counters \in [Counter -> Nat]
    BY DEF New
  <1>6. /\ started \in BOOLEAN /\ initialized \in BOOLEAN
        /\ checkpoint_ok \in BOOLEAN /\ draining \in BOOLEAN
        /\ fatal \in FatalCode \cup {"none"}
        /\ checkpoint \in Identities \cup {NoCheckpoint}
        /\ overloaded \in BOOLEAN
    BY Zenon DEF New
  <1>7. Gates
    BY DEF New, Gates
  <1> QED BY <1>1, <1>3, <1>4, <1>5, <1>6, <1>7, Zenon DEF HInv, TypeOK

(* The value of the flag is a truth value: next_overload. *)
LEMMA OverloadBool ==
  ASSUME NEW b, NEW d, NEW c PROVE NextOverload(b, d, c) \in BOOLEAN
  BY Zenon DEF NextOverload

(* Merging counters gives counters, none of them lower. *)
LEMMA MergeUp ==
  ASSUME NEW cur \in [Counter -> Nat], NEW nxt \in [Counter -> 0 .. MaxCount]
  PROVE  /\ MergedMonotonic(cur, nxt) \in [Counter -> Nat]
         /\ \A k \in Counter : MergedMonotonic(cur, nxt)[k] >= cur[k]
  BY HealthAssumption DEF MergedMonotonic

(* Every step keeps types and gates. *)
LEMMA HInvStep == HInv /\ [Next]_vars => HInv'
  <1> SUFFICES ASSUME HInv, [Next]_vars PROVE HInv'
    OBVIOUS
  <1> USE DEF HInv
  <1>1. CASE ProcessStarted
    BY <1>1, Zenon DEF ProcessStarted, TypeOK, Gates, ages, pressure
  <1>2. CASE InitializationCompleted
    BY <1>2, Zenon DEF InitializationCompleted, TypeOK, Gates, ages, pressure
  <1>3. CASE \E code \in FatalCode : EnterFatal(code)
    <2>1. PICK code \in FatalCode : EnterFatal(code)
      BY <1>3
    <2>2. /\ fatal' \in FatalCode \cup {"none"}
          /\ checkpoint_ok' = FALSE
          /\ UNCHANGED << limits, started, initialized, draining, checkpoint >>
          /\ UNCHANGED << ages, pressure, counters >>
      BY <2>1, Zenon DEF EnterFatal
    <2>3. TypeOK'
      BY <2>2, Zenon DEF TypeOK, ages, pressure
    <2>4. Gates'
      BY <2>2, Zenon DEF Gates
    <2> QED BY <2>3, <2>4
  <1>4. CASE CheckpointValidated
    <2>1. checkpoint_at' \in Age
      BY <1>4, HealthAssumption DEF CheckpointValidated, Age
    <2>2. TypeOK'
      BY <1>4, <2>1, Zenon DEF CheckpointValidated, TypeOK, pressure
    <2>3. Gates'
      BY <1>4, Zenon DEF CheckpointValidated, Gates
    <2> QED BY <2>2, <2>3
  <1>5. CASE BeginDrain
    BY <1>5, Zenon DEF BeginDrain, TypeOK, Gates, ages, pressure
  <1>6. CASE TickSucceeded \/ IngressObserved
    <2>1. last_tick' \in Age /\ last_ingress' \in Age
      BY <1>6, HealthAssumption
      DEF TickSucceeded, IngressObserved, TypeOK, Age
    <2>2. UNCHANGED << limits, lifecycle, checkpoint_at, pressure, counters >>
      BY <1>6, Zenon DEF TickSucceeded, IngressObserved
    <2> QED
      BY <2>1, <2>2, Zenon DEF TypeOK, Gates, lifecycle, pressure
  <1>7. CASE QueuePressure
    <2>1. PICK s \in Samples :
            /\ queue_depth' = s[1]
            /\ queue_capacity' = s[2]
            /\ overloaded' = NextOverload(overloaded, s[1], s[2])
      BY <1>7, Zenon DEF QueuePressure, Sampled
    <2>2. s[1] \in Nat /\ s[2] \in Nat
      BY HealthAssumption
    <2>3. overloaded' \in BOOLEAN
      BY <2>1, OverloadBool, Zenon
    <2>4. UNCHANGED << limits, lifecycle, ages, counters >>
      BY <1>7, Zenon DEF QueuePressure, Sampled
    <2> QED
      BY <2>1, <2>2, <2>3, <2>4, Zenon DEF TypeOK, Gates, lifecycle, ages
  <1>8. CASE CountersPublished
    <2>1. counters' \in [Counter -> Nat]
      <3>1. PICK nxt \in [Counter -> 0 .. MaxCount] :
              counters' = MergedMonotonic(counters, nxt)
        BY <1>8, Zenon DEF CountersPublished, Published
      <3>2. counters \in [Counter -> Nat]
        BY Zenon DEF TypeOK
      <3> QED BY <3>1, <3>2, MergeUp, Zenon
    <2>2. UNCHANGED << limits, lifecycle, ages, pressure >>
      BY <1>8, Zenon DEF CountersPublished, Published
    <2> QED
      BY <2>1, <2>2, Zenon DEF TypeOK, Gates, lifecycle, ages, pressure
  <1>9. CASE Elapse
    <2>1. checkpoint_at' \in Age /\ last_tick' \in Age /\ last_ingress' \in Age
      BY <1>9, OlderAge, Zenon DEF Elapse, TypeOK
    <2>2. UNCHANGED << limits, lifecycle, pressure, counters >>
      BY <1>9, Zenon DEF Elapse
    <2> QED BY <2>1, <2>2, Zenon DEF TypeOK, Gates, lifecycle, pressure
  <1>10. CASE UNCHANGED vars
    BY <1>10, Zenon DEF vars, TypeOK, Gates, lifecycle, ages, pressure
  <1> QED
    BY <1>1, <1>2, <1>3, <1>4, <1>5, <1>6, <1>7, <1>8, <1>9, <1>10, Zenon
    DEF Next, Fatal, InitializationFailed, CheckpointRejected, FatalCode

(* The types and the lifecycle gates of HealthMachine hold in every state  *)
(* an unstarted machine can reach.                                         *)
THEOREM HealthInvariant == Spec => []HInv
  <1>1. Init => HInv
    BY NewInv DEF Init
  <1> QED BY <1>1, HInvStep, PTL DEF Spec

(* The same from HealthHandle::started. *)
THEOREM HandleInvariant == HandleSpec => []HInv
  <1>1. HandleInit => HInv
    BY NewInv DEF HandleInit
  <1> QED BY <1>1, HInvStep, PTL DEF HandleSpec
-----------------------------------------------------------------------------
(* is_ready, phase and reasons agree wherever the gates hold. *)
LEMMA GatesCohere == HInv => SnapshotCoherent
  <1> SUFFICES ASSUME HInv PROVE SnapshotCoherent
    OBVIOUS
  <1>1. Ready => checkpoint # NoCheckpoint
    BY HealthAssumption, Zenon DEF HInv, Gates, Ready
  <1>2. Ready => Phase = (IF Stale \/ overloaded THEN "degraded" ELSE "running")
    BY Zenon DEF Ready, Phase
  <1>3. ~Ready => Phase \in {"fatal", "draining", "starting", "loading_checkpoint"}
    BY DEF HInv, TypeOK, Gates, Ready, Phase
  <1>4. Ready => (Reasons = {} <=> ~(Stale \/ overloaded))
    BY DEF Ready, Reasons
  <1> QED BY <1>1, <1>2, <1>3, <1>4 DEF SnapshotCoherent

(* The ready bit, the phase and the reasons of every snapshot agree. *)
THEOREM SnapshotsCohere == Spec => []SnapshotCoherent
  BY HealthInvariant, GatesCohere, PTL
-----------------------------------------------------------------------------
(* How a step can change the lifecycle fields. *)
LEMMA LifecycleStep ==
  ASSUME HInv, [Next]_vars
  PROVE  /\ draining => draining'
         /\ fatal # "none" => fatal' = fatal
         /\ ~checkpoint_ok /\ checkpoint_ok' =>
              fatal = "none" /\ ~draining /\ initialized
  <1>1. CASE ProcessStarted \/ InitializationCompleted
    BY <1>1 DEF ProcessStarted, InitializationCompleted
  <1>2. CASE \E code \in FatalCode : EnterFatal(code)
    BY <1>2 DEF EnterFatal
  <1>3. CASE CheckpointValidated \/ BeginDrain
    BY <1>3 DEF CheckpointValidated, BeginDrain
  <1>4. CASE UNCHANGED lifecycle
    BY <1>4 DEF lifecycle
  <1> QED
    BY <1>1, <1>2, <1>3, <1>4, Zenon
    DEF Next, vars, Fatal, InitializationFailed, CheckpointRejected, FatalCode,
        TickSucceeded, IngressObserved, QueuePressure, Sampled,
        CountersPublished, Published, Elapse

(* Draining and failure are final: no later event restores readiness or    *)
(* replaces the first failure.                                             *)
THEOREM TerminalFinal == Spec => TerminalIsFinal
  <1>1. HInv /\ [Next]_vars =>
          [/\ draining => draining'
           /\ fatal # "none" => fatal' = fatal
           /\ draining \/ fatal # "none" => ~Ready']_vars
    BY LifecycleStep, Zenon DEF Ready
  <1> QED BY <1>1, HealthInvariant, PTL DEF Spec, TerminalIsFinal
-----------------------------------------------------------------------------
(* Only an ingress observation, the validation of a checkpoint before any  *)
(* input, or a failure clears staleness; a successful tick does not.       *)
THEOREM StaleCleared == Spec => StaleClearedByInput
  <1> DEFINE Cleared == \/ last_ingress' = 0
                        \/ last_ingress' = Never /\ checkpoint_at' = 0
                        \/ fatal' # "none"
  <1>1. HInv /\ [Next]_vars /\ Stale /\ ~Stale' => Cleared
    <2> SUFFICES ASSUME HInv, [Next]_vars, Stale, ~Stale' PROVE Cleared
      BY Zenon
    <2>1. CASE UNCHANGED << initialized, checkpoint_ok, checkpoint_at, last_ingress >>
      BY <2>1, Zenon DEF Stale, Baseline
    <2>2. CASE InitializationCompleted
      BY <2>2 DEF InitializationCompleted, ages, Stale, Baseline
    <2>3. CASE \E code \in FatalCode : EnterFatal(code)
      BY <2>3 DEF EnterFatal, FatalCode
    <2>4. CASE CheckpointValidated
      BY <2>4, HealthAssumption
      DEF CheckpointValidated, Stale, Baseline, HInv, TypeOK, Age, Never
    <2>5. CASE IngressObserved
      BY <2>5 DEF IngressObserved
    <2>6. CASE Elapse
      <3>1. Older(last_ingress) >= last_ingress
        BY HealthAssumption DEF Older, HInv, TypeOK, Age, Never
      <3>2. Older(checkpoint_at) >= checkpoint_at
        BY HealthAssumption DEF Older, HInv, TypeOK, Age, Never
      <3>3. Older(last_ingress) = Never <=> last_ingress = Never
        BY HealthAssumption DEF Older, HInv, TypeOK, Age, Never
      <3>4. Older(checkpoint_at) = Never <=> checkpoint_at = Never
        BY HealthAssumption DEF Older, HInv, TypeOK, Age, Never
      <3>5. Older(last_ingress) \in Age /\ Older(checkpoint_at) \in Age
        BY OlderAge, Zenon DEF HInv, TypeOK
      <3>6. Baseline' # Never /\ Baseline' >= StaleAfter
        BY <2>6, <3>1, <3>2, <3>3, <3>4, <3>5, HealthAssumption
        DEF Elapse, Baseline, Stale, HInv, TypeOK, Age, Never
      <3> QED BY <2>6, <3>6, Zenon DEF Elapse, Stale, lifecycle
    <2> QED
      BY <2>1, <2>2, <2>3, <2>4, <2>5, <2>6, Zenon
      DEF Next, vars, lifecycle, ages, Fatal, InitializationFailed, CheckpointRejected,
          FatalCode, ProcessStarted, BeginDrain, TickSucceeded, QueuePressure, Sampled,
          CountersPublished, Published
  <1>2. HInv /\ [Next]_vars => [Stale /\ ~Stale' => Cleared]_vars
    BY <1>1, Zenon
  <1> QED BY <1>2, HealthInvariant, PTL DEF Spec, StaleClearedByInput

(* A publication never lowers a counter and nothing else touches them. *)
THEOREM CountersOnlyGrow == Spec => CountersMonotone
  <1>1. HInv /\ [Next]_vars => [\A k \in Counter : counters'[k] >= counters[k]]_vars
    <2> SUFFICES ASSUME HInv, [Next]_vars
                 PROVE  \A k \in Counter : counters'[k] >= counters[k]
      BY Zenon
    <2>0. counters \in [Counter -> Nat]
      BY Zenon DEF HInv, TypeOK
    <2>1. CASE CountersPublished
      <3>1. PICK nxt \in [Counter -> 0 .. MaxCount] :
              counters' = MergedMonotonic(counters, nxt)
        BY <2>1, Zenon DEF CountersPublished, Published
      <3> QED BY <2>0, <3>1, MergeUp, Zenon
    <2>2. CASE counters' = counters
      BY <2>0, <2>2
    <2> QED
      BY <2>1, <2>2, Zenon
      DEF Next, vars, ProcessStarted, InitializationCompleted, InitializationFailed,
          CheckpointRejected, Fatal, EnterFatal, CheckpointValidated, BeginDrain,
          TickSucceeded, IngressObserved, QueuePressure, Sampled, Elapse
  <1> QED BY <1>1, HealthInvariant, PTL DEF Spec, CountersMonotone
-----------------------------------------------------------------------------
(* What the overload flag says of the last sample, and the band that       *)
(* HealthLimits::sanitized guarantees.                                     *)
OverloadInv ==
  /\ limits.low < limits.high
  /\ overloaded => limits.low * queue_capacity < queue_depth * 100
  /\ ~overloaded => \/ queue_capacity = 0
                    \/ queue_depth * 100 < limits.high * queue_capacity

(* Over a positive capacity the low watermark stays below the high one. *)
LEMMA BandScales ==
  ASSUME NEW low \in Percent, NEW high \in Percent, low < high,
         NEW cap \in Nat, cap # 0
  PROVE  low * cap < high * cap
  BY DEF Percent

(* A queue sample leaves the flag consistent with it, and keeps the flag   *)
(* when it falls inside the band.                                          *)
LEMMA SampleHysteresis ==
  ASSUME NEW low \in Percent, NEW high \in Percent, low < high,
         NEW d \in Nat, NEW cap \in Nat, limits.low = low, limits.high = high,
         NEW b \in BOOLEAN
  PROVE  /\ NextOverload(b, d, cap) => low * cap < d * 100
         /\ ~NextOverload(b, d, cap) => cap = 0 \/ d * 100 < high * cap
         /\ InBand(d, cap) => NextOverload(b, d, cap) = b
  <1> DEFINE L == low * cap
             H == high * cap
             D == d * 100
  <1>1. L \in Int /\ H \in Int /\ D \in Int
    BY DEF Percent
  <1>2. cap # 0 => L < H
    BY BandScales
  <1>3. NextOverload(b, d, cap) <=> (cap # 0 /\ (IF b THEN D > L ELSE D >= H))
    BY Zenon DEF NextOverload
  <1>4. InBand(d, cap) <=> (cap # 0 /\ L < D /\ D < H)
    BY Zenon DEF InBand
  <1>5. NextOverload(b, d, cap) \in BOOLEAN
    BY OverloadBool, Zenon
  <1> HIDE DEF L, H, D
  <1>6. NextOverload(b, d, cap) => L < D
    BY <1>1, <1>2, <1>3
  <1>7. ~NextOverload(b, d, cap) => cap = 0 \/ D < H
    BY <1>1, <1>2, <1>3
  <1>8. InBand(d, cap) => (NextOverload(b, d, cap) <=> b)
    BY <1>1, <1>2, <1>3, <1>4
  <1>9. InBand(d, cap) => NextOverload(b, d, cap) = b
    BY <1>5, <1>8, Zenon
  <1> QED BY <1>6, <1>7, <1>9, Zenon DEF L, H, D

(* The overload flag follows the watermarks with hysteresis, for every     *)
(* configuration of them and every sequence of samples.                    *)
THEOREM OverloadFollowsWatermarks == Spec => OverloadHysteresis
  <1> DEFINE Step ==
        /\ overloaded' => limits.low * queue_capacity' < queue_depth' * 100
        /\ ~overloaded' => \/ queue_capacity' = 0
                           \/ queue_depth' * 100 < limits.high * queue_capacity'
        /\ InBand(queue_depth', queue_capacity') => overloaded' = overloaded
  <1>1. Init => OverloadInv
    <2> SUFFICES ASSUME Init PROVE OverloadInv
      OBVIOUS
    <2>1. limits.low < limits.high
      BY SanitizedBand DEF Init, New
    <2>2. ~overloaded /\ queue_capacity = 0
      BY Zenon DEF Init, New
    <2> QED BY <2>1, <2>2, Zenon DEF OverloadInv
  <1>2. HInv /\ OverloadInv /\ [Next]_vars => Step /\ limits' = limits
    <2> SUFFICES ASSUME HInv, OverloadInv, [Next]_vars PROVE Step /\ limits' = limits
      OBVIOUS
    <2>0. limits' = limits
      BY Zenon
      DEF Next, vars, ProcessStarted, InitializationCompleted, InitializationFailed,
          CheckpointRejected, Fatal, EnterFatal, CheckpointValidated, BeginDrain,
          TickSucceeded, IngressObserved, QueuePressure, Sampled,
          CountersPublished, Published, Elapse
    <2>1. CASE QueuePressure
      <3>1. PICK s \in Samples :
              /\ queue_depth' = s[1]
              /\ queue_capacity' = s[2]
              /\ overloaded' = NextOverload(overloaded, s[1], s[2])
        BY <2>1, Zenon DEF QueuePressure, Sampled
      <3>2. s[1] \in Nat /\ s[2] \in Nat
        BY HealthAssumption
      <3>3. limits.low \in Percent /\ limits.high \in Percent
        BY DEF HInv, TypeOK
      <3>4. limits.low < limits.high
        BY Zenon DEF OverloadInv
      <3>5. overloaded \in BOOLEAN
        BY Zenon DEF HInv, TypeOK
      <3>6. /\ NextOverload(overloaded, s[1], s[2]) =>
                 limits.low * s[2] < s[1] * 100
            /\ ~NextOverload(overloaded, s[1], s[2]) =>
                 s[2] = 0 \/ s[1] * 100 < limits.high * s[2]
            /\ InBand(s[1], s[2]) =>
                 NextOverload(overloaded, s[1], s[2]) = overloaded
        BY <3>2, <3>3, <3>4, <3>5, SampleHysteresis, Zenon
      <3> QED BY <2>0, <3>1, <3>6, Zenon
    <2>2. CASE UNCHANGED pressure
      BY <2>0, <2>2, Zenon DEF pressure, OverloadInv
    <2> QED
      BY <2>0, <2>1, <2>2, Zenon
      DEF Next, vars, ProcessStarted, InitializationCompleted, InitializationFailed,
          CheckpointRejected, Fatal, EnterFatal, CheckpointValidated, BeginDrain,
          TickSucceeded, IngressObserved, CountersPublished, Published, Elapse
  <1>3. HInv /\ OverloadInv /\ [Next]_vars => OverloadInv'
    BY <1>2, Zenon DEF OverloadInv
  <1>4. HInv /\ OverloadInv /\ [Next]_vars => [Step]_vars
    BY <1>2
  <1> QED
    BY <1>1, <1>3, <1>4, HealthInvariant, PTL DEF Spec, OverloadHysteresis
-----------------------------------------------------------------------------
(* What the refinement mapping shows, lifecycle stage by lifecycle stage. *)
Views ==
  /\ Ready \in BOOLEAN
  /\ fatal # "none" => Phase = "fatal" /\ ~Ready
  /\ fatal = "none" /\ draining => Phase = "draining" /\ ~Ready
  /\ fatal = "none" /\ ~draining /\ ~initialized => Phase = "starting" /\ ~Ready
  /\ fatal = "none" /\ ~draining /\ initialized /\ ~checkpoint_ok =>
       Phase = "loading_checkpoint" /\ ~Ready
  /\ fatal = "none" /\ ~draining /\ initialized /\ checkpoint_ok =>
       Phase \in {"running", "degraded"} /\ Ready

(* The stages determine the phase and the ready bit wherever the gates     *)
(* hold.                                                                   *)
LEMMA ViewsHold == HInv => Views
  <1> SUFFICES ASSUME HInv PROVE Views
    OBVIOUS
  <1>1. Ready \in BOOLEAN
    BY Zenon DEF Ready
  <1>2. fatal # "none" => Phase = "fatal" /\ ~Ready
    BY Zenon DEF Phase, Ready
  <1>3. fatal = "none" /\ draining => Phase = "draining" /\ ~Ready
    BY Zenon DEF Phase, Ready
  <1>4. fatal = "none" /\ ~draining /\ ~initialized =>
          Phase = "starting" /\ ~Ready
    BY Zenon DEF Phase, Ready
  <1>5. fatal = "none" /\ ~draining /\ initialized /\ ~checkpoint_ok =>
          Phase = "loading_checkpoint" /\ ~Ready
    BY Zenon DEF Phase, Ready
  <1>6. fatal = "none" /\ ~draining /\ initialized /\ checkpoint_ok =>
          Phase \in {"running", "degraded"} /\ Ready
    BY Zenon DEF Phase, Ready, HInv, Gates
  <1> QED BY <1>1, <1>2, <1>3, <1>4, <1>5, <1>6, Zenon DEF Views

(* The health machine, started by HealthHandle::started or later by an     *)
(* embedder, implements the documented transition table:                   *)
(* readiness is entered only by validating a checkpoint after              *)
(* initialization, left only by a drain or a failure, and phases move only *)
(* along the table's rows.                                                 *)
THEOREM ImplementsTable == Spec \/ HandleSpec => FollowsTable
  <1>1. Init \/ HandleInit => Table!TInit
    <2> SUFFICES ASSUME Init \/ HandleInit PROVE Table!TInit
      OBVIOUS
    <2>1. HInv
      BY NewInv DEF Init, HandleInit
    <2>2. Phase = "starting" /\ ~Ready
      BY <2>1, ViewsHold, Zenon DEF Init, HandleInit, New, Views
    <2> QED BY <2>2, Zenon DEF Table!TInit, Ready
  <1>2. HInv /\ HInv' /\ [Next]_vars => [Table!TNext]_(Table!tvars)
    <2> SUFFICES ASSUME HInv, HInv', [Next]_vars
                 PROVE  Table!TNext \/ (Phase' = Phase /\ Ready' = Ready)
      BY Zenon DEF Table!tvars
    <2> USE DEF Table!TNext
    <2>9. Views /\ Views'
      BY ViewsHold, PTL
    <2>0. Ready \in BOOLEAN /\ Ready' \in BOOLEAN
      BY Zenon DEF Ready
    <2>1. CASE UNCHANGED << initialized, checkpoint_ok, draining, fatal >>
      <3>1. CASE fatal = "none" /\ ~draining /\ initialized /\ checkpoint_ok
        <4>1. Phase \in {"running", "degraded"} /\ Ready
          BY <3>1, <2>9, Zenon DEF Views
        <4>2. Phase' \in {"running", "degraded"} /\ Ready'
          BY <2>1, <3>1, <2>9, Zenon DEF Views
        <4> QED BY <2>0, <4>1, <4>2 DEF Table!Degrade, Table!Recover
      <3>2. CASE ~(fatal = "none" /\ ~draining /\ initialized /\ checkpoint_ok)
        <4>1. Phase' = Phase /\ ~Ready /\ ~Ready'
          BY <2>1, <3>2, <2>9, Zenon DEF Views
        <4> QED BY <2>0, <4>1
      <3> QED BY <3>1, <3>2
    <2>2. CASE InitializationCompleted
      <3>1. CASE initialized
        BY <2>1, <2>2, <3>1, Zenon DEF InitializationCompleted, HInv, TypeOK
      <3>2. CASE ~initialized
        <4>1. Phase = "starting" /\ ~Ready
          BY <2>2, <3>2, <2>9, Zenon DEF InitializationCompleted, Views
        <4>2. ~checkpoint_ok'
          BY <2>2, <3>2, Zenon DEF InitializationCompleted, HInv, Gates
        <4>3. Phase' = "loading_checkpoint" /\ ~Ready'
          BY <2>2, <4>2, <2>9, Zenon DEF InitializationCompleted, Views
        <4> QED BY <2>0, <4>1, <4>3, Zenon DEF Table!Initialize
      <3> QED BY <3>1, <3>2
    <2>3. CASE \E code \in FatalCode : EnterFatal(code)
      <3>1. Phase \in {"starting", "loading_checkpoint", "running", "degraded", "draining"}
        <4>1. fatal = "none"
          BY <2>3 DEF EnterFatal
        <4> QED BY <4>1, <2>9, Zenon DEF Views
      <3>2. fatal' # "none"
        BY <2>3 DEF EnterFatal, FatalCode
      <3>3. Phase' = "fatal" /\ ~Ready'
        BY <3>2, <2>9, Zenon DEF Views
      <3> QED
        BY <2>0, <3>1, <3>3, Zenon DEF Table!Fail, Table!Booting, Table!Serving
    <2>4. CASE CheckpointValidated
      <3>1. Phase' \in {"running", "degraded"} /\ Ready'
        BY <2>4, <2>9, Zenon DEF CheckpointValidated, Views
      <3>2. CASE checkpoint_ok
        <4>1. Phase \in {"running", "degraded"} /\ Ready
          BY <2>4, <3>2, <2>9, Zenon DEF CheckpointValidated, Views
        <4> QED BY <2>0, <3>1, <4>1 DEF Table!Degrade, Table!Recover
      <3>3. CASE ~checkpoint_ok
        <4>1. Phase = "loading_checkpoint"
          BY <2>4, <3>3, <2>9, Zenon DEF CheckpointValidated, Views
        <4> QED BY <2>0, <3>1, <4>1, Zenon DEF Table!Validate, Table!Serving
      <3> QED BY <3>2, <3>3
    <2>5. CASE BeginDrain
      <3>1. Phase' = "draining" /\ ~Ready'
        BY <2>5, <2>9, Zenon DEF BeginDrain, Views
      <3>2. CASE draining
        <4>1. Phase = "draining" /\ ~Ready
          BY <2>5, <3>2, <2>9, Zenon DEF BeginDrain, Views
        <4> QED BY <2>0, <3>1, <4>1
      <3>3. CASE ~draining
        <4>1. Phase \in {"starting", "loading_checkpoint", "running", "degraded"}
          BY <2>5, <3>3, <2>9, Zenon DEF BeginDrain, Views
        <4> QED
          BY <2>0, <3>1, <4>1, Zenon DEF Table!Drain, Table!Booting, Table!Serving
      <3> QED BY <3>2, <3>3
    <2> QED
      BY <2>1, <2>2, <2>3, <2>4, <2>5, Zenon
      DEF Next, vars, lifecycle, Fatal, InitializationFailed, CheckpointRejected,
          FatalCode, ProcessStarted, TickSucceeded, IngressObserved, QueuePressure, Sampled,
          CountersPublished, Published, Elapse
  <1> QED
    BY <1>1, <1>2, HealthInvariant, HandleInvariant, PTL
    DEF Spec, HandleSpec, FollowsTable, Table!TSpec
=============================================================================
