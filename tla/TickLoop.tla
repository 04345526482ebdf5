------------------------------ MODULE TickLoop ------------------------------
(***************************************************************************)
(* The tick of daemon.rs (run_tick_published and run_tick) between a       *)
(* stimulus source, the four ingress queues, the spiking network, the      *)
(* spike sink and the health machine, while other threads put packets into *)
(* the queues through the public ingress handle.                           *)
(*                                                                         *)
(* A step is one access to shared state: a health event or the critical    *)
(* section of one queue.  A producer's call is taken where it has its      *)
(* effect; its waiting is BoundedIngress's subject, and so is the order    *)
(* in which shutdown closes the classes.                                   *)
(*                                                                         *)
(* A payload is "finite" or "foul", which holds a NaN or an infinity; only *)
(* the part of a packet that its class uses counts, as in into_packet:     *)
(* stimuli of the sensory class, modulators of the reward class.           *)
(***************************************************************************)
EXTENDS Integers, BoundedQueue, OccurrenceLimiter

CONSTANTS
  Policy, Capacity,     \* per class, as in BoundedIngress
  Packets,              \* packets the source may deliver: a set of Packet
  MaxTicks,             \* ticks begun; bounds the model
  EnqueueBound,         \* class -> packets offered to it after which nobody
                        \* enqueues directly; bounds the model
  StaleAfter, NonFinite, Identities, NoCheckpoint   \* of HealthMachine

Class == {"sensory", "reward", "control", "telemetry"}
MetricsOrder == << "sensory", "reward", "control", "telemetry" >>
DrainOrder == << "control", "reward", "sensory", "telemetry" >>

(* IngressPacket: the payload of each part, "none" where it is empty or    *)
(* absent, whether the backend flagged it and whether it names a batch.    *)
Part == {"none", "finite", "foul"}
Packet == [stimuli : Part, modulators : Part, rejected : BOOLEAN,
           batch : BOOLEAN]

ASSUME TickAssumption ==
  /\ Policy \in [Class -> Policies]
  /\ Capacity \in [Class -> Nat \ {0}]
  /\ Packets \subseteq Packet
  /\ MaxTicks \in Nat
  /\ EnqueueBound \in [Class -> Nat]
  /\ Keys # {}
  /\ StaleAfter \in Nat

(* RuntimeStats: the numeric counters, all published to health. *)
Counters == {"ticks", "accepted_batches", "rejected_batches",
             "receive_errors", "emit_errors", "dropped_spikes",
             "diagnostic_emissions", "suppressed_diagnostics"}

(* TickDiagnostics *)
Sites == {"receive", "emit", "dropped", "non_finite"}

VARIABLES
  \* the health machine
  limits, started, initialized, checkpoint_ok, draining, fatal, checkpoint,
  checkpoint_at, last_tick, last_ingress, queue_depth, queue_capacity,
  overloaded, counters,
  \* the ingress
  q,            \* q[c]: QueueState of class c
  payload,      \* history: payload[c][n], the n-th packet class c accepted
  shut,         \* the ingress has been shut down
  \* the tick loop
  pc, at,       \* where the tick is; the queue it is at
  held,         \* parts of the backend packet still to be admitted
  drained,      \* payload of the sensory and the reward packet drained
  depth,        \* sum of the depths read so far
  report,       \* TickReport: stats and diagnostics
  \* history
  begun,        \* ticks begun
  refused,      \* batches that had to be rejected so far
  failed,       \* ticks whose step or emission failed
  poisoned,     \* ticks whose merged packet was foul
  busy          \* somebody enqueued since the tick began to drain

health == << limits, started, initialized, checkpoint_ok, draining, fatal,
             checkpoint, checkpoint_at, last_tick, last_ingress, queue_depth,
             queue_capacity, overloaded, counters >>
ingress == << q, payload, shut >>
tick == << pc, at, held, drained, depth >>
history == << begun, refused, failed, poisoned, busy >>
vars == << health, ingress, tick, report, history >>

(* Pressure samples and counters come from the loop itself. *)
HM == INSTANCE HealthMachine WITH
        Counter <- Counters, Watermarks <- {}, Samples <- {}, MaxCount <- 0

Cap(c) == EffectiveCapacity(Policy[c], Capacity[c])
TotalCapacity == Cap("sensory") + Cap("reward") + Cap("control")
                   + Cap("telemetry")

Idle == [stimuli |-> "none", modulators |-> "none"]

TypeOK ==
  /\ HM!TypeOK
  /\ q \in [Class -> QueueState]
  /\ payload \in [Class -> Seq({"finite", "foul"})]
  /\ shut \in BOOLEAN
  /\ pc \in {"idle", "admit", "drain", "sample", "step", "publish",
             "draining", "stopped"}
  /\ at \in 1 .. 4
  /\ held \in [stimuli : Part, modulators : Part]
  /\ drained \in [stimuli : Part, modulators : Part]
  /\ depth \in Nat
  /\ report \in [stats : [Counters -> Nat], diagnostics : [Sites -> Limiter]]
  /\ begun \in Nat /\ refused \in Nat /\ failed \in Nat /\ poisoned \in Nat
  /\ busy \in BOOLEAN

(* The loop is entered: boot_network has validated the checkpoint. *)
Init ==
  /\ limits = HM!DefaultLimits
  /\ started = TRUE /\ initialized = TRUE /\ checkpoint_ok = TRUE
  /\ draining = FALSE /\ fatal = "none"
  /\ checkpoint \in Identities
  /\ checkpoint_at = 0 /\ last_tick = HM!Never /\ last_ingress = HM!Never
  /\ queue_depth = 0 /\ queue_capacity = 0 /\ overloaded = FALSE
  /\ counters = [k \in Counters |-> 0]
  /\ q = [c \in Class |-> NewQueue]
  /\ payload = [c \in Class |-> << >>]
  /\ shut = FALSE
  /\ pc = "idle" /\ at = 1 /\ held = Idle /\ drained = Idle /\ depth = 0
  /\ report = [stats |-> [k \in Counters |-> 0],
               diagnostics |-> [s \in Sites |-> NewLimiter]]
  /\ begun = 0 /\ refused = 0 /\ failed = 0 /\ poisoned = 0 /\ busy = FALSE
-----------------------------------------------------------------------------
(* Accounting: functions of the report                                     *)

Count(r, counter) == [r EXCEPT !.stats[counter] = @ + 1]

(* One occurrence at a site, logged or suppressed. *)
Diagnose(r, site, key) ==
  Count([r EXCEPT !.diagnostics[site] = Recorded(@, key)],
        IF Emits(r.diagnostics[site], key)
        THEN "diagnostic_emissions" ELSE "suppressed_diagnostics")

(* record_non_finite_rejection: the key is the same for every offender. *)
NonFiniteRejected(r) ==
  LET key == CHOOSE k \in Keys : TRUE
  IN Diagnose(Count(r, "rejected_batches"), "non_finite", key)

ReceiveFailed(r, key) ==
  Diagnose(Count(Count(r, "receive_errors"), "rejected_batches"),
           "receive", key)

(* The modulators are not looked at. *)
MutIsFoul(p) == p.stimuli = "foul"

(* first_non_finite *)
IsFoul(p) == p.stimuli = "foul" \/ p.modulators = "foul"

(* packet_carries_input *)
CarriesInput(p) == p.stimuli # "none" \/ p.modulators # "none"
-----------------------------------------------------------------------------
(* The queues                                                              *)

(* try_enqueue, or enqueue when its wait is over: the state of a queue     *)
(* that is offered a packet.                                               *)
Offered(c, fits) ==
  LET s == q[c]
  IN CASE shut -> RefuseShutdown(s)
       [] ~shut /\ ~fits -> Refuse(s)
       [] ~shut /\ fits /\ Policy[c] = "coalesce" -> PushCoalesce(s)
       [] ~shut /\ fits /\ Policy[c] # "coalesce" /\ Depth(s) < Cap(c)
            -> PushFree(s)
       [] ~shut /\ fits /\ Policy[c] = "drop_oldest" /\ Depth(s) >= Cap(c)
            -> DropOldestAndPush(s)
       [] OTHER -> Refuse(s)

Enqueue(c, part, fits) ==
  LET s == Offered(c, fits)
  IN /\ q' = [q EXCEPT ![c] = s]
     /\ payload' = IF s.accepted > q[c].accepted
                   THEN [payload EXCEPT ![c] = Append(@, part)] ELSE payload
     /\ UNCHANGED shut

(* A producer's call through BrainstemDaemon::ingress, with a payload that *)
(* fits.  What control and telemetry packets hold is never looked at.      *)
DirectEnqueue(c, part) ==
  /\ q[c].accepted + q[c].rejected + q[c].shutdown_refused < EnqueueBound[c]
  /\ part = "foul" => c \in {"sensory", "reward"}
  /\ Enqueue(c, part, TRUE)
  /\ busy' = TRUE
  /\ UNCHANGED << health, tick, report, begun, refused, failed, poisoned >>
-----------------------------------------------------------------------------
(* The tick, up to the queues                                              *)

ToAdmit(p) ==
  /\ pc' = "admit"
  /\ held' = [stimuli |-> p.stimuli, modulators |-> p.modulators]
  /\ UNCHANGED << at, drained, depth >>

BeginTick ==
  /\ pc = "idle" /\ begun < MaxTicks
  /\ begun' = begun + 1
  /\ UNCHANGED << ingress, failed, poisoned, busy >>

ReceiveNothing ==
  /\ BeginTick
  /\ ToAdmit(Idle)
  /\ UNCHANGED << health, report, refused >>

ReceiveError ==
  /\ BeginTick
  /\ \E key \in Keys : report' = ReceiveFailed(report, key)
  /\ refused' = refused + 1
  /\ ToAdmit(Idle)
  /\ UNCHANGED health

(* backend_non_finite: a live foul packet is counted and dropped. *)
ReceiveFoul(p) ==
  /\ BeginTick
  /\ ~p.rejected /\ IsFoul(p)
  /\ report' = NonFiniteRejected(report)
  /\ refused' = refused + 1
  /\ ToAdmit(Idle)
  /\ UNCHANGED health

(* A flagged packet is admitted whatever it holds. *)
MutAdmitted(p) == p

(* What account_and_admit_backend_packet admits: a flagged packet that is  *)
(* foul as well is only counted.                                           *)
Admitted(p) == IF p.rejected /\ IsFoul(p) THEN Idle ELSE p

(* observes_ingress, then the accounting of the packet. *)
ReceivePacket(p) ==
  /\ BeginTick
  /\ p.rejected \/ ~IsFoul(p)
  /\ IF CarriesInput(p) /\ ~IsFoul(p)
     THEN HM!IngressObserved ELSE UNCHANGED health
  /\ report' = IF p.rejected THEN Count(report, "rejected_batches")
               ELSE IF p.batch THEN Count(report, "accepted_batches")
               ELSE report
  /\ refused' = IF p.rejected THEN refused + 1 ELSE refused
  /\ ToAdmit(Admitted(p))

Receive ==
  \/ ReceiveNothing \/ ReceiveError
  \/ \E p \in Packets : ReceiveFoul(p) \/ ReceivePacket(p)

(* admit_backend_packet: stimuli first, then modulators; empty parts are   *)
(* not enqueued.                                                           *)
AdmitStimuli ==
  /\ pc = "admit" /\ held.stimuli # "none"
  /\ \E fits \in BOOLEAN : Enqueue("sensory", held.stimuli, fits)
  /\ held' = [held EXCEPT !.stimuli = "none"]
  /\ UNCHANGED << health, pc, at, drained, depth, report, history >>

AdmitModulators ==
  /\ pc = "admit" /\ held.stimuli = "none" /\ held.modulators # "none"
  /\ \E fits \in BOOLEAN : Enqueue("reward", held.modulators, fits)
  /\ held' = [held EXCEPT !.modulators = "none"]
  /\ UNCHANGED << health, pc, at, drained, depth, report, history >>

AdmitDone ==
  /\ pc = "admit" /\ held = Idle
  /\ pc' = "drain" /\ at' = 1 /\ drained' = Idle
  /\ busy' = FALSE
  /\ UNCHANGED << health, ingress, held, depth, report, begun, refused,
                  failed, poisoned >>
-----------------------------------------------------------------------------
(* drain_for_tick and apply_queue_pressure                                 *)

(* What pop hands out. *)
Oldest(c) == IF q[c].items = << >> THEN "none" ELSE payload[c][Head(q[c].items)]

(* Telemetry is left where it is. *)
MutTake(c) ==
  CASE c = "control" -> DrainAll(q[c])
    [] c = "telemetry" -> q[c]
    [] OTHER -> Pop(q[c])

Take(c) ==
  IF c \in {"control", "telemetry"} THEN DrainAll(q[c]) ELSE Pop(q[c])

(* One queue of drain_for_tick.  The merged packet is poisoned as soon as  *)
(* one of its parts is foul; the tick must reject it once.                 *)
Drain ==
  LET c == DrainOrder[at]
      taken == CASE c = "sensory" -> [drained EXCEPT !.stimuli = Oldest(c)]
                 [] c = "reward" -> [drained EXCEPT !.modulators = Oldest(c)]
                 [] OTHER -> drained
  IN /\ pc = "drain"
     /\ q' = [q EXCEPT ![c] = Take(c)]
     /\ drained' = taken
     /\ IF /\ "foul" \in {taken.stimuli, taken.modulators}
           /\ "foul" \notin {drained.stimuli, drained.modulators}
        THEN refused' = refused + 1 /\ poisoned' = poisoned + 1
        ELSE UNCHANGED << refused, poisoned >>
     /\ IF at < 4 THEN at' = at + 1 /\ UNCHANGED << pc, depth >>
                  ELSE at' = 1 /\ pc' = "sample" /\ depth' = 0
     /\ UNCHANGED << health, payload, shut, held, report, begun, failed,
                     busy >>

(* One queue of metrics(); after the last one the sum is reported. *)
Sample ==
  LET sum == depth + Depth(q[MetricsOrder[at]])
  IN /\ pc = "sample"
     /\ depth' = sum
     /\ IF at < 4
        THEN at' = at + 1 /\ UNCHANGED << pc, health >>
        ELSE at' = 1 /\ pc' = "step" /\ HM!Sampled(sum, TotalCapacity)
     /\ UNCHANGED << ingress, held, drained, report, history >>
-----------------------------------------------------------------------------
(* The network, the sink and the end of the tick                           *)

EndTick ==
  /\ pc = "step" /\ pc' = "publish"
  /\ UNCHANGED << ingress, at, held, drained, depth, begun, refused,
                  poisoned, busy >>

(* Only the first failure is recorded. *)
Fail == IF fatal = "none" THEN HM!EnterFatal("unspecified")
                          ELSE UNCHANGED health

(* The drained packet is foul: it is counted and the step is skipped. *)
SkipStep ==
  /\ EndTick
  /\ IsFoul(drained)
  /\ report' = NonFiniteRejected(report)
  /\ HM!TickSucceeded
  /\ UNCHANGED failed

(* The second finite gate lets the merged packet through; decode_inputs    *)
(* hands its parts to the network.                                         *)
Feed == ~IsFoul(drained)

(* network.step may refuse its input. *)
StepFails ==
  /\ EndTick /\ Feed
  /\ Fail
  /\ failed' = failed + 1
  /\ UNCHANGED report

(* Spikes whose ids do not fit u16 are dropped and diagnosed once. *)
Stepped(drops) ==
  LET r == Count(report, "ticks")
      key == CHOOSE k \in Keys : TRUE
  IN IF drops THEN Diagnose(Count(r, "dropped_spikes"), "dropped", key) ELSE r

(* Every spike was dropped: there is nothing to emit. *)
NothingToEmit ==
  /\ EndTick /\ Feed
  /\ report' = Stepped(TRUE)
  /\ HM!TickSucceeded
  /\ UNCHANGED failed

EmitSucceeds ==
  /\ EndTick /\ Feed
  /\ \E drops \in BOOLEAN : report' = Stepped(drops)
  /\ HM!TickSucceeded
  /\ UNCHANGED failed

(* A failed emission that is only counted. *)
MutEmitFails ==
  /\ EndTick /\ Feed
  /\ \E drops \in BOOLEAN, key \in Keys :
       report' = Diagnose(Count(Stepped(drops), "emit_errors"), "emit", key)
  /\ HM!TickSucceeded
  /\ failed' = failed + 1

EmitFails ==
  /\ EndTick /\ Feed
  /\ \E drops \in BOOLEAN, key \in Keys :
       report' = Diagnose(Count(Stepped(drops), "emit_errors"), "emit", key)
  /\ Fail
  /\ failed' = failed + 1

(* A tick that stepped nothing publishes nothing. *)
MutPublish ==
  /\ pc = "publish" /\ pc' = "idle"
  /\ IF report.stats["ticks"] > counters["ticks"]
     THEN HM!Published(report.stats) ELSE UNCHANGED health
  /\ UNCHANGED << ingress, at, held, drained, depth, report, history >>

(* run_tick_published *)
Publish ==
  /\ pc = "publish" /\ pc' = "idle"
  /\ HM!Published(report.stats)
  /\ UNCHANGED << ingress, at, held, drained, depth, report, history >>
-----------------------------------------------------------------------------
(* Time and shutdown                                                       *)

Elapse ==
  /\ HM!Elapse
  /\ \E S \in {{}, Sites} :
       report' = [report EXCEPT !.diagnostics =
                    [s \in Sites |-> IF s \in S THEN Rested(@[s]) ELSE @[s]]]
  /\ UNCHANGED << ingress, tick, history >>

(* The signal is taken between two ticks: BeginDrain, then the ingress is  *)
(* shut down and the loop left.                                            *)
Signal ==
  /\ pc = "idle" /\ pc' = "draining"
  /\ IF fatal = "none" THEN HM!BeginDrain ELSE UNCHANGED health
  /\ UNCHANGED << ingress, at, held, drained, depth, report, history >>

Leave ==
  /\ pc = "draining" /\ pc' = "stopped"
  /\ shut' = TRUE
  /\ UNCHANGED << health, q, payload, at, held, drained, depth, report, history >>

Tick ==
  \/ Receive \/ AdmitStimuli \/ AdmitModulators \/ AdmitDone
  \/ Drain \/ Sample
  \/ SkipStep \/ StepFails \/ NothingToEmit \/ EmitSucceeds \/ EmitFails
  \/ Publish

Next ==
  \/ Tick \/ Elapse \/ Signal \/ Leave
  \/ \E c \in Class, part \in {"finite", "foul"} : DirectEnqueue(c, part)

Spec == Init /\ [][Next]_vars
-----------------------------------------------------------------------------
(* Properties                                                              *)

(* What becomes of a tick can be read off the counters: every tick begun   *)
(* has stepped the network once, which "ticks" counts, or failed to, or    *)
(* was given up because the packet merged from the queues was foul, in     *)
(* whichever part, from whichever producer and enqueued at whichever       *)
(* moment; a tick that stepped and then failed to emit counts under both.  *)
(* So the network is never stepped on a foul packet and never denied a     *)
(* clean one (the second finite gate of run_tick, ticks += 1 before emit). *)
StepsAccounted ==
  pc = "idle" => begun + report.stats["emit_errors"]
                   = report.stats["ticks"] + poisoned + failed

(* Every batch that must be rejected is counted once and only once, be it  *)
(* a receive error, a packet the backend flagged, foul or not, a live foul *)
(* packet, or a merged packet poisoned by a direct enqueue; the source     *)
(* itself never poisons one, so that no packet is counted by both gates    *)
(* (run_tick, account_and_admit_backend_packet).  All of the tick's state  *)
(* keeps its type.                                                         *)
RejectedOnce ==
  /\ TypeOK
  /\ pc = "idle" => report.stats["rejected_batches"] = refused
  /\ "foul" \notin {held.stimuli, held.modulators}

(* A step or emission that fails takes readiness away for good although    *)
(* the loop goes on ticking and later ticks succeed; and nothing else in   *)
(* the loop does (Fatal in run_tick, TickSucceeded).                       *)
FailureSticks == failed > 0 <=> fatal # "none"

(* Between two ticks a scraper sees exactly the loop's counters, whichever *)
(* way the last tick ended (run_tick_published).                           *)
PublishedEveryTick == pc = "idle" => counters = report.stats

(* What a tick reports as pressure when nobody enqueued since it began to  *)
(* drain is the rest of the sensory and the reward queue: a backlog of     *)
(* control or telemetry never shows.  With producers at work the four      *)
(* depths are of four different moments, but never exceed the capacity     *)
(* (drain_for_tick before apply_queue_pressure).                           *)
PressureIsRemainder ==
  /\ queue_depth <= queue_capacity
  /\ pc = "step" /\ ~busy => queue_depth = Depth(q["sensory"]) + Depth(q["reward"])
=============================================================================
