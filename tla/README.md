# brainstem-daemon: TLA+ models, checks and proofs

The daemon drives a spiking neural network at a fixed rate: each tick it takes
a packet from a stimulus source, passes it through four bounded queues that
other threads fill as well, steps the network, emits the spikes, and tells a
health machine what happened. Around the loop are a startup that validates a
configuration and restores a checkpoint, a control surface that answers probes,
and a shutdown that releases everything; a restartable harness exercises the
durable contract beside it. This directory models all of these, model-checks
them with TLC and proves every safety property of the passing runs with TLAPS,
for all values of the constants. `PROJECT.json` maps every definition to the
lines it models.

    tlc -workers 2 -config MCIngressPolicies.cfg MCIngressHistory   # a run
    tlapm BoundedIngressProofs.tla                                  # a proof

## 1. Inventory

Paths are relative to `src/src/`.

| Component | State | Operations | What is hard | What makes it correct |
|---|---|---|---|---|
| Ingress queues, `ingress/{mod,queue}.rs` | four mutex-protected queues with counters and `closed`, one condition variable each, one shared atomic flag | `enqueue` (may wait), `try_enqueue`, `pop`, `drain_for_tick`, `shutdown`, `metrics` | threads, wake-ups, one deadline per call, a flag read before a lock, capacity limits | nothing lost uncounted, first in first out, bounds, no lost wake-up, closed means closed, calls return, no packet is passed by |
| Health machine, `health/*` | lifecycle flags, first failure, ages of input and tick, queue sample, overload flag, counters | eleven events, snapshot | events in any order, staleness, two watermarks, NaN limits | terminal states final, ready/phase/reasons coherent, staleness cleared by input only, hysteresis, monotone counters |
| Tick loop, `daemon.rs` | `RuntimeStats`, four diagnostic limiters, the tick in progress | `run_tick_published`, termination signal | producers between any two of its steps, two finite gates, five exits, failures that do not stop the loop | every tick is a step on finite input, a failure or a packet given up, each refused batch counted once, failures stick, counters published from every exit |
| Harness, `runtime/*` | a durable store, one process with a session, a scripted source, an injector with 17 fault points | `boot`, `run_tick`, `shutdown`, restart, upstream pushes | crashes between persistence steps, redelivery, number exhaustion, repeated boots | store always bootable, nothing published twice or skipped, recovery reported exactly when a tick was left unfinished |
| Daemon lifecycle, `daemon.rs`, `bin/` | control task, backend, ingress, health, signal handlers | `main`, `run`, `run_with_restored_network`, `run_for_ticks` | partial startup, order of release, signals before and after their handlers, joins | everything acquired is released once on every path, ready only while serving, only what was validated ticks, starts and signals come to their end |
| Control surface, `control.rs` | 32 connection slots, 4 busy slots, the accept loop | accept, read, answer, time out, stop | slot exhaustion, slow clients, health moving meanwhile, a stop racing accept | no permit lost or invented, answers current, every connection ends, a stop is heard |
| ZMQ backend, `backend.rs`, `ingress/corpus.rs` | held modulators, the socket's queue, send statistics | `next_ingress`, `initialize`, `emit` | frames arriving and ageing during a call, invalid ones in between, held values replayed for ever | each frame takes effect once and in order, newest modulators held, no stimulus delayed by modulation, sends accounted |
| Checkpoint restore, `checkpoint/mod.rs` | files on disk, the document read | `restore_network` | several accesses to files that a deployment replaces meanwhile, three layouts | one document, fit for the configuration, is what is built, reported and digested |
| Configuration, registry, log filter: `config.rs`, `registry.rs`, `logging.rs` | none (pure) | load, validate, build, resolve | overflowing products, repeated entries | an accepted configuration is sound, the last entry for a service decides |

Interactions: the tick loop calls the source, the ingress, the network, the
sink and the health handle, all synchronously. Producers share the ingress with
it; the control surface shares the health handle (a read lock that it never
waits for). Shutdown tells health, then closes the ingress, then stops and
joins the control task, then flushes the sink and shuts the source down. The
harness stands beside the daemon and shares no state with it.

The hazards (what is hard to reach with a test) are listed with their lines in
`PROJECT.json`.

## 2. Plan

Done, in this order: `BoundedQueue`, `BoundedIngress`; `HealthMachine` with its
abstract `HealthTable`; `RuntimeHarness` with its abstract `CommitLog`;
`OccurrenceLimiter`/`LimiterHistory`; `TickLoop`, which composes queues,
limiters and health machine; `ControlSurface` over `HealthTable`; `ZmqBackend`
over the health machine's freshness; `DaemonConfig`, `CheckpointRestore` and
`DaemonLifecycle`, which composes the two with `HealthTable` and an abstract
control task.

How the modules rest on each other:

    BoundedQueue <- BoundedIngress <- IngressHistory (one more history variable)
    BoundedQueue, HealthMachine, OccurrenceLimiter <- TickLoop
    HealthTable  <= HealthMachine (refinement)
    HealthTable  <- ControlSurface, DaemonLifecycle
    HealthMachine <- ZmqBackend
    DaemonConfig <- CheckpointRestore <- DaemonLifecycle
    CommitLog    <= RuntimeHarness (refinement)
    RuntimeHarness <- HarnessHistory (one more history variable)

The lifecycle and the control surface use the table instead of the machine:
`FollowsTable` is checked and proved, so whatever they show of the table holds
of the machine.

Each module that is proved about has its theorems in a module of its own
(`...Proofs`). Left: that the abstract control task of `DaemonLifecycle` is what
`ControlSurface` does, and that `TickLoop`'s queue steps are steps of
`BoundedIngress`, as refinements; both compositions are argued in section 3
only.

## 3. Modules and code

### BoundedQueue, BoundedIngress, IngressHistory
`QueueState` is the record behind the mutex of one queue; packets are numbered
by acceptance, so `items` is a sequence of numbers and the order of delivery is
visible. Each operation of `queue.rs` is a function on that record (`PushFree`,
`PushCoalesce`, `DropOldestAndPush`, `Refuse`, `Pop`, `DrainAll`, ...).
`BoundedIngress` is the concurrency: a step is one critical section of one
queue, one access to the flag, or one event of the clock. A producer's call
(`thr[p]`) loads the flag (`StartCall`), then takes the lock and leaves by one
of the exits of `push`; `PushFullWait` parks it. `DrainStep` is one queue of
`drain_for_tick`, `HandlePop` the public `pop`, `ShutdownFlag` and `CloseNext`
the steps of `shutdown`. The condition variable `not_empty` has no waiter
anywhere and is left out; `Condvar` is external: a notification wakes any one
or all parked producers, a wait may end spuriously, and it times out only after
the deadline. A call that finished waiting still re-checks the queue.
`IngressHistory` adds a history variable, `waited`: through how many whole calls
of `drain_for_tick` each queued packet has sat.

### HealthMachine, HealthTable
One action per `HealthEvent` plus `Elapse`. Times are ages, cut off at
`StaleAfter`, since only the comparison with the limit is used. Watermarks are
percentages or `NonFinite`; `Sanitized` is what the constructor makes of them.
`Ready`, `Phase` and `Reasons` are the three functions a snapshot is made of.
`Spec` starts from a machine that has not been started (an embedder's), and
`HandleSpec` from `HealthHandle::started` (the daemon's). `HealthTable` is the
table of `docs/health.md` on what a probe sees; `FollowsTable` says that the
machine implements it.

### OccurrenceLimiter, LimiterHistory
The limiter's `record` as functions on its record; `rested` stands for "no line
yet, or `min_gap` has passed". `LimiterHistory` runs one limiter and keeps what
it let through.

### TickLoop
`run_tick_published` step by step: receive and account (`Receive...`, with the
gate on a live packet), `AdmitStimuli`, `AdmitModulators`, one `Drain` step per
queue, one `Sample` step per queue of `metrics`, the second gate and the
network and sink (`SkipStep`, `StepFails`, `NothingToEmit`, `EmitSucceeds`,
`EmitFails`), `Publish`. Producers enqueue between any two of these. Queue
operations are those of `BoundedQueue`; health events are the actions of an
instance of `HealthMachine`. A payload is `"none"`, `"finite"` or `"foul"`
(holds a NaN or an infinity); `payload` remembers which one each accepted packet
number is. Ghost counters remember the ticks begun, the batches that had to be refused,
the merged packets that were foul and the failures, for the counters of
`RuntimeStats` to be compared with. Shutting the four classes down is one step here, the races inside it
being `BoundedIngress`'s subject, and a blocking `enqueue` takes effect when its
wait is over.

### RuntimeHarness, CommitLog
`store`/`stored` is the persisted blob, `durable` the process's copy. `boot`,
`run_tick` and `shutdown` have one disjunct per place where they can end, so a
fault at each of the 17 points is an outcome of its own with exactly the writes
made before it. `Restart` rebuilds the process on the store, with a script that
redelivers from any earlier packet. `U64Max` is the width of the counters.
`CommitLog` is the contract without processes or faults: sessions open, take a
fresh packet and publish it under the next number or abandon it. The mapping
(`Contract`) reads the session and the pending packet off the store.
`HarnessHistory` adds a history variable, `rebooted`, for the one property that
holds only while restarts are the way a fault is recovered from.

### ControlSurface
The accept loop of `serve_listener` (`loop`), the two semaphores (`slots`,
`busy_slots`) and a record per client. A step is what a task does between two
awaits. `Admission` is `spawn_control_conn` with `spawn_busy_conn`; `Respond`
is `handle_connection` once the request is in: it takes the snapshot then, or
answers busy when the lock is held; `ReadFails`, `WriteEnds` and `BusyEnds` end
a task and return its permit. `ParseGetPath`, `Route` and `Render` classify a
request and choose status and content; of the content only what it tells of
readiness is kept. Clients may send at any time or never; `seen` remembers what
readiness was since the request was sent. The daemon runs on a current-thread
runtime, so not all of these interleavings occur there; the surface does not
rely on that, and neither does the model. The backlog of the listener is
external.

### ZmqBackend
A tick calls `next_ingress`, which consumes the socket's queue frame by frame
(`ReceiveModulation`, `ReceiveBatch`, `ReceiveInvalid`, `ReceiveEnds`,
`ReceiveFails`), tells the health machine (`Observe`) and emits. Between any two
steps the publisher may publish and time may pass, so a frame may become stale
while it is queued. `Verdict` is the validation of `ingress/corpus.rs` with the
finite check of `hold_modulators`. A frame is its number and what validation
looks at. A subscriber whose queue is at its high-water mark drops
what arrives (external); `lost` remembers it. The freshness is that of
`HealthMachine`, instantiated on a booted machine.

### DaemonConfig, CheckpointRestore, DaemonLifecycle
`DaemonConfig` is `validate` part by part, with the checked arithmetic of
`usize`; `Sound` says independently what an accepted configuration must
guarantee. `FromConfigs` folds the service list; `LastWord` is its reference.

`CheckpointRestore` has one step per access to the file system (`QueryPath`,
`ResolveSidecar`, `ReadSidecar`, `FindHubConfig`, `ReadHubConfig`), over a tree
of four files: a sidecar and a `config.json` in the root and in
`dataset/merged_v2`. `model_path` names either directory, any of the four files,
a `.mem` dump or nothing; a path too short to have the ancestors that
`find_hub_config` looks up is not a case. `Rewrite`
replaces or removes a file between any two of them; accesses may fail, and a
failing `is_file` reads as "not there" (`CandidateUnseen`). A document keeps
the properties validation asks about: sources, encodings, row widths, sane and
trained parameters. `Fit` and `Agrees` say independently what an acceptable
document is.

`DaemonLifecycle` starts at `main` or at one of the three methods an embedder
calls. `pc` is the place in the code; each step of startup may fail and leads to
`abort` or directly back; `stop`, `join`, `flush`, `shutdown` are
`stop_control` and `shutdown_backend`, the `finish_...` steps those of
`finish_bounded_run`. The control task is what `ControlSurface` shows of it: it
serves, and ends when told or by itself. A signal without a handler kills the
process; handlers exist only after the loop's first poll of `shutdown_signal`,
either may fail to install, and a failing `ctrl_c` counts as a signal. A tick
is one step that may fail for good. `main` opens the PUB socket
(`OpenPubSocket`) or, built without corpus-ipc, uses the stub pair (`UseStub`).

## 4. Runs

| Run | Instance | Shows |
|---|---|---|
| `ingress_policies` | 2 producers; a class of each policy, 4 calls in all | `Accounting`, `NewestInOrder`, `ServedInTurn`, `NoLostWakeup`, `ClosedIsFinal` |
| `ingress_live` | 2 producers; a class of one slot of each policy, 3 calls in all | `CallsReturn` |
| `ingress_flag_race` | 2 producers, one call per class | finding: `NoAcceptOnceFlagged` fails |
| `health_machine` | unstarted at first, all events, 16 pairs of watermarks, samples at every threshold | `SnapshotCoherent`, `TerminalIsFinal`, `StaleClearedByInput`, `OverloadHysteresis`, `FollowsTable` |
| `health_unstarted` | as `health_machine` | finding: `FatalOnlyAfterStart` fails |
| `harness` | numbers up to 3, a store near exhaustion or none, restarts and reboots | `StoreValid`, `Agreement`, `InflightMatchesFault`, `FaultHealth`, `NoGap`, `ImplementsContract` |
| `tick_loop` | 2 ticks, live/flagged/foul packets, direct producers in two classes | `StepsAccounted`, `RejectedOnce`, `FailureSticks`, `PublishedEveryTick`, `PressureIsRemainder` |
| `limiter` | 2 keys, interval 3, 10 occurrences | `LogComplete`, `NoFlood` |
| `control` | 3 clients that send a readiness probe or nothing, 1 slot, 1 busy slot | `PermitsMatchTasks`, `AnswersAreCurrent`, `ConnectionsEnd`, `StopIsHeard` |
| `zmq` | 5 kinds of frame, 4 frames, queue of 2, cap of 3, 3 ticks | `EveryFrameOnce`, `HeldAreNewest`, `QueuedStimulusServed`, `SinkAccounts` |
| `zmq_stale` | modulation frames only | finding: `StaleNeedsFrame` fails |
| `daemon` | 4 entry points, a configuration beyond each limit, 8 documents, 8 model trees under 5 names each, 1 rewrite | `QuietRestore`, `RestoredIsModel`, `ReleasedOnce`, `ReadyIsServing`, `TicksValidated`, `RegistryIsLastWord`, `EveryStartEnds`, `SignalStops` |

`RejectedOnce`, `PermitsMatchTasks`, `EveryFrameOnce` and `ReleasedOnce` include
the type invariant of their module. In the other modules the type invariant,
and with it `Bounded`, `CountersMonotone` and `SessionsGrow`,
is proved for every instance (section 6), and no run repeats it. The frames of
`zmq` are compared as sets and as increasing sequences of numbers rather than
filtered with `SelectSeq`, of which the prover knows nothing.

Why the bounds are enough to mean something:
- ingress: in the safety run any four calls may be made (`TotalBound`), up to
  four on the blocking class of two slots, three on the evicting class of two
  and two on each other class (`CallBound`). Four on the blocking class reach two
  waiters beside freed slots, a lost race for one and both kinds of notification
  (the proof of `NoLostWakeup` covers any number); the others reach every
  overflow path and a packet that has to wait behind another in the sensory
  class, which is served one a tick (a coalescing class never holds two). In the
  liveness run three calls on classes of one slot suffice for both producers to
  wait for the same slot. Producers are interchangeable, hence the symmetry in
  the safety run (none in the liveness run).
- health: ages beyond `StaleAfter` behave alike; the samples sit on both sides
  of and exactly on every threshold.
- ticks: one tick leaves a backlog or a failure and the next meets it. Direct
  producers may act until the class has been offered `EnqueueBound` packets in
  all, so a direct packet may be merged with, evict or be replaced by one of
  the source's, and one class fed only directly must not appear in the pressure
  once it is drained.
- harness: numbers up to 3 allow two sessions past the first, a replay, an
  abandoned tick and an overflow in one behaviour. `NoGap` is claimed until
  `boot` is called on an instance that has been booted before; the history
  variable `rebooted` remembers that.
- control: requests differ only in what they are told, so the probe stands for
  all. Three clients on one slot of each kind are the least with which one
  is served, one told to come back and one closed unanswered.
- zmq: the cap is above the queue's limit, as 32 is above 16 in the code; four
  frames and three ticks allow held modulators to outlive a rejected frame and a
  batch to go stale behind another. `MaxAge` 0 makes every passage of time
  matter.
- daemon: each limit of `validate` is passed once, by one; the integer types are
  scaled down (`USIZE_MAX` 31, `U16_MAX` 8) such that sums and products overflow
  inside the instance. One rewrite, at any moment of the restore, is enough to
  make two accesses disagree. Services: every list of up to three entries about
  one name, or two about two.

Three runs are expected to fail; each is a place where the text disagrees with
the code:
- the comment in `ingress/mod.rs` that setting the flag first keeps a racing
  producer off a still-open later class. It does not, since the flag is read
  before the lock is taken; the guarantee that does hold is `ClosedIsFinal`.
- `docs/health.md` says that the fatal transition applies only after
  `ProcessStarted`. `apply_terminal` does not check. The daemon starts its
  machine on construction, so only an embedder can observe this.
- `docs/health.md` says that ticks without ingress do not clear stale. With the
  ZMQ source they do once modulators are held: `skip_ingress` replays them on
  every tick without a frame, and `packet_carries_input` counts them.

## 5. Fairness

- `BoundedIngress`: weak fairness of each thread *inside* a call (the scheduler
  runs it, a mutex whose critical sections are finite is obtained), of the clock
  (deadlines pass, waits with a passed deadline end) and of a shutdown that has
  begun (it is a loop without waiting). Nobody has to start a call, pop, or shut
  down. `CallsReturn` holds without a consumer. How long a packet waits is counted
  in ticks (`ServedInTurn`), which needs no fairness at all.
- `ControlSurface`: weak fairness of every connection task, since each wait of
  theirs is under a timeout, and of the back-off, a timer. Strong fairness of the
  two branches of `select!`, which polls in random order, so that a branch that
  is ready again and again is taken. For the accept branch this also assumes that
  accept does not fail for ever. Clients owe nothing.
- `DaemonLifecycle`: weak fairness of the straight-line code of startup, a tick
  and the ways out, and of the control task; strong fairness of the signal's
  branch of `select!`, for the same reason. Signals need not come.

The runs of the modules without liveness use `Spec` alone.

## 6. Proofs

All are for arbitrary values of the constants under the named assumptions
(one `...Assumption` per module, each evaluated by TLC on the instances), and
have no unproved leaf. What the assumptions ask is what the code fixes:
capacities of at least one slot, a high-water mark not above the drain cap
(`ZmqAssumption`; 16 and 32 in the code), at least one diagnostic
(`TickAssumption`), seeded stores that validate (`HarnessAssumption`). Where a
value stands for "none" (`NoRequest`, `NoPair`), it is assumed to differ from
the values it stands beside.

- `BoundedIngressProofs`: `QueueOK` says of one queue that the balance of
  accepted packets holds, that its items are a *window* of consecutive numbers
  ending at the last accepted one, and that depth <= high-water mark <= capacity.
  It is inductive with `TypeOK` (`QueueInvariant`) because each queue operation
  maps a window to a window. `NewestInOrder`, `Bounded` and the first half of
  `Accounting` follow; the second half needs the number of calls in flight,
  a cardinality that each return lowers by one (`CountedStep`).
  `NobodyForgotten` needs `WaiterOK` (only a fitting call on a blocking class
  ever waits): a step that frees a slot wakes as many producers, and a woken
  producer leaves that set only by filling a slot, by parking on a full queue,
  or when the class is closed and nobody is parked.
  `NobodyStarves` (`ServedInTurn`) strengthens the bound for the middle of a
  call: a packet that waits for a class this call has already visited has moved
  up by one place (`Places`, `VisitStep`), so that the end of the call may raise
  its count; pushes go to the back, and every other consumer only moves it up.
- `HealthMachineProofs`: the inductive invariant is `TypeOK` with the gates
  (initialized only if started, validated only if initialized, failed only if
  not validated). From it come `SnapshotCoherent`, `TerminalIsFinal`,
  `StaleClearedByInput`, `CountersMonotone`, `OverloadHysteresis` (for any two
  watermarks, since sanitizing leaves a band) and the refinement of
  `HealthTable` (`ImplementsTable`), step by step, for a machine that starts
  unstarted as well as for the daemon's.
- `RuntimeHarnessProofs`: every step is quiet, opens a session, dies with its
  marker on disk, or publishes (`StepKinds`); the invariant (store valid, live
  copy equal to the store, log ordered, marks those of the last output, marker
  exactly after an incomplete-tick fault, sessions below the stored one) is
  kept by each of the four kinds. It gives `StoreValid`, `Agreement`,
  `InflightMatchesFault`, `SessionsGrow`, and the refinement of `CommitLog`
  (`HarnessImplementsContract`); `FaultHealth` needs only the two tables.
  `NoPacketLost` (`NoGap`) adds that the source has no gap above the stored
  mark as long as the session is untouched or live (`Gapless`: a packet is at
  most one above the mark or above one before it in the source). A fault breaks
  this by discarding the packet it fetched, but it also ends the session, and
  only a restart, with a new script, or a second `boot` begins another. That
  upstream's highest number exists at all is an induction over a finite set
  (`Greatest`).
- `LimiterHistoryProofs`: lines are logged at occurrences that are one more
  than a multiple of the interval, hence spaced by at least one; with the
  balance of `LogComplete` this is inductive and gives `NoFlood`.

- `TickLoopProofs`: a queue holds at most its capacity, and only packets that
  were accepted and whose contents are remembered; the source's packets are clean
  once they are past the first gate and a part of the drained packet is empty
  until its queue is visited (`Gates`); and the rejected batches counted, plus
  one if the packet of this tick is foul and not counted yet, are those that had
  to be (`Rejections`). Each step accounts for a number of batches (`Books`),
  which gives `RejectedOnce`. `PublishedEveryTick` needs that no counter of the
  loop is ever below what health shows, or merging would keep the older one;
  `FailureSticks` is an invariant of the gates and of the health machine.
  `StepsAccounted` is inductive once a tick in progress counts as open and its
  poisoned packet as not given up yet (`LedgerInv`); each step settles
  (`StepsSettle`): what it adds on one side it adds on the other. `PressureIsRemainder` needs to know, for each of the
  four moments at which a depth is read, what the sum is bounded by
  (`WithinCapacity`) and, while nobody enqueues, what it is (`Undisturbed`).
- `ControlSurfaceProofs`: `Waiting` (whoever is in the backlog is there once and
  has no task) makes the balance of permits and tasks inductive: a task begins
  with a permit and ends by returning it, whichever way it ends.
  `AnswersAreCurrent` needs that a client whose request is under way has seen
  what readiness is now (`SeesNow`).
- `ZmqBackendProofs`: `Arrival` (what was consumed and what is queued, in this
  order, are the frames published and not lost, increasing) and `Outcomes` (the
  batches delivered, rejections flagged and modulators held are those of the
  frames consumed, by verdict) give `EveryFrameOnce` and `HeldAreNewest`.
  `Waiting` gives `QueuedStimulusServed`: the stimuli that were queued when the
  call began are among the first k frames, and k and what was consumed do not
  exceed the high-water mark, so the cap is not reached before k is zero.
- `DaemonLifecycleProofs`: `RInv` says what the restore knows at each of its
  steps, `Order` what each place of the code may rely on of the task, the queues,
  the hooks and health, `Built` that what was built was validated. `LInv`, all
  of them with the types, is inductive (`LifecycleInvariant`) and gives
  `ReleasedOnce`, `ReadyIsServing`, `RestoredIsModel` and, with the lemma that
  every configuration `Validate` accepts is `Sound`, `TicksValidated`.
  `RegistryIsLastWord` is a fact about a fold over a list of any length
  (`FromConfigsIsLastWords`). `QuietRestore` follows a restore with the files
  left alone from candidate to candidate (`Known`, `Verdict`).

Induction over data (`LeastNatural`, `FromConfigsIsLastWords`, `Greatest`) goes
through the well-foundedness of strict inclusion on finite sets, since the
library's induction theorems take an operator, which these provers cannot
instantiate: a counterexample of least size is picked and contradicted.

Only model-checked: everything temporal beyond safety (`CallsReturn`,
`ConnectionsEnd`, `StopIsHeard`, `EveryStartEnds`,
`SignalStops`), since the prover does not do fairness and ENABLED; and the three
findings, which are violations.

## 7. Not modelled

- Libraries: the sockets, tokio, the network's arithmetic, corpus-ipc's codec,
  the tracing subscriber, SHA-256 (taken to tell all documents apart).
- Layout: HTTP headers, Prometheus and JSON rendering, log lines, tables.
- Parsing: TOML, JSON, host-name and address syntax are outcomes, not strings.
- The stub, no-op and collecting backends, which keep no state of interest; the
  examples and benchmarks under `src/examples`, which are clients of the daemon.
- Within the modelled parts: contents of packets beyond finite or not, valid
  masks and batch metadata, wait durations, the fake core and clock of the
  harness, and poisoned mutexes (a poisoned lock is entered like any other).
- The code promises nothing about a signal that arrives before its handler, nor
  about the weights of a network an embedder supplies to
  `run_with_restored_network` (only its schema and dimensions are looked at);
  the models contain both, and the properties exclude them by name.
