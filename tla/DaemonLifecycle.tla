--------------------------- MODULE DaemonLifecycle ---------------------------
(***************************************************************************)
(* The life of a daemon process, from main (bin/brainstem_daemon.rs) or    *)
(* from an embedder's call of run, run_with_restored_network or            *)
(* run_for_ticks (daemon.rs), to the return of that call: configuration,   *)
(* restore, sockets, control task, boot, loop, and the release of          *)
(* everything on every way out, with signals at any time.                  *)
(*                                                                         *)
(* The restore is CheckpointRestore's, the health machine is what          *)
(* HealthTable promises, and the control task is what ControlSurface shows *)
(* of it: it serves, and ends when it is told to or by itself.             *)
(***************************************************************************)
EXTENDS CheckpointRestore

CONSTANTS
  Starts,        \* entry points, configurations and files to start with
  Pairs,         \* pairs an embedder may pass to run_with_restored_network
  MaxTicks       \* argument of run_for_ticks; bounds the model

VARIABLES
  entry,         \* "main", or the daemon method an embedder calls
  pc, outcome,
  phase, ready, identity,            \* health handle; "unstarted" before it
  registry, filter,
  ingress,                           \* "none", "open" or "closed"
  source, flushes, shutdowns,        \* the backend pair: source state, hook calls
  pub_socket,                        \* the sink's PUB socket, of main only
  control, stop,                     \* control task; the watch channel
  handlers, signal,                  \* signal handlers; a handled one is pending
  ticks                              \* left for run_for_ticks

control_flow == << entry, pc, outcome >>
health == << phase, ready, identity >>
backend == << source, flushes, shutdowns, pub_socket >>
task == << control, stop >>
signals == << handlers, signal >>
rest == << registry, filter, ticks >>
vars == << rvars, control_flow, health, ingress, backend, task, signals, rest >>

H == INSTANCE HealthTable

EntryPoint == {"main", "run", "run_with_restored", "run_for_ticks"}
Signals == {"SIGINT", "SIGTERM"}

ASSUME LifecycleAssumption ==
  /\ MaxTicks \in Nat
  /\ \A s \in Starts :
       /\ s.entry \in EntryPoint /\ s.config \in Config
       /\ s.files \in [SidecarPath \cup HubPath -> Documents \cup HubConfigs \cup {NoFile}]
       /\ \A p \in DOMAIN s.files : s.files[p] \in Contents(p) \cup {NoFile}
       /\ NoPair # BlankSimulation(s.config)
       /\ \A d \in Documents, p \in SidecarPath : NoPair # Restored(s.config, d, p)
  /\ NoPair \notin Pairs
  /\ \A pair \in Pairs : DOMAIN pair = {"network", "provenance"}

NoIdentity == "none"
Ended == pc \in {"exited", "killed"}
InLoop == pc \in {"loop", "ticking"}

TypeOK ==
  /\ RestoreTypeOK
  /\ entry \in EntryPoint
  /\ pc \in {"load", "filter", "restore", "socket", "construct", "control", "boot",
             "take", "verify", "loop", "ticking", "draining", "abort", "stop", "join",
             "flush", "shutdown", "bounded", "finish_flush", "finish_shutdown",
             "finish_close", "returned", "exited", "killed"}
  /\ outcome \in {"none", "ok", "error", "panic"}
  /\ phase \in {"unstarted", "fatal", "draining"} \cup H!Booting \cup H!Serving
  /\ ready \in BOOLEAN
  /\ ingress \in {"none", "open", "closed"}
  /\ source \in {"fresh", "initialized"}
  /\ flushes \in 0 .. 1 /\ shutdowns \in 0 .. 1
  /\ pub_socket \in {"none", "bound", "closed"}
  /\ control \in {"none", "spawned", "serving", "ended"} /\ stop \in BOOLEAN
  /\ handlers \subseteq Signals /\ signal \in BOOLEAN
  /\ registry \subseteq STRING /\ filter \in {"none", "env", "toml"}
  /\ ticks \in 0 .. MaxTicks

Init ==
  /\ \E s \in Starts : entry = s.entry /\ config = s.config /\ files = s.files
  /\ RestoreInit
  /\ pc = IF entry = "main" THEN "load" ELSE "construct"
  /\ outcome = "none"
  /\ phase = "unstarted" /\ ready = FALSE /\ identity = NoIdentity
  /\ registry = {} /\ filter = "none" /\ ingress = "none"
  /\ source = "fresh" /\ flushes = 0 /\ shutdowns = 0 /\ pub_socket = "none"
  /\ control = "none" /\ stop = FALSE
  /\ handlers = {} /\ signal = FALSE
  /\ ticks \in 0 .. IF entry = "run_for_ticks" THEN MaxTicks ELSE 0

Goto(from, to) == pc = from /\ pc' = to /\ UNCHANGED << entry, outcome >>
Fails(from, to) == pc = from /\ pc' = to /\ outcome' = "error" /\ UNCHANGED entry
-----------------------------------------------------------------------------
(* main, before the daemon exists                                          *)

LoadConfig ==
  /\ pc = "load"
  /\ IF Loads(config) THEN Goto("load", "filter") ELSE Fails("load", "returned")
  /\ UNCHANGED << rvars, health, ingress, backend, task, signals, rest >>

InstallFilter ==
  /\ Goto("filter", "restore")
  /\ \E value \in RustLog : filter' = ResolveFilter(value).from
  /\ UNCHANGED << rvars, health, ingress, backend, task, signals, registry, ticks >>

(* One step of restore_network, for main and for boot_network. *)
Restore ==
  /\ pc = "restore" /\ RestoreStep
  /\ UNCHANGED << control_flow, health, ingress, backend, task, signals, rest >>

(* Back in main.  CheckpointRejected is boot_network's. *)
RestoreInMain ==
  /\ entry = "main"
  /\ \/ step = "done" /\ Goto("restore", "socket")
     \/ step = "failed" /\ Fails("restore", "returned")
  /\ UNCHANGED << rvars, health, ingress, backend, task, signals, rest >>

(* The PUB socket: created, configured and bound, each of which may fail,  *)
(* as binding a bare IPv6 address does; a failure closes it again.         *)
OpenPubSocket ==
  /\ \/ /\ Goto("socket", "construct") /\ PubEndpoint(config) # "ipv6"
        /\ pub_socket' = "bound"
     \/ Fails("socket", "returned") /\ UNCHANGED pub_socket
  /\ UNCHANGED << rvars, health, ingress, source, flushes, shutdowns, task,
                  signals, rest >>

(* A build without corpus-ipc: the stub pair, and no socket. *)
UseStub ==
  /\ Goto("socket", "construct")
  /\ UNCHANGED << rvars, health, ingress, backend, task, signals, rest >>

(* An embedder restored the pair it passes, or made it up. *)
SupplyPair ==
  /\ entry = "run_with_restored" /\ pc = "construct" /\ step = "idle"
  /\ restored = NoPair
  /\ restored' \in Pairs
  /\ UNCHANGED << config, disk, step, tried, sidecar, document, io_failed,
                  control_flow, health, ingress, backend, task, signals, rest >>

(* try_with_backend; with_backend panics where it returns an error. *)
Construct ==
  /\ entry = "run_with_restored" => restored # NoPair
  /\ \/ /\ ~Validate(config)
        /\ pc = "construct" /\ pc' = "returned" /\ UNCHANGED entry
        /\ outcome' \in {"error", "panic"}
        /\ UNCHANGED << phase, ready, ingress, registry >>
     \/ /\ Validate(config)
        /\ Goto("construct", IF entry = "run_for_ticks" THEN "boot" ELSE "control")
        /\ phase' = "starting" /\ ready' = FALSE     \* HealthHandle::started
        /\ ingress' = "open"
        /\ registry' = FromConfigs(config.services)
  /\ UNCHANGED << rvars, identity, backend, task, signals, filter, ticks >>
-----------------------------------------------------------------------------
(* Startup                                                                 *)

(* start_control; bind_control may fail. *)
StartControl ==
  /\ \/ config.control_bind = "none" /\ Goto("control", "boot") /\ UNCHANGED control
     \/ /\ config.control_bind = "address"
        /\ \/ Goto("control", "boot") /\ control' = "spawned"
           \/ Fails("control", "abort") /\ UNCHANGED control
  /\ UNCHANGED << rvars, health, ingress, backend, stop, signals, rest >>

(* initialize_source *)
InitializeSource ==
  /\ \/ /\ Goto("boot", "take")
        /\ source' = "initialized" /\ H!Initialize
     \/ /\ Fails("boot", "abort")
        /\ UNCHANGED source /\ H!Fail
  /\ UNCHANGED << rvars, identity, ingress, flushes, shutdowns, pub_socket, task,
                  signals, rest >>

(* take_restored_network *)
TakeRestored ==
  /\ Goto("take", IF restored = NoPair THEN "restore" ELSE "verify")
  /\ UNCHANGED << rvars, health, ingress, backend, task, signals, rest >>

(* boot_network's own call of restore_network. *)
RestoreInBoot ==
  /\ entry # "main"
  /\ \/ step = "done" /\ Goto("restore", "verify") /\ UNCHANGED << phase, ready >>
     \/ step = "failed" /\ Fails("restore", "abort") /\ H!Fail
  /\ UNCHANGED << rvars, identity, ingress, backend, task, signals, rest >>

(* validate_restored_pair *)
PairMatches(c, pair) ==
  /\ pair.provenance.schema = IF c.runtime_mode = "live" THEN "sidecar-json/v1"
                              ELSE "simulation/blank"
  /\ pair.network = Network(c, pair.network.weights)

(* checkpoint_identity *)
IdentityOf(provenance) == [id |-> provenance.model, digest |-> provenance.sha]

VerifyPair ==
  /\ pc = "verify"
  /\ \/ /\ PairMatches(config, restored)
        /\ Goto("verify", IF entry = "run_for_ticks" THEN "bounded" ELSE "loop")
        /\ H!Validate /\ identity' = IdentityOf(restored.provenance)
     \/ /\ ~PairMatches(config, restored)
        /\ Fails("verify", "abort")
        /\ H!Fail /\ UNCHANGED identity
  /\ UNCHANGED << rvars, ingress, backend, task, signals, rest >>
-----------------------------------------------------------------------------
(* The loop                                                                *)

(* The first poll of shutdown_signal.  Without a SIGTERM handler only      *)
(* SIGINT is heard; without a SIGINT handler ctrl_c returns at once, and   *)
(* the loop takes its error for a signal.                                  *)
InstallHandlers ==
  /\ pc = "loop" /\ handlers = {} /\ ~signal
  /\ handlers' \in SUBSET Signals
  /\ signal' = ("SIGINT" \notin handlers')
  /\ UNCHANGED << rvars, control_flow, health, ingress, backend, task, rest >>

(* The ticker's branch; select! polls its branches in a random order. *)
BeginTick ==
  /\ Goto("loop", "ticking")
  /\ UNCHANGED << rvars, health, ingress, backend, task, signals, rest >>

(* run_tick_published, of TickLoop: it may fail for good, and goes on. *)
EndTick ==
  /\ Goto("ticking", "loop")
  /\ H!Fail \/ UNCHANGED << phase, ready >>
  /\ UNCHANGED << rvars, identity, ingress, backend, task, signals, rest >>

(* The queues are shut before the drain is announced. *)
MutTakeSignal ==
  /\ signal /\ Goto("loop", "draining")
  /\ ingress' = "closed"
  /\ UNCHANGED << rvars, health, backend, task, signals, rest >>

(* The signal's branch: BeginDrain, which a fatal machine ignores; then    *)
(* the ingress is shut.                                                    *)
TakeSignal ==
  /\ signal /\ Goto("loop", "draining")
  /\ IF phase = "fatal" THEN UNCHANGED << phase, ready >> ELSE H!Drain
  /\ UNCHANGED << rvars, identity, ingress, backend, task, signals, rest >>

LeaveLoop ==
  /\ pc = "draining" /\ pc' = "stop" /\ outcome' = "ok" /\ UNCHANGED entry
  /\ ingress' = "closed"
  /\ UNCHANGED << rvars, health, backend, task, signals, rest >>

(* drive_ticks *)
BoundedTick ==
  /\ pc = "bounded" /\ ticks > 0 /\ ticks' = ticks - 1
  /\ H!Fail \/ UNCHANGED << phase, ready >>
  /\ UNCHANGED << rvars, control_flow, identity, ingress, backend, task, signals,
                  registry, filter >>

BoundedTicksEnd ==
  /\ ticks = 0 /\ pc = "bounded" /\ pc' = "finish_flush" /\ outcome' = "ok"
  /\ UNCHANGED << entry, rvars, health, ingress, backend, task, signals, rest >>
-----------------------------------------------------------------------------
(* Ways out                                                                *)

(* abort_startup and run_for_ticks: ingress.shutdown *)
CloseIngress ==
  /\ Goto("abort", IF entry = "run_for_ticks" THEN "flush" ELSE "stop")
  /\ ingress' = "closed"
  /\ UNCHANGED << rvars, health, backend, task, signals, rest >>

(* The sender is kept and says nothing. *)
MutSendStop ==
  /\ Goto("stop", "join")
  /\ UNCHANGED << rvars, health, ingress, backend, task, signals, rest >>

(* stop_control: the send, *)
SendStop ==
  /\ Goto("stop", "join")
  /\ stop' = TRUE
  /\ UNCHANGED << rvars, health, ingress, backend, control, signals, rest >>

(* and the join. *)
JoinControl ==
  /\ control \in {"none", "ended"}
  /\ Goto("join", "flush")
  /\ UNCHANGED << rvars, health, ingress, backend, task, signals, rest >>

(* shutdown_backend: errors of the hooks are only logged. *)
FlushSink ==
  /\ Goto("flush", "shutdown")
  /\ flushes' = flushes + 1
  /\ UNCHANGED << rvars, health, ingress, source, shutdowns, pub_socket, task,
                  signals, rest >>

ShutdownSource ==
  /\ Goto("shutdown", "returned")
  /\ shutdowns' = shutdowns + 1
  /\ UNCHANGED << rvars, health, ingress, source, flushes, pub_socket, task,
                  signals, rest >>

(* finish_bounded_run gives up when the flush fails. *)
MutFinishFlush ==
  /\ Goto("finish_flush", "finish_shutdown") \/ Fails("finish_flush", "returned")
  /\ flushes' = flushes + 1
  /\ UNCHANGED << rvars, health, ingress, source, shutdowns, pub_socket, task,
                  signals, rest >>

(* finish_bounded_run: an error is kept for the end. *)
FinishFlush ==
  /\ \/ Goto("finish_flush", "finish_shutdown")
     \/ Fails("finish_flush", "finish_shutdown")
  /\ flushes' = flushes + 1
  /\ UNCHANGED << rvars, health, ingress, source, shutdowns, pub_socket, task,
                  signals, rest >>

FinishShutdown ==
  /\ \/ Goto("finish_shutdown", "finish_close")
     \/ Fails("finish_shutdown", "finish_close")
  /\ shutdowns' = shutdowns + 1
  /\ UNCHANGED << rvars, health, ingress, source, flushes, pub_socket, task,
                  signals, rest >>

FinishClose ==
  /\ Goto("finish_close", "returned")
  /\ ingress' = "closed"
  /\ UNCHANGED << rvars, health, backend, task, signals, rest >>

(* The process ends, or the embedder goes on without the daemon.  Closing  *)
(* the PUB socket waits for its linger time, which may be endless if it is *)
(* negative (external).                                                    *)
Exit ==
  /\ pub_socket = "bound" => config.linger_ms >= 0
  /\ Goto("returned", "exited")
  /\ pub_socket' = IF pub_socket = "bound" THEN "closed" ELSE pub_socket
  /\ UNCHANGED << rvars, health, ingress, source, flushes, shutdowns, task,
                  signals, rest >>
-----------------------------------------------------------------------------
(* What goes on beside it                                                  *)

(* serve_listener: it may be told to stop before it serves, or fail on its *)
(* own address.                                                            *)
ControlStarts ==
  /\ control = "spawned" /\ ~Ended
  /\ control' \in {"ended"} \cup IF stop THEN {} ELSE {"serving"}
  /\ UNCHANGED << rvars, control_flow, health, ingress, backend, stop, signals, rest >>

ControlStops ==
  /\ control = "serving" /\ stop /\ ~Ended
  /\ control' = "ended"
  /\ UNCHANGED << rvars, control_flow, health, ingress, backend, stop, signals, rest >>

(* Time, ingress and queue fill move the health machine. *)
HealthMoves ==
  /\ InLoop
  /\ H!Degrade \/ H!Recover
  /\ UNCHANGED << rvars, control_flow, identity, ingress, backend, task, signals, rest >>

(* SIGINT or SIGTERM.  One without a handler kills the process. *)
Signal(s) ==
  /\ ~Ended
  /\ IF s \in handlers
     THEN signal' = TRUE /\ UNCHANGED control_flow
     ELSE pc' = "killed" /\ UNCHANGED << entry, outcome, signal >>
  /\ UNCHANGED << rvars, health, ingress, backend, task, handlers, rest >>

FileChange ==
  /\ pc = "restore"
  /\ \E p \in SidecarPath \cup HubPath :
       \E x \in Replacements \cap (Contents(p) \cup {NoFile}) : Rewrite(p, x)
  /\ UNCHANGED << control_flow, health, ingress, backend, task, signals, rest >>
-----------------------------------------------------------------------------
(* Whatever the daemon does next by itself. *)
Startup ==
  \/ LoadConfig \/ InstallFilter \/ Restore \/ RestoreInMain \/ OpenPubSocket
  \/ UseStub \/ SupplyPair \/ Construct \/ StartControl \/ InitializeSource
  \/ TakeRestored \/ RestoreInBoot \/ VerifyPair

Running == InstallHandlers \/ BeginTick \/ EndTick \/ BoundedTick \/ BoundedTicksEnd

WayOut ==
  \/ LeaveLoop \/ CloseIngress \/ SendStop \/ JoinControl \/ FlushSink
  \/ ShutdownSource \/ FinishFlush \/ FinishShutdown \/ FinishClose \/ Exit

ControlTask == ControlStarts \/ ControlStops

Next ==
  \/ Startup \/ Running \/ TakeSignal \/ WayOut \/ ControlTask
  \/ HealthMoves \/ FileChange
  \/ \E s \in Signals : Signal(s)

Spec == Init /\ [][Next]_vars

(* Straight-line code goes on; the runtime polls the control task; and the *)
(* random order of select! keeps a ready branch from losing for ever.      *)
Fairness ==
  /\ WF_vars(Startup) /\ WF_vars(EndTick \/ BoundedTick \/ BoundedTicksEnd)
  /\ WF_vars(WayOut) /\ WF_vars(ControlTask) /\ SF_vars(TakeSignal)

FairSpec == Spec /\ Fairness
-----------------------------------------------------------------------------
(* Properties                                                              *)

(* On every way out of run, run_with_restored_network and run_for_ticks,   *)
(* once the daemon exists, the producers are released, the control task    *)
(* has ended, and the sink is flushed and the source shut down; neither    *)
(* hook is ever called twice, as the types say (abort_startup,             *)
(* shutdown_backend, finish_bounded_run).                                  *)
ReleasedOnce ==
  /\ TypeOK
  /\ pc \in {"returned", "exited"} /\ phase # "unstarted" =>
       /\ ingress = "closed" /\ control \in {"none", "ended"}
       /\ flushes = 1 /\ shutdowns = 1

(* A process that calls itself ready has an initialized source, a network  *)
(* that matches its configuration and open queues; readiness is taken back *)
(* before any of it goes.  The exception is run_for_ticks, which ends      *)
(* without a drain: there only the boot is behind the word (run_loop,      *)
(* boot_network).                                                          *)
ReadyIsServing ==
  ready /\ pc # "killed" =>
    /\ source = "initialized" /\ PairMatches(config, restored)
    /\ entry # "run_for_ticks" => InLoop /\ ingress = "open" /\ shutdowns = 0

(* What ticks is what the configuration and health say: the configuration  *)
(* is sound, the network has its dimensions, its identity is the one       *)
(* reported, and unless an embedder supplied it, it is the model on disk   *)
(* or, in simulation, blank (boot_network, restore_network).               *)
TicksValidated ==
  InLoop \/ pc = "bounded" =>
    /\ Sound(config)
    /\ restored.network = Network(config, restored.network.weights)
    /\ identity = IdentityOf(restored.provenance)
    /\ entry # "run_with_restored" =>
         IF config.runtime_mode = "live"
         THEN /\ Fit(config, restored.network.weights)
              /\ identity.digest = restored.network.weights
         ELSE restored.network.weights = BlankWeights

(* The registry holds the services whose last entry is enabled, whatever   *)
(* came before it (from_configs).                                          *)
RegistryIsLastWord ==
  phase # "unstarted" =>
    registry = {n \in {s.name : s \in Range(config.services)} :
                  LastWord(config.services, n)}

(* A start ends: the daemon serves or is gone, also when a step fails with *)
(* the control task running.                                               *)
EveryStartEnds == <>(InLoop \/ Ended)

(* Once a signal is taken by a handler the process ends, however busy the  *)
(* loop is.                                                                *)
SignalStops == signal ~> Ended
=============================================================================
