--------------------------- MODULE RuntimeHarness ---------------------------
(***************************************************************************)
(* The restart and fault-injection contract of runtime/: a session driven  *)
(* through boot, run_tick and shutdown over a durable store, with a fault  *)
(* at any injection point and a restart from the store at any time.        *)
(*                                                                         *)
(* The harness is synchronous (&mut self), so a call is one step; arming   *)
(* the injector before each call lets any one point of that call fire,     *)
(* which is the choice among the actions below.  A real crash is Restart:  *)
(* everything but the store is rebuilt.                                    *)
(*                                                                         *)
(* Packets are their sequence numbers; stimuli, spikes, the fake core and  *)
(* the fake clock are left out, and with them the counters nothing reads   *)
(* (skipped_replays).  `metrics' always equals `published' and             *)
(* incomplete_prior is restart_outcome = "recovered_incomplete" for every  *)
(* boot that is not rejected.                                              *)
(***************************************************************************)
EXTENDS Integers, Sequences, FiniteSets

CONSTANTS
  U64Max,       \* largest session, tick and sequence number: u64::MAX
  MAX_STEPS,    \* ticks per harness instance
  Seeds,        \* durable states a store may be seeded with (from_state);
                \* unfinished ticks are left to the faults
  SourceBound   \* longest scripted source; bounds the model

U64 == 0 .. U64Max

(* InflightRecord, None as the record that names no session. *)
Inflight == [session_id : U64, tick_seq : U64, ingress_seq : U64]
NoInflight == [session_id |-> 0, tick_seq |-> 0, ingress_seq |-> 0]

(* Schema version and checkpoint id are constants of every blob the        *)
(* harness writes; a blob with others is a malformed one.                  *)
DurableState ==
  [last_session_id : U64, committed_tick_seq : U64,
   committed_ingress_seq : U64, inflight : Inflight]

Fresh == [last_session_id |-> 0, committed_tick_seq |-> 0,
          committed_ingress_seq |-> 0, inflight |-> NoInflight]

ValidSession(s) ==
  s.last_session_id = 0 =>
    /\ s.committed_tick_seq = 0
    /\ s.committed_ingress_seq = 0
    /\ s.inflight = NoInflight

ValidInflight(s) ==
  s.inflight # NoInflight =>
    /\ s.committed_tick_seq < U64Max
    /\ s.inflight.tick_seq = s.committed_tick_seq + 1
    /\ s.inflight.session_id = s.last_session_id
    /\ s.inflight.ingress_seq > s.committed_ingress_seq

(* DurableState::validate *)
Validate(s) == ValidSession(s) /\ ValidInflight(s)

ASSUME HarnessAssumption ==
  /\ U64Max \in Nat \ {0}
  /\ MAX_STEPS \in Nat
  /\ Seeds \subseteq DurableState
  /\ \A s \in Seeds : Validate(s) /\ s.inflight = NoInflight
  /\ SourceBound \in Nat

BootFaults == {"before_initialize", "after_initialize",
               "before_checkpoint_validation", "after_checkpoint_validation",
               "malformed_checkpoint"}
IngressFaults == {"before_ingress", "closed_channel", "after_ingress"}
TickFaults == {"before_tick_execute", "core_step_error", "after_tick_execute"}
PublishFaults == {"before_metric_publish", "backpressure_timeout",
                  "after_metric_publish"}
ShutdownFaults == {"before_shutdown", "interrupted_shutdown", "after_shutdown"}
FaultPoint == BootFaults \cup IngressFaults \cup TickFaults \cup PublishFaults
                \cup ShutdownFaults

Health == {"starting", "live", "checkpoint_invalid", "degraded", "faulted",
           "stopped", "incomplete_shutdown"}

(* A closed channel counted as a fault of the process. *)
MutInjectedHealth(point) ==
  CASE point = "malformed_checkpoint" -> "checkpoint_invalid"
    [] point \in {"before_ingress", "after_ingress",
                  "before_metric_publish", "backpressure_timeout"} -> "degraded"
    [] point \in {"before_shutdown", "interrupted_shutdown"}
         -> "incomplete_shutdown"
    [] OTHER -> "faulted"

injected_terminal_health(point) ==
  CASE point = "malformed_checkpoint" -> "checkpoint_invalid"
    [] point \in IngressFaults \cup {"before_metric_publish",
                                     "backpressure_timeout"} -> "degraded"
    [] point \in {"before_shutdown", "interrupted_shutdown"}
         -> "incomplete_shutdown"
    [] OTHER -> "faulted"

(* The oracle's terminal health, and its points whose restart is           *)
(* RecoveredIncomplete (expected_outcome and its helpers).                 *)
expected_health(point) ==
  CASE point \in {"before_initialize", "before_checkpoint_validation",
                  "before_tick_execute"} -> "faulted"
    [] point \in {"before_ingress", "closed_channel", "after_ingress",
                  "before_metric_publish", "backpressure_timeout"}
         -> "degraded"
    [] point \in {"before_shutdown", "interrupted_shutdown"}
         -> "incomplete_shutdown"
    [] point = "malformed_checkpoint" -> "checkpoint_invalid"
    [] point \in {"after_initialize", "after_checkpoint_validation",
                  "after_tick_execute", "core_step_error",
                  "after_metric_publish", "after_shutdown"} -> "faulted"

incomplete_tick == {"before_metric_publish", "after_tick_execute",
                    "core_step_error", "backpressure_timeout"}

VARIABLES
  store,       \* the blob: "empty", "malformed" or "state"
  stored,      \* the state persisted last; the blob's content iff store = "state"
  durable,     \* the process's copy
  source, published, health, session_id, live, live_loop_entered,
  restart_outcome, steps_taken, channel_open,
  log,         \* history: outputs published by all processes so far
  base,        \* history: what the seeded store had committed
  died_of      \* history: the first fault since a checkpoint last validated

disk == << store, stored >>
history == << log, base, died_of >>
vars == << disk, durable, source, published, health, session_id, live,
           live_loop_entered, restart_outcome, steps_taken, channel_open,
           history >>

Output == [session : U64, tick : U64, ingress : U64]

TypeOK ==
  /\ store \in {"empty", "malformed", "state"}
  /\ stored \in DurableState /\ durable \in DurableState
  /\ source \in Seq(U64)
  /\ published \in Seq(Output) /\ log \in Seq(Output)
  /\ base \in [tick : U64, ingress : U64]
  /\ health \in Health
  /\ session_id \in U64
  /\ live \in BOOLEAN /\ live_loop_entered \in BOOLEAN /\ channel_open \in BOOLEAN
  /\ restart_outcome \in {"none", "fresh_start", "recovered_clean",
                          "recovered_incomplete", "rejected_invalid"}
  /\ steps_taken \in 0 .. MAX_STEPS + 1
  /\ died_of \in FaultPoint \cup {"none"}

(* A contiguous script a..b. *)
Script(a, b) == [i \in 1 .. b - a + 1 |-> a + i - 1]

(* HarnessBuilder::build over an empty, a malformed or a seeded store. *)
Init ==
  /\ \/ store \in {"empty", "malformed"} /\ stored = Fresh
     \/ store = "state" /\ stored \in Seeds
  /\ base = [tick |-> stored.committed_tick_seq,
             ingress |-> stored.committed_ingress_seq]
  /\ durable = Fresh
  /\ source = << >> /\ published = << >>
  /\ health = "starting" /\ session_id = 0 /\ restart_outcome = "none"
  /\ live = FALSE /\ live_loop_entered = FALSE /\ channel_open = FALSE
  /\ steps_taken = 0
  /\ log = << >>
  /\ died_of = "none"

(* into_store, then a new harness built over it.  Upstream is              *)
(* at-least-once: its script starts at or before the first uncommitted     *)
(* packet.                                                                 *)
Restart ==
  /\ \E a \in 1 .. stored.committed_ingress_seq + 1 : \E b \in a - 1 .. U64Max :
       b - a < SourceBound /\ source' = Script(a, b)
  /\ durable' = Fresh
  /\ published' = << >>
  /\ health' = "starting" /\ session_id' = 0 /\ restart_outcome' = "none"
  /\ live' = FALSE /\ live_loop_entered' = FALSE /\ channel_open' = FALSE
  /\ steps_taken' = 0
  /\ UNCHANGED << disk, history >>
-----------------------------------------------------------------------------
FirstFault(point) == IF died_of = "none" THEN point ELSE died_of

(* A session that survives its ingress faults. *)
MutFault(point) ==
  /\ health' = injected_terminal_health(point)
  /\ live' = (live /\ point \in IngressFaults)
  /\ died_of' = FirstFault(point)
  /\ UNCHANGED << log, base >>

(* apply_fault, and the record of it. *)
Fault(point) ==
  /\ health' = injected_terminal_health(point)
  /\ live' = FALSE
  /\ died_of' = FirstFault(point)
  /\ UNCHANGED << log, base >>

(* boot: one disjunct per place where it can end. *)

BootFailsInitialize(point) ==
  /\ \/ /\ point = "before_initialize"
        /\ UNCHANGED << channel_open, published >>
     \/ /\ point \in {"after_initialize", "before_checkpoint_validation"}
        /\ channel_open' = TRUE /\ published' = << >>
  /\ Fault(point)
  /\ UNCHANGED << disk, durable, source, session_id, live_loop_entered,
                  restart_outcome, steps_taken >>

BootPoisonsStore ==
  /\ channel_open' = TRUE /\ published' = << >>
  /\ store' = "malformed"
  /\ restart_outcome' = "rejected_invalid"
  /\ Fault("malformed_checkpoint")
  /\ UNCHANGED << stored, durable, source, session_id, live_loop_entered,
                  steps_taken >>

(* reject_checkpoint: the blob does not decode, or its tick or session     *)
(* number is used up.                                                      *)
BootRejects ==
  /\ \/ store = "malformed"
     \/ /\ store = "state"
        /\ \/ stored.committed_tick_seq = U64Max
           \/ stored.last_session_id = U64Max
  /\ channel_open' = TRUE /\ published' = << >>
  /\ health' = "checkpoint_invalid"
  /\ restart_outcome' = "rejected_invalid"
  /\ live' = FALSE
  /\ UNCHANGED << disk, durable, source, session_id, live_loop_entered,
                  steps_taken, history >>

(* persist writes after validating; StoreValid shows that what the harness *)
(* hands it always validates, so its error is never returned.              *)
Persist(next) ==
  /\ store' = "state"
  /\ stored' = next
  /\ durable' = next

(* The marker of an unfinished tick is kept. *)
MutRecovered(s) == [s EXCEPT !.last_session_id = @ + 1]

Recovered(s) ==
  [s EXCEPT !.last_session_id = @ + 1, !.inflight = NoInflight]

(* start_fresh_session or recover_session, then Live or the last fault. *)
BootValidates ==
  /\ \/ /\ store = "empty"
        /\ Persist([Fresh EXCEPT !.last_session_id = 1])
        /\ restart_outcome' = "fresh_start"
     \/ /\ store = "state"
        /\ stored.committed_tick_seq < U64Max
        /\ stored.last_session_id < U64Max
        /\ Persist(Recovered(stored))
        /\ restart_outcome' = IF stored.inflight = NoInflight
                              THEN "recovered_clean"
                              ELSE "recovered_incomplete"
  /\ session_id' = durable'.last_session_id
  /\ channel_open' = TRUE /\ published' = << >>
  /\ \/ /\ health' = "live" /\ live' = TRUE /\ live_loop_entered' = TRUE
        /\ died_of' = "none"
     \/ /\ health' = injected_terminal_health("after_checkpoint_validation")
        /\ live' = FALSE
        /\ died_of' = "after_checkpoint_validation"
        /\ UNCHANGED live_loop_entered
  /\ UNCHANGED << source, steps_taken, log, base >>

Boot ==
  \/ \E point \in BootFaults : BootFailsInitialize(point)
  \/ BootPoisonsStore \/ BootRejects \/ BootValidates
-----------------------------------------------------------------------------
(* run_tick: a tick refused because the loop is not live changes nothing.  *)

session == << session_id, live_loop_entered, restart_outcome >>

TickOverLimit ==
  /\ live /\ steps_taken >= MAX_STEPS
  /\ steps_taken' = MAX_STEPS + 1
  /\ UNCHANGED << disk, durable, source, published, health, session, live,
                  channel_open, history >>

(* begin_tick succeeds. *)
Ticking == live /\ steps_taken < MAX_STEPS /\ steps_taken' = steps_taken + 1

TickFailsIngress(point) ==
  /\ Ticking
  /\ point \in IngressFaults
  /\ source' = IF point = "after_ingress" /\ channel_open /\ source # << >>
               THEN Tail(source) ELSE source
  /\ Fault(point)
  /\ UNCHANGED << disk, durable, published, session, channel_open >>

(* The channel is open and the source hands out its next packet. *)
Fetched(seq) ==
  /\ Ticking /\ channel_open
  /\ source # << >> /\ seq = Head(source) /\ source' = Tail(source)

NoIngress ==
  /\ Ticking /\ channel_open /\ source = << >>
  /\ UNCHANGED << disk, durable, source, published, health, session, live,
                  channel_open, history >>

(* Sequence numbers below the mark only are taken for replays. *)
MutIsReplay(seq) == seq < durable.committed_ingress_seq

IsReplay(seq) == seq <= durable.committed_ingress_seq

SkippedReplay ==
  /\ \E seq \in U64 : Fetched(seq) /\ IsReplay(seq)
  /\ UNCHANGED << disk, durable, published, health, session, live,
                  channel_open, history >>

(* execute_tick up to the marker: a fault before it, or no tick number     *)
(* left, which is no injection point but faults the session as well.       *)
TickFailsUnmarked ==
  /\ \E seq \in U64 : Fetched(seq) /\ ~IsReplay(seq)
  /\ \/ Fault("before_tick_execute")
     \/ /\ durable.committed_tick_seq = U64Max
        /\ health' = "faulted" /\ live' = FALSE
        /\ UNCHANGED history
  /\ UNCHANGED << disk, durable, published, session, channel_open >>

(* The state with the marker of the tick on seq. *)
Marked(seq) ==
  [durable EXCEPT !.inflight =
     [session_id |-> session_id, tick_seq |-> durable.committed_tick_seq + 1,
      ingress_seq |-> seq]]

(* The marker is persisted, then the core, the publisher or its channel    *)
(* fails.                                                                  *)
TickFailsMarked(point) ==
  /\ point \in {"core_step_error", "after_tick_execute",
                "before_metric_publish", "backpressure_timeout"}
  /\ \E seq \in U64 : /\ Fetched(seq) /\ ~IsReplay(seq)
                      /\ durable.committed_tick_seq < U64Max
                      /\ Persist(Marked(seq))
  /\ Fault(point)
  /\ UNCHANGED << published, session, channel_open >>

(* Progress is recorded but the packet's own number is not. *)
MutCommitted(seq) ==
  [durable EXCEPT !.committed_tick_seq = @ + 1, !.inflight = NoInflight]

(* publish_metrics: the marker, persisted by execute_tick just before, is  *)
(* replaced by the committed numbers.  Its closed-channel branch is dead:  *)
(* ingress refused a closed channel earlier in the same call.              *)
Committed(seq) ==
  [durable EXCEPT !.committed_tick_seq = @ + 1,
                  !.committed_ingress_seq = seq,
                  !.inflight = NoInflight]

TickPublishes ==
  /\ \E seq \in U64 :
       LET output == [session |-> session_id,
                      tick |-> durable.committed_tick_seq + 1,
                      ingress |-> seq]
       IN /\ Fetched(seq) /\ ~IsReplay(seq)
          /\ durable.committed_tick_seq < U64Max
          /\ Persist(Committed(seq))
          /\ published' = Append(published, output)
          /\ log' = Append(log, output)
  /\ \/ UNCHANGED << health, live, died_of >>
     \/ /\ health' = injected_terminal_health("after_metric_publish")
        /\ live' = FALSE
        /\ died_of' = FirstFault("after_metric_publish")
  /\ UNCHANGED << session, channel_open, base >>

RunTick ==
  \/ TickOverLimit \/ NoIngress \/ SkippedReplay \/ TickFailsUnmarked
  \/ \E point \in FaultPoint : TickFailsIngress(point) \/ TickFailsMarked(point)
  \/ TickPublishes
-----------------------------------------------------------------------------
Shutdown ==
  /\ \/ \E point \in {"before_shutdown", "interrupted_shutdown"} :
          Fault(point) /\ UNCHANGED channel_open
     \/ Fault("after_shutdown") /\ channel_open' = FALSE
     \/ /\ health' = "stopped" /\ live' = FALSE /\ channel_open' = FALSE
        /\ UNCHANGED history
  /\ UNCHANGED << disk, durable, source, published, session, steps_taken >>

(* The highest number upstream has sent or the session has committed. *)
Highest == LET S == {source[i] : i \in DOMAIN source}
                      \cup {durable.committed_ingress_seq}
           IN CHOOSE n \in S : \A m \in S : n >= m

(* push_ingress: upstream sends its next packet, or any earlier one again. *)
PushIngress ==
  /\ Len(source) < SourceBound
  /\ \E seq \in 0 .. Highest + 1 : seq <= U64Max /\ source' = Append(source, seq)
  /\ UNCHANGED << disk, durable, published, health, session, live,
                  steps_taken, channel_open, history >>

(* push_ingress_front: a replay, or a retry of the packet just consumed. *)
PushIngressFront ==
  /\ Len(source) < SourceBound
  /\ \E seq \in 0 .. durable.committed_ingress_seq + 1 :
       seq <= U64Max /\ source' = << seq >> \o source
  /\ UNCHANGED << disk, durable, published, health, session, live,
                  steps_taken, channel_open, history >>

Next == Restart \/ Boot \/ RunTick \/ Shutdown \/ PushIngress \/ PushIngressFront

Spec == Init /\ [][Next]_vars
-----------------------------------------------------------------------------
(* Properties                                                              *)

(* What is in the store always passes the validation the next boot will    *)
(* apply to it, so that only an injected corruption or an exhausted number *)
(* makes a store unbootable, and a live session's copy is what is stored   *)
(* (execute_tick, publish_metrics, recover_session; DurableState::validate).*)
StoreValid ==
  /\ store = "state" => Validate(stored)
  /\ live => /\ store = "state" /\ durable = stored
             /\ session_id = stored.last_session_id
             /\ stored.inflight = NoInflight
             /\ channel_open /\ health = "live"

LogOrdered ==
  /\ \A i \in 1 .. Len(log) : log[i].tick = base.tick + i
  /\ \A i, j \in 1 .. Len(log) :
       i < j => log[i].ingress < log[j].ingress /\ log[i].session <= log[j].session

MarksAgree ==
  /\ stored.committed_tick_seq = base.tick + Len(log)
  /\ stored.committed_ingress_seq =
       IF log = << >> THEN base.ingress ELSE log[Len(log)].ingress

OwnOutputs ==
  /\ Len(published) <= Len(log)
  /\ \A i \in 1 .. Len(published) :
       /\ published[i] = log[Len(log) - Len(published) + i]
       /\ published[i].session = session_id

(* The store and the outputs agree across any sequence of faults and       *)
(* restarts: ticks are numbered without gap or repetition, no packet is    *)
(* published twice, the store's marks are those of the last output, and a  *)
(* process reports its own session's outputs and all of them               *)
(* (publish_metrics; the replay check of run_tick).                        *)
Agreement == LogOrdered /\ MarksAgree /\ OwnOutputs

(* An unfinished tick is on disk exactly when the last session that        *)
(* validated died of one of the oracle's incomplete-tick faults: the next  *)
(* boot reports RecoveredIncomplete for those and for no other, whatever   *)
(* failed boots and shutdowns come in between (execute_tick,               *)
(* publish_metrics, expected_outcome).                                     *)
InflightMatchesFault ==
  stored.inflight # NoInflight <=> died_of \in incomplete_tick

(* Session numbers grow: a boot that validates gets one above every        *)
(* session seen so far, and no call moves the stored one back              *)
(* (recover_session).                                                      *)
SessionsGrow ==
  [][/\ stored'.last_session_id >= stored.last_session_id
     /\ live' /\ ~live => /\ session_id' > stored.last_session_id
                          /\ \A i \in 1 .. Len(log) :
                               log[i].session < session_id']_vars

(* A fault leaves the health the oracle expects of its point               *)
(* (injected_terminal_health against expected_outcome).                    *)
FaultHealth ==
  [][died_of' # died_of /\ died_of' # "none" =>
       health' = expected_health(died_of')]_vars

(* The contract across restarts. *)
Contract == INSTANCE CommitLog WITH
              Number <- U64,
              session <- stored.last_session_id,
              pending <- stored.inflight.ingress_seq
ImplementsContract == Contract!LSpec
=============================================================================
