----------------------------- MODULE ZmqBackend -----------------------------
(***************************************************************************)
(* The ZMQ backend of backend.rs (zmq_impl) with the frame validation of   *)
(* ingress/corpus.rs, as a tick uses it: next_ingress drains the SUB       *)
(* socket frame by frame while the publisher goes on publishing and time   *)
(* passes, the health machine is told of the packet (observes_ingress),    *)
(* and the tick's spikes are emitted on the PUB socket.                    *)
(*                                                                         *)
(* Frames are numbered as they are published; a number stands for a        *)
(* frame's payload.  What corpus-ipc decodes and validates, and ZeroMQ's   *)
(* queue and its high-water mark, are external.                            *)
(***************************************************************************)
EXTENDS Integers, Sequences, FiniteSets, Functions

CONSTANTS
  MAX_DRAIN_PER_TICK,
  RcvHwm,          \* receive high-water mark of the SUB socket
  Channels,        \* expected width; 0 is unspecified
  MaxAge,          \* freshness window, in units of Elapse
  Frames,          \* frames the publisher may send: a subset of Frame
  SendEmpty,       \* spine_pub_send_empty_batches
  StaleAfter,      \* of HealthMachine
  MaxFrames, MaxTicks   \* frames published, ticks begun; bound the model

(* A JSON IpcMessage: kind is its variant, "garbage" when it does not      *)
(* decode.  finite is about modulators; valid (StimulusBatch::validate),   *)
(* schema, width and age about stimuli.  The age is that of the timestamp; *)
(* below zero it is in the future.  (An empty batch passes only the        *)
(* unspecified-width source, which the daemon does not build.)             *)
Age == -1 .. MaxAge + 1
Frame == [kind : {"stimuli", "modulators", "other", "garbage"},
          finite : BOOLEAN, valid : BOOLEAN, schema : BOOLEAN, width : Nat \ {0},
          age : Age]

ASSUME ZmqAssumption ==
  /\ RcvHwm \in Nat /\ MAX_DRAIN_PER_TICK \in Nat
  /\ RcvHwm <= MAX_DRAIN_PER_TICK    \* 16 and 32 in the code
  /\ Channels \in Nat /\ MaxAge \in Nat /\ StaleAfter \in Nat
  /\ Frames \subseteq Frame
  /\ SendEmpty \in BOOLEAN
  /\ MaxFrames \in Nat /\ MaxTicks \in Nat

(* reject_stale_or_future *)
Fresh(f) == 0 <= f.age /\ f.age <= MaxAge

(* accept_ipc_message and accept_stimulus_batch, and of modulators that    *)
(* they may be held (hold_modulators).                                     *)
Verdict(f) ==
  CASE f.kind = "modulators" -> IF f.finite THEN "modulation" ELSE "rejected"
    [] f.kind = "stimuli" ->
         IF f.valid /\ f.schema /\ Channels \in {0, f.width} /\ Fresh(f)
         THEN "batch" ELSE "rejected"
    [] OTHER -> "rejected"

(* IngressPacket: the numbers of the frames its parts come from, 0 for an  *)
(* empty part.                                                             *)
Packet == [stimuli : Nat, modulators : Nat, rejected : BOOLEAN]
Nothing == [stimuli |-> 0, modulators |-> 0, rejected |-> FALSE]

VARIABLES
  pc,              \* where the tick is
  \* ZmqStimulusSource and its socket
  connected, last_modulators,
  queue,           \* received and not consumed: frames with their numbers
  drained,         \* frames consumed by this call
  packet,          \* what the call returned
  \* ZmqSpikeSink
  stats, accepted, \* SinkSendStats; history: emit calls that returned Ok
  \* HealthMachine
  checkpoint_at, last_ingress,
  \* history
  published,       \* number of the last frame published
  ticks,           \* ticks begun
  consumed,        \* numbers and verdicts of the frames consumed, in order
  lost,            \* frames that never reached the queue
  delivered,       \* stimuli returned so far, in order
  flagged,         \* packets returned with the rejected flag
  pending          \* stimuli frames queued when the call began

source == << connected, last_modulators, queue, drained, packet >>
sink == << stats, accepted >>
health == << checkpoint_at, last_ingress >>
history == << published, ticks, consumed, lost, delivered, flagged, pending >>
vars == << pc, source, sink, health, history >>

(* The daemon's health machine once the network is booted. *)
HM == INSTANCE HealthMachine WITH
        Watermarks <- {}, NonFinite <- "NaN", Identities <- {"id"},
        NoCheckpoint <- "none", Samples <- {}, Counter <- {}, MaxCount <- 0,
        limits <- [high |-> 90, low |-> 70], started <- TRUE,
        initialized <- TRUE, checkpoint_ok <- TRUE, draining <- FALSE,
        fatal <- "none", checkpoint <- "id", last_tick <- -1,
        queue_depth <- 0, queue_capacity <- 0, overloaded <- FALSE,
        counters <- << >>

Number == 1 .. MaxFrames
Entry == [n : Number, frame : Frame]
Judgement == [n : Number, verdict : {"batch", "modulation", "rejected"}]

TypeOK ==
  /\ pc \in {"idle", "receive", "observe", "emit"}
  /\ connected \in BOOLEAN
  /\ last_modulators \in {0} \cup Number
  /\ queue \in Seq(Entry) /\ Len(queue) <= RcvHwm
  /\ drained \in 0 .. MAX_DRAIN_PER_TICK
  /\ packet \in Packet
  /\ stats \in [attempted : Nat, suppressed : Nat, failed : Nat]
  /\ accepted \in Nat
  /\ checkpoint_at \in HM!Age /\ last_ingress \in HM!Age
  /\ published \in 0 .. MaxFrames /\ ticks \in 0 .. MaxTicks
  /\ consumed \in Seq(Judgement) /\ lost \subseteq Number
  /\ delivered \in Seq(Number) /\ flagged \in Nat /\ pending \subseteq Number

Init ==
  /\ pc = "idle"
  /\ connected = FALSE /\ last_modulators = 0 /\ queue = << >> /\ drained = 0
  /\ packet = Nothing
  /\ stats = [attempted |-> 0, suppressed |-> 0, failed |-> 0] /\ accepted = 0
  /\ checkpoint_at = 0 /\ last_ingress = HM!Never
  /\ published = 0 /\ ticks = 0 /\ consumed = << >> /\ lost = {}
  /\ delivered = << >> /\ flagged = 0 /\ pending = {}
-----------------------------------------------------------------------------
(* The wire (external) and the clock                                       *)

(* A subscriber that is not connected or whose queue is full misses it. *)
Publish(f) ==
  /\ published < MaxFrames
  /\ published' = published + 1
  /\ IF connected /\ Len(queue) < RcvHwm
     THEN /\ queue' = Append(queue, [n |-> published', frame |-> f])
          /\ UNCHANGED lost
     ELSE /\ lost' = lost \cup {published'}
          /\ UNCHANGED queue
  /\ UNCHANGED << pc, connected, last_modulators, drained, packet, sink, health,
                  ticks, consumed, delivered, flagged, pending >>

Older(f) == IF f.age = MaxAge + 1 THEN f ELSE [f EXCEPT !.age = @ + 1]

Elapse ==
  /\ queue' = [i \in 1 .. Len(queue) |->
                 [queue[i] EXCEPT !.frame = Older(queue[i].frame)]]
  /\ checkpoint_at' = HM!Older(checkpoint_at)
  /\ last_ingress' = HM!Older(last_ingress)
  /\ UNCHANGED << pc, connected, last_modulators, drained, packet, sink, history >>
-----------------------------------------------------------------------------
(* The source                                                              *)

(* Every call connects a new socket. *)
MutInitialize ==
  /\ pc = "idle"
  /\ connected' = TRUE
  /\ queue' = << >>
  /\ UNCHANGED << pc, last_modulators, drained, packet, sink, health, history >>

(* initialize: idempotent, so a second call is a stuttering step; connect  *)
(* may fail and then leaves the source without a socket.                   *)
Initialize ==
  /\ pc = "idle" /\ ~connected
  /\ connected' = TRUE
  /\ UNCHANGED << pc, last_modulators, queue, drained, packet, sink, health,
                  history >>

StimuliQueued == {queue[i].n : i \in {j \in 1 .. Len(queue) :
                                        queue[j].frame.kind = "stimuli"}}

BeginTick ==
  /\ pc = "idle" /\ ticks < MaxTicks
  /\ ticks' = ticks + 1
  /\ pc' = "receive"
  /\ drained' = 0 /\ packet' = Nothing
  /\ pending' = StimuliQueued
  /\ UNCHANGED << connected, last_modulators, queue, sink, health, published,
                  consumed, lost, delivered, flagged >>

(* next_ingress returns p to the tick. *)
Return(p) ==
  /\ pc' = "observe"
  /\ packet' = p
  /\ delivered' = IF p.stimuli = 0 THEN delivered ELSE Append(delivered, p.stimuli)
  /\ flagged' = IF p.rejected THEN flagged + 1 ELSE flagged
  /\ UNCHANGED << connected, sink, health, published, ticks, lost, pending >>

(* skip_ingress: a packet that carries only the held modulators.  The None *)
(* of a source that holds none is a packet with nothing in it.             *)
Skip(held, is_rejected) ==
  [stimuli |-> 0, modulators |-> held, rejected |-> is_rejected]

Receiving == pc = "receive" /\ connected /\ drained < MAX_DRAIN_PER_TICK

NextFrame == Head(queue)
Consume ==
  /\ Receiving /\ queue # << >>
  /\ queue' = Tail(queue)
  /\ consumed' = Append(consumed, [n |-> NextFrame.n, verdict |-> Verdict(NextFrame.frame)])
  /\ drained' = drained + 1

(* A modulation-only frame ends the call. *)
MutReceiveModulation ==
  /\ Consume /\ Verdict(NextFrame.frame) = "modulation"
  /\ last_modulators' = NextFrame.n
  /\ Return(Skip(NextFrame.n, FALSE))

(* Held, and the call goes on. *)
ReceiveModulation ==
  /\ Consume /\ Verdict(NextFrame.frame) = "modulation"
  /\ last_modulators' = NextFrame.n
  /\ UNCHANGED << pc, connected, packet, sink, health, published, ticks, lost,
                  delivered, flagged, pending >>

(* attach_held_modulators *)
ReceiveBatch ==
  /\ Consume /\ Verdict(NextFrame.frame) = "batch"
  /\ UNCHANGED last_modulators
  /\ Return([stimuli |-> NextFrame.n, modulators |-> last_modulators,
             rejected |-> FALSE])

(* An invalid modulators frame is held before it is looked at. *)
MutReceiveInvalid ==
  /\ Consume /\ Verdict(NextFrame.frame) = "rejected"
  /\ last_modulators' = IF NextFrame.frame.kind = "modulators" THEN NextFrame.n
                        ELSE last_modulators
  /\ Return(Skip(last_modulators', TRUE))

ReceiveInvalid ==
  /\ Consume /\ Verdict(NextFrame.frame) = "rejected"
  /\ UNCHANGED last_modulators
  /\ Return(Skip(last_modulators, TRUE))

(* EAGAIN, or the cap on frames per call. *)
ReceiveEnds ==
  /\ pc = "receive" /\ connected
  /\ queue = << >> \/ drained = MAX_DRAIN_PER_TICK
  /\ UNCHANGED << last_modulators, queue, drained, consumed >>
  /\ Return(Skip(last_modulators, FALSE))

(* No socket, or recv failed: the call returns an error and the tick goes  *)
(* on without a packet.                                                    *)
ReceiveFails ==
  /\ pc = "receive"
  /\ pc' = "emit"
  /\ UNCHANGED << source, sink, health, history >>

Receive == ReceiveModulation \/ ReceiveBatch \/ ReceiveInvalid \/ ReceiveEnds
             \/ ReceiveFails

(* packet_carries_input; what this source returns is always finite. *)
CarriesInput(p) == p.stimuli # 0 \/ p.modulators # 0

(* run_tick: IngressObserved, which sets the time of the last ingress, if   *)
(* there is input.                                                         *)
Observe ==
  /\ pc = "observe" /\ pc' = "emit"
  /\ last_ingress' = IF CarriesInput(packet) THEN 0 ELSE last_ingress
  /\ UNCHANGED << source, sink, checkpoint_at, history >>
-----------------------------------------------------------------------------
(* The sink                                                                *)

EndTick ==
  /\ pc = "emit" /\ pc' = "idle"
  /\ UNCHANGED << source, health, history >>

(* Nothing to emit, or serialization or the socket's mutex failed.  *)
EmitNothing == EndTick /\ UNCHANGED sink

(* An empty batch under the policy that withholds them. *)
EmitSuppressed ==
  /\ EndTick /\ ~SendEmpty
  /\ stats' = [stats EXCEPT !.suppressed = @ + 1]
  /\ accepted' = accepted + 1

EmitSent ==
  /\ EndTick
  /\ stats' = [stats EXCEPT !.attempted = @ + 1]
  /\ accepted' = accepted + 1

(* A failed send that is not an attempt. *)
MutEmitFails ==
  /\ EndTick
  /\ stats' = [stats EXCEPT !.failed = @ + 1]
  /\ UNCHANGED accepted

EmitFails ==
  /\ EndTick
  /\ stats' = [stats EXCEPT !.attempted = @ + 1, !.failed = @ + 1]
  /\ UNCHANGED accepted

Emit == EmitNothing \/ EmitSuppressed \/ EmitSent \/ EmitFails
-----------------------------------------------------------------------------
Next ==
  \/ \E f \in Frames : Publish(f)
  \/ Elapse \/ Initialize \/ BeginTick \/ Receive \/ Observe \/ Emit

Spec == Init /\ [][Next]_vars
-----------------------------------------------------------------------------
(* Properties                                                              *)

(* The frames consumed with verdict v. *)
Judged(v) == {consumed[i].n : i \in {j \in 1 .. Len(consumed) :
                                        consumed[j].verdict = v}}

(* The numbers of all frames that ever reached the queue, oldest first. *)
Arrived == [i \in 1 .. Len(consumed) + Len(queue) |->
              IF i <= Len(consumed) THEN consumed[i].n
              ELSE queue[i - Len(consumed)].n]

(* Every frame that reaches the queue is consumed once, in order, and has  *)
(* its effect in the call that consumed it: a good batch is returned, an   *)
(* invalid frame flags exactly one packet, and nothing else leaves the     *)
(* queue, not even when initialize is called again (next_ingress,          *)
(* initialize).  The queue and the drain stay within their limits, which   *)
(* are part of the types.                                                  *)
EveryFrameOnce ==
  /\ TypeOK
  /\ \A i \in 1 .. Len(Arrived) - 1 : Arrived[i] < Arrived[i + 1]
  /\ Range(Arrived) = (1 .. published) \ lost
  /\ \A i \in 1 .. Len(delivered) - 1 : delivered[i] < delivered[i + 1]
  /\ Range(delivered) = Judged("batch")
  /\ flagged = Cardinality(Judged("rejected"))

(* The modulators held, and attached to whatever the source returns, are   *)
(* those of the newest acceptable modulation consumed: a rejected one      *)
(* never replaces them and an older one never comes back (hold_modulators, *)
(* attach_held_modulators, skip_ingress).                                  *)
HeldAreNewest ==
  /\ last_modulators \in {0} \cup Judged("modulation")
  /\ \A n \in Judged("modulation") : n <= last_modulators
  /\ pc \in {"observe", "emit"} /\ packet # Nothing =>
       packet.modulators = last_modulators

(* Modulation frames never cost a sensory period (README): a stimulus      *)
(* queued when the tick begins is in the packet that tick gets, unless an  *)
(* invalid frame came before it; the cap is beyond the queue's high-water  *)
(* mark (the loop of next_ingress).                                        *)
QueuedStimulusServed ==
  pc = "observe" /\ pending # {} => packet.stimuli \in pending \/ packet.rejected

(* Attempts minus failures, and the batches withheld, are exactly the      *)
(* calls that reported success (ZmqSpikeSink::stats, emit).                *)
SinkAccounts ==
  accepted = stats.suppressed + stats.attempted - stats.failed

(* docs/health.md: "Ticks without ingress do **not** clear stale".         *)
StaleNeedsFrame ==
  [][HM!Stale /\ ~HM!Stale' => drained > 0]_vars
=============================================================================
