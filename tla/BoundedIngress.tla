--------------------------- MODULE BoundedIngress ---------------------------
(***************************************************************************)
(* The four bounded class queues of ingress/mod.rs with the threads that   *)
(* share them: producers inside enqueue / try_enqueue, the tick loop       *)
(* inside drain_for_tick, any holder of a handle calling pop, and one      *)
(* caller of shutdown.                                                     *)
(*                                                                         *)
(* Grain of atomicity: a step is one critical section of one queue's       *)
(* Mutex, one load or store of the shared `shutting_down' flag, or one     *)
(* scheduling event (a deadline passes, a waiter's timer fires).  The      *)
(* condition variable not_full is the set of producers in pc "parked";     *)
(* not_empty has no waiters in this code and is left out.                  *)
(***************************************************************************)
EXTENDS BoundedQueue, FiniteSets

CONSTANTS Producers,   \* producer threads
          Policy,      \* class -> overflow policy (IngressConfig::policy)
          Capacity,    \* class -> configured capacity (IngressConfig::capacity)
          ZeroTimeout, \* TRUE iff block_timeout_ms = 0
          CallBound,   \* class -> calls made on it; bounds the model
          TotalBound,  \* calls made on all of them; bounds the model
          WaitBound    \* waits of a class after which none ends spuriously;
                       \* bounds the model

(* MessageClass, in the order of its index(): the order shutdown closes in. *)
CloseOrder == << "sensory", "reward", "control", "telemetry" >>
Class == {"sensory", "reward", "control", "telemetry"}

(* The reward queue is popped a second time in place of the sensory one. *)
MutDrainOrder == << "control", "reward", "reward", "telemetry" >>

(* The order in which drain_for_tick visits the queues. *)
DrainOrder == << "control", "reward", "sensory", "telemetry" >>

(* IngressConfig::validate, and what the bound may be. *)
ASSUME IngressAssumption ==
  /\ Producers # {} /\ IsFiniteSet(Producers)
  /\ Policy \in [Class -> Policies]
  /\ Capacity \in [Class -> Nat \ {0}]
  /\ ZeroTimeout \in BOOLEAN
  /\ CallBound \in [Class -> Nat] /\ TotalBound \in Nat
  /\ WaitBound \in Nat

VARIABLES
  q,             \* q[c]: the QueueState of class c
  closed,        \* the classes whose QueueState.closed is set
  thr,           \* thr[p]: where producer p is in its call
  shutting_down, \* IngressShared.shutting_down
  closeAt,       \* next queue shutdown() closes: 0 before the call, 5 after
  drainAt,       \* next queue drain_for_tick visits, 1..4
  attempts       \* history: calls started per class

vars == << q, closed, thr, shutting_down, closeAt, drainAt, attempts >>

Cap(c) == EffectiveCapacity(Policy[c], Capacity[c])

Full(c) == Depth(q[c]) >= Cap(c)

(* A call is described by its class, whether the payload respects          *)
(* max_payload_len, and its deadline: none (try_enqueue, or a zero         *)
(* timeout), still ahead, or passed.                                       *)
Pc == {"idle", "refuse", "push", "parked", "woken", "timed_out"}
Call == [pc : Pc, class : Class, payload : {"fits", "oversize"},
         deadline : {"none", "ahead", "passed"}]
Idle == [pc |-> "idle", class |-> "sensory", payload |-> "fits",
         deadline |-> "none"]

TypeOK ==
  /\ q \in [Class -> QueueState]
  /\ closed \subseteq Class
  /\ thr \in [Producers -> Call]
  /\ shutting_down \in BOOLEAN
  /\ closeAt \in 0 .. 5
  /\ drainAt \in 1 .. 4
  /\ attempts \in [Class -> Nat]

Init ==
  /\ q = [c \in Class |-> NewQueue]
  /\ closed = {}
  /\ thr = [p \in Producers |-> Idle]
  /\ shutting_down = FALSE
  /\ closeAt = 0
  /\ drainAt = 1
  /\ attempts = [c \in Class |-> 0]
-----------------------------------------------------------------------------
(* BoundedIngress::push and BoundedQueue::push                             *)

Calls == attempts["sensory"] + attempts["reward"] + attempts["control"]
           + attempts["telemetry"]

(* The call starts: the flag is loaded and decides which path is taken;    *)
(* the queue's lock is taken only in a later step.  A deadline is recorded *)
(* only where some path reads it: the payload fits and the class blocks.   *)
StartCall(p) ==
  /\ thr[p].pc = "idle"
  /\ \E c \in Class, payload \in {"fits", "oversize"}, honor \in BOOLEAN :
       /\ attempts[c] < CallBound[c] /\ Calls < TotalBound
       /\ attempts' = [attempts EXCEPT ![c] = @ + 1]
       /\ thr' = [thr EXCEPT ![p] =
            [pc |-> IF shutting_down THEN "refuse" ELSE "push",
             class |-> c, payload |-> payload,
             deadline |-> IF /\ honor /\ ~ZeroTimeout /\ payload = "fits"
                             /\ Policy[c] = "block_timeout"
                          THEN "ahead" ELSE "none"]]
  /\ UNCHANGED << q, closed, shutting_down, closeAt, drainAt >>

(* p returns and the queue of its class becomes s. *)
Return(p, s) ==
  /\ q' = [q EXCEPT ![thr[p].class] = s]
  /\ thr' = [thr EXCEPT ![p] = Idle]
  /\ UNCHANGED << closed, shutting_down, closeAt, drainAt, attempts >>

(* refuse_closed: the flag was already set when the call loaded it. *)
RefuseClosed(p) ==
  /\ thr[p].pc = "refuse"
  /\ Return(p, RefuseShutdown(q[thr[p].class]))

(* p holds the lock at the head of push's loop: for the first time, or     *)
(* back from a wait that was notified or timed out.                        *)
AtLoop(p) == thr[p].pc \in {"push", "woken", "timed_out"}

(* Only the shared flag is looked at, not the queue's own `closed'. *)
MutOpenFor(p) == AtLoop(p)

OpenFor(p) == AtLoop(p) /\ thr[p].class \notin closed

FullFor(p, policy) ==
  /\ OpenFor(p) /\ thr[p].payload = "fits"
  /\ Policy[thr[p].class] = policy
  /\ Full(thr[p].class)

PushOnClosed(p) ==
  /\ AtLoop(p) /\ thr[p].class \in closed
  /\ Return(p, RefuseShutdown(q[thr[p].class]))

PushOversize(p) ==
  /\ OpenFor(p) /\ thr[p].payload = "oversize"
  /\ Return(p, Refuse(q[thr[p].class]))

PushCoalescing(p) ==
  /\ OpenFor(p) /\ thr[p].payload = "fits"
  /\ Policy[thr[p].class] = "coalesce"
  /\ Return(p, PushCoalesce(q[thr[p].class]))

PushWithRoom(p) ==
  /\ OpenFor(p) /\ thr[p].payload = "fits"
  /\ Policy[thr[p].class] # "coalesce" /\ ~Full(thr[p].class)
  /\ Return(p, PushFree(q[thr[p].class]))

PushFullReject(p) ==
  /\ FullFor(p, "reject")
  /\ Return(p, Refuse(q[thr[p].class]))

PushFullDropOldest(p) ==
  /\ FullFor(p, "drop_oldest")
  /\ Return(p, DropOldestAndPush(q[thr[p].class]))

(* wait_for_slot with nothing left to wait: no deadline, a deadline that   *)
(* has passed, or a wait that just timed out on a full queue.              *)
PushFullExpired(p) ==
  /\ FullFor(p, "block_timeout")
  /\ thr[p].deadline # "ahead"
  /\ Return(p, Refuse(q[thr[p].class]))

(* A call without a deadline waits for a slot as well. *)
MutPushFullWait(p) ==
  /\ FullFor(p, "block_timeout")
  /\ thr[p].deadline # "passed"
  /\ q' = [q EXCEPT ![thr[p].class] = CountWait(@)]
  /\ thr' = [thr EXCEPT ![p].pc = "parked"]
  /\ UNCHANGED << closed, shutting_down, closeAt, drainAt, attempts >>

(* wait_for_slot: count the wait and release the lock until woken. *)
PushFullWait(p) ==
  /\ FullFor(p, "block_timeout")
  /\ thr[p].deadline = "ahead"
  /\ q' = [q EXCEPT ![thr[p].class] = CountWait(@)]
  /\ thr' = [thr EXCEPT ![p].pc = "parked"]
  /\ UNCHANGED << closed, shutting_down, closeAt, drainAt, attempts >>

LockedPush(p) ==
  \/ PushOnClosed(p) \/ PushOversize(p) \/ PushCoalescing(p)
  \/ PushWithRoom(p) \/ PushFullReject(p) \/ PushFullDropOldest(p)
  \/ PushFullExpired(p) \/ PushFullWait(p)

(* Time reaches the deadline of a call in progress. *)
DeadlinePasses(p) ==
  /\ thr[p].pc # "idle" /\ thr[p].deadline = "ahead"
  /\ thr' = [thr EXCEPT ![p].deadline = "passed"]
  /\ UNCHANGED << q, closed, shutting_down, closeAt, drainAt, attempts >>

(* Condvar::wait_timeout gives up: only once the deadline has passed. *)
WaitTimesOut(p) ==
  /\ thr[p].pc = "parked" /\ thr[p].deadline = "passed"
  /\ thr' = [thr EXCEPT ![p].pc = "timed_out"]
  /\ UNCHANGED << q, closed, shutting_down, closeAt, drainAt, attempts >>

(* Condvar::wait_timeout may also return without a notification. *)
SpuriousWake(p) ==
  /\ thr[p].pc = "parked" /\ q[thr[p].class].producer_waits < WaitBound
  /\ thr' = [thr EXCEPT ![p].pc = "woken"]
  /\ UNCHANGED << q, closed, shutting_down, closeAt, drainAt, attempts >>
-----------------------------------------------------------------------------
(* Condvar notifications on not_full of class c                            *)

InClass(c, pc) == {p \in Producers : thr[p].class = c /\ thr[p].pc = pc}
Parked(c) == InClass(c, "parked")

Wake(S) == [p \in Producers |->
              IF p \in S THEN [thr[p] EXCEPT !.pc = "woken"] ELSE thr[p]]

NotifyOne(c) ==
  \/ Parked(c) = {} /\ thr' = thr
  \/ \E p \in Parked(c) : thr' = Wake({p})

NotifyAll(c) == thr' = Wake(Parked(c))
-----------------------------------------------------------------------------
(* Consumers                                                               *)

(* BoundedQueue::pop: an empty queue returns before the notification. *)
PopOne(c) ==
  /\ q' = [q EXCEPT ![c] = Pop(@)]
  /\ IF q[c].items = << >> THEN thr' = thr ELSE NotifyOne(c)

(* Draining several packets but waking one waiter only. *)
MutTakeAll(c) ==
  /\ q' = [q EXCEPT ![c] = DrainAll(@)]
  /\ IF q[c].items = << >> THEN thr' = thr ELSE NotifyOne(c)

(* BoundedQueue::drain_all *)
TakeAll(c) ==
  /\ q' = [q EXCEPT ![c] = DrainAll(@)]
  /\ IF q[c].items = << >> THEN thr' = thr ELSE NotifyAll(c)

(* drain_for_tick, one queue per step: other threads run in between. *)
DrainStep ==
  LET c == DrainOrder[drainAt]
  IN /\ IF c \in {"control", "telemetry"} THEN TakeAll(c) ELSE PopOne(c)
     /\ drainAt' = IF drainAt = 4 THEN 1 ELSE drainAt + 1
     /\ UNCHANGED << closed, shutting_down, closeAt, attempts >>

(* BoundedIngress::pop, from any holder of a handle. *)
HandlePop(c) ==
  /\ PopOne(c)
  /\ UNCHANGED << closed, shutting_down, closeAt, drainAt, attempts >>
-----------------------------------------------------------------------------
(* BoundedIngress::shutdown: the flag, then one queue per step.            *)

ShutdownFlag ==
  /\ closeAt = 0
  /\ shutting_down' = TRUE
  /\ closeAt' = 1
  /\ UNCHANGED << q, closed, thr, drainAt, attempts >>

CloseNext ==
  /\ closeAt \in 1 .. 4
  /\ closed' = closed \cup {CloseOrder[closeAt]}
  /\ NotifyAll(CloseOrder[closeAt])
  /\ closeAt' = closeAt + 1
  /\ UNCHANGED << q, shutting_down, drainAt, attempts >>
-----------------------------------------------------------------------------
ProducerStep(p) ==
  \/ StartCall(p) \/ RefuseClosed(p) \/ LockedPush(p)
  \/ DeadlinePasses(p) \/ WaitTimesOut(p) \/ SpuriousWake(p)

Next ==
  \/ \E p \in Producers : ProducerStep(p)
  \/ DrainStep
  \/ \E c \in Class : HandlePop(c)
  \/ ShutdownFlag
  \/ CloseNext

Spec == Init /\ [][Next]_vars

(* A thread inside a call is run and clocks advance.  Nothing obliges a    *)
(* producer to call, a handle to pop, a wait to end spuriously, or anybody *)
(* to shut the ingress down; once begun, a shutdown continues.  The        *)
(* consumer may stall.                                                     *)
Fairness ==
  /\ \A p \in Producers : /\ WF_vars(RefuseClosed(p))
                          /\ WF_vars(LockedPush(p))
                          /\ WF_vars(DeadlinePasses(p))
                          /\ WF_vars(WaitTimesOut(p))
  /\ WF_vars(CloseNext)

FairSpec == Spec /\ Fairness
-----------------------------------------------------------------------------
(* Properties                                                              *)

InFlight(c) == {p \in Producers : thr[p].class = c /\ thr[p].pc # "idle"}

(* No packet is unaccounted for: what a class accepted is delivered, still *)
(* queued, evicted or coalesced away, and every call that has returned is  *)
(* counted in exactly one outcome counter (the identity the overload tests *)
(* assert with a stalled consumer; queue.rs push and its helpers).         *)
Accounting ==
  \A c \in Class :
    /\ q[c].accepted = q[c].delivered + Depth(q[c]) + q[c].dropped
                         + q[c].coalesced
    /\ attempts[c] = q[c].accepted + q[c].rejected + q[c].shutdown_refused
                       + Cardinality(InFlight(c))

(* A queue is a window on its accepted packets: it holds the most recently *)
(* accepted ones, contiguous and in order, so delivery is first in first   *)
(* out and a coalescing queue always holds the latest (push_free,          *)
(* push_coalesce, drop_oldest_and_push, pop, drain_all).                   *)
NewestInOrder ==
  \A c \in Class : \A i \in 1 .. Depth(q[c]) :
    q[c].items[i] = q[c].accepted - Depth(q[c]) + i

(* No queue ever exceeds its effective capacity, and the high-water mark   *)
(* lies between the depth and the capacity (push, push_free).              *)
Bounded ==
  \A c \in Class :
    /\ Depth(q[c]) <= q[c].high_water_mark
    /\ q[c].high_water_mark <= Cap(c)

(* No lost wake-up: while a producer sleeps on a class, that class is open *)
(* and every free slot of it is matched by a producer already woken for it *)
(* (pop notifies one, drain_all and shutdown notify all, wait_for_slot     *)
(* re-checks the depth and `closed').                                      *)
NoLostWakeup ==
  \A c \in Class :
    Parked(c) # {} =>
      /\ c \notin closed
      /\ Cap(c) - Depth(q[c]) <= Cardinality(InClass(c, "woken"))

(* Once shutdown has returned nothing enters any queue any more, and a     *)
(* class that is closed never accepts again: only the consumer changes     *)
(* what it holds (push's `closed' check inside the lock).                  *)
ClosedIsFinal ==
  [][\A c \in Class :
       c \in closed => c \in closed' /\ q'[c].accepted = q[c].accepted]_vars

(* The comment on BoundedIngress::push: the flag "is set before any        *)
(* per-queue close so a producer racing shutdown cannot land on a          *)
(* still-open later class": no packet is accepted once it is set.          *)
NoAcceptOnceFlagged ==
  [][shutting_down => \A c \in Class : q'[c].accepted = q[c].accepted]_vars

(* Every call returns: a blocked producer is released by a slot, by its    *)
(* deadline or by shutdown, even if no consumer ever pops (push, the       *)
(* single deadline of wait_for_slot).                                      *)
CallsReturn ==
  \A p \in Producers : (thr[p].pc # "idle") ~> (thr[p].pc = "idle")
=============================================================================
