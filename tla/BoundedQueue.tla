---------------------------- MODULE BoundedQueue ----------------------------
(***************************************************************************)
(* One class queue of the ingress: the state behind the Mutex of           *)
(* ingress/queue.rs (QueueState) and the effect of each critical section   *)
(* on it.  Threads, condition variables and the shutdown flag live in      *)
(* BoundedIngress; here every operator maps a queue state to the next one. *)
(*                                                                         *)
(* A packet is abstracted to the ordinal of its acceptance in its class:   *)
(* the n-th packet a queue accepts is the number n.  The operators never   *)
(* look at that number, so it stands for the packet's identity and order.  *)
(* `delivered' is a history counter: packets handed to a consumer.         *)
(* producer_wait_ns, a duration, is left out; QueueState.closed is kept  *)
(* in BoundedIngress as a set of classes.                                  *)
(***************************************************************************)
EXTENDS Naturals, Sequences

Policies == {"drop_oldest", "coalesce", "reject", "block_timeout"}

(* BoundedQueue::new: a coalescing queue holds one packet whatever the     *)
(* configured capacity.                                                    *)
EffectiveCapacity(policy, configured) ==
  IF policy = "coalesce" THEN 1 ELSE configured

QueueState ==
  [items : Seq(Nat),
   accepted : Nat, rejected : Nat, dropped : Nat, coalesced : Nat,
   shutdown_refused : Nat, high_water_mark : Nat, producer_waits : Nat,
   delivered : Nat]

NewQueue ==
  [items |-> << >>,
   accepted |-> 0, rejected |-> 0, dropped |-> 0, coalesced |-> 0,
   shutdown_refused |-> 0, high_water_mark |-> 0, producer_waits |-> 0,
   delivered |-> 0]

Depth(s) == Len(s.items)

Raise(mark, depth) == IF depth > mark THEN depth ELSE mark
-----------------------------------------------------------------------------
(* Producer-side critical sections.                                        *)

Refuse(s) == [s EXCEPT !.rejected = @ + 1]

RefuseShutdown(s) == [s EXCEPT !.shutdown_refused = @ + 1]

PushFree(s) ==
  [s EXCEPT !.items = Append(@, s.accepted + 1),
            !.accepted = @ + 1,
            !.high_water_mark = Raise(@, Depth(s) + 1)]

(* Coalescing that keeps the occupant and forgets the new packet. *)
MutPushCoalesce(s) ==
  IF s.items = << >>
  THEN PushFree(s)
  ELSE [s EXCEPT !.accepted = @ + 1, !.coalesced = @ + 1]

PushCoalesce(s) ==
  IF s.items = << >>
  THEN PushFree(s)
  ELSE [s EXCEPT !.items = << s.accepted + 1 >>,
                 !.accepted = @ + 1,
                 !.coalesced = @ + 1,
                 !.high_water_mark = Raise(@, 1)]

(* The evicted packet is not counted. *)
MutDropOldestAndPush(s) == PushFree([s EXCEPT !.items = Tail(@)])

DropOldestAndPush(s) ==
  PushFree([s EXCEPT !.items = Tail(@), !.dropped = @ + 1])

(* wait_for_slot up to the wait itself. *)
CountWait(s) == [s EXCEPT !.producer_waits = @ + 1]
-----------------------------------------------------------------------------
(* Consumer-side critical sections.                                        *)

Pop(s) ==
  IF s.items = << >>
  THEN s
  ELSE [s EXCEPT !.items = Tail(@), !.delivered = @ + 1]

DrainAll(s) == [s EXCEPT !.items = << >>, !.delivered = @ + Depth(s)]
=============================================================================
