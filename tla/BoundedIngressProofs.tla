------------------------ MODULE BoundedIngressProofs ------------------------
(***************************************************************************)
(* Proofs about BoundedIngress, for any set of producers, any policies and *)
(* any capacities.  First what each critical section does to one queue's   *)
(* state, then the inductive invariant of the threads that share them.     *)
(***************************************************************************)
EXTENDS IngressHistory, FiniteSetTheorems, TLAPS

(* The sequence s holds the last Len(s) of the numbers 1..n, in order. *)
Window(s, n) == \A i \in 1 .. Len(s) : s[i] = n - Len(s) + i

(* What one queue's state satisfies between two critical sections. *)
QueueOK(s, cap) ==
  /\ s.accepted = s.delivered + Depth(s) + s.dropped + s.coalesced
  /\ Window(s.items, s.accepted)
  /\ Depth(s) <= s.high_water_mark
  /\ s.high_water_mark <= cap
-----------------------------------------------------------------------------
(* Appending the next number to a window, or dropping its first element,   *)
(* leaves a window: push_free, and pop_front in pop and in                 *)
(* drop_oldest_and_push.                                                   *)
LEMMA WindowAppend ==
  ASSUME NEW s \in Seq(Nat), NEW n \in Nat, Window(s, n)
  PROVE  Window(Append(s, n + 1), n + 1)
<1> DEFINE t == Append(s, n + 1)
<1>1. /\ t \in Seq(Nat) /\ Len(t) = Len(s) + 1 /\ Len(s) \in Nat
      /\ \A i \in 1 .. Len(t) : t[i] = IF i = Len(s) + 1 THEN n + 1 ELSE s[i]
  OBVIOUS
<1> HIDE DEF t
<1>2. ASSUME NEW i \in 1 .. Len(t) PROVE t[i] = n + 1 - Len(t) + i
  <2>1. CASE i = Len(s) + 1 BY <2>1, <1>1
  <2>2. CASE i # Len(s) + 1
    <3>1. i \in 1 .. Len(s) BY <2>2, <1>1
    <3>2. s[i] = n - Len(s) + i BY <3>1 DEF Window
    <3>3. QED BY <3>1, <3>2, <2>2, <1>1
  <2>3. QED BY <2>1, <2>2
<1>3. QED BY <1>2 DEF Window, t

(* Taking the oldest of a window of consecutive packets leaves a window. *)
LEMMA WindowTail ==
  ASSUME NEW s \in Seq(Nat), NEW n \in Nat, Window(s, n), s # << >>
  PROVE  Tail(s) \in Seq(Nat) /\ Len(Tail(s)) = Len(s) - 1 /\ Window(Tail(s), n)
BY DEF Window

(* The fields of a queue state, for the lemmas below. *)
Counts(s) ==
  /\ Depth(s) \in Nat
  /\ s.accepted \in Nat /\ s.rejected \in Nat /\ s.dropped \in Nat
  /\ s.coalesced \in Nat /\ s.shutdown_refused \in Nat
  /\ s.high_water_mark \in Nat /\ s.producer_waits \in Nat
  /\ s.delivered \in Nat

(* The fields of a queue state have their types. *)
LEMMA Fields ==
  ASSUME NEW s \in QueueState
  PROVE  Counts(s) /\ s.items \in Seq(Nat)
BY DEF QueueState, Depth, Counts

(* A new queue satisfies the per-queue invariant. *)
LEMMA NewQueueOK ==
  ASSUME NEW cap \in Nat
  PROVE  NewQueue \in QueueState /\ QueueOK(NewQueue, cap)
<1>1. << >> \in Seq(Nat) OBVIOUS
<1>2. NewQueue \in QueueState BY <1>1 DEF NewQueue, QueueState
<1>3. QED BY <1>2 DEF NewQueue, QueueOK, Depth, Window

(* Counting a refusal or a wait touches nothing else. *)
LEMMA CountersOK ==
  ASSUME NEW s \in QueueState, NEW cap \in Nat, QueueOK(s, cap)
  PROVE  /\ Refuse(s) \in QueueState /\ QueueOK(Refuse(s), cap)
         /\ RefuseShutdown(s) \in QueueState /\ QueueOK(RefuseShutdown(s), cap)
         /\ CountWait(s) \in QueueState /\ QueueOK(CountWait(s), cap)
<1>0. Counts(s) BY Fields
<1>1. ASSUME NEW n \in Nat
      PROVE  /\ [s EXCEPT !.rejected = n] \in QueueState
             /\ [s EXCEPT !.shutdown_refused = n] \in QueueState
             /\ [s EXCEPT !.producer_waits = n] \in QueueState
  BY Zenon DEF QueueState
<1>2. /\ s.rejected + 1 \in Nat /\ s.shutdown_refused + 1 \in Nat
      /\ s.producer_waits + 1 \in Nat
  BY <1>0 DEF Counts
<1>3. /\ Refuse(s) \in QueueState /\ RefuseShutdown(s) \in QueueState
      /\ CountWait(s) \in QueueState
  BY <1>1, <1>2, Zenon DEF Refuse, RefuseShutdown, CountWait
<1>4. QueueOK(Refuse(s), cap)
  BY DEF Refuse, QueueOK, QueueState, Depth
<1>5. QueueOK(RefuseShutdown(s), cap)
  BY DEF RefuseShutdown, QueueOK, QueueState, Depth
<1>6. QueueOK(CountWait(s), cap)
  BY DEF CountWait, QueueOK, QueueState, Depth
<1>7. QED BY <1>3, <1>4, <1>5, <1>6

(* push_free: the fields of the result. *)
LEMMA PushFreeFields ==
  ASSUME NEW s \in QueueState
  PROVE  /\ PushFree(s) \in QueueState
         /\ PushFree(s).items = Append(s.items, s.accepted + 1)
         /\ Depth(PushFree(s)) = Depth(s) + 1
         /\ PushFree(s).accepted = s.accepted + 1
         /\ PushFree(s).rejected = s.rejected
         /\ PushFree(s).shutdown_refused = s.shutdown_refused
         /\ PushFree(s).delivered = s.delivered
         /\ PushFree(s).dropped = s.dropped
         /\ PushFree(s).coalesced = s.coalesced
         /\ PushFree(s).high_water_mark = Raise(s.high_water_mark, Depth(s) + 1)
<1>0. Counts(s) BY Fields
<1>1. ASSUME NEW l \in Seq(Nat), NEW n \in Nat, NEW h \in Nat
      PROVE  [s EXCEPT !.items = l, !.accepted = n, !.high_water_mark = h]
               \in QueueState
  BY Zenon DEF QueueState
<1>2. Append(s.items, s.accepted + 1) \in Seq(Nat)
  BY <1>0, Fields DEF Counts
<1>3. s.accepted + 1 \in Nat /\ Raise(s.high_water_mark, Depth(s) + 1) \in Nat
  BY <1>0 DEF Raise, Counts
<1>4. PushFree(s) \in QueueState
  BY <1>1, <1>2, <1>3, Zenon DEF PushFree
<1>5. /\ PushFree(s).items = Append(s.items, s.accepted + 1)
      /\ PushFree(s).accepted = s.accepted + 1
      /\ PushFree(s).rejected = s.rejected
      /\ PushFree(s).shutdown_refused = s.shutdown_refused
      /\ PushFree(s).delivered = s.delivered
      /\ PushFree(s).dropped = s.dropped
      /\ PushFree(s).coalesced = s.coalesced
      /\ PushFree(s).high_water_mark = Raise(s.high_water_mark, Depth(s) + 1)
  BY DEF QueueState, PushFree
<1>6. Depth(PushFree(s)) = Depth(s) + 1
  BY <1>5, <1>0, Fields DEF Depth, Counts
<1>7. QED BY <1>4, <1>5, <1>6

(* push_free into a queue with room. *)
LEMMA PushFreeOK ==
  ASSUME NEW s \in QueueState, NEW cap \in Nat, QueueOK(s, cap), Depth(s) < cap
  PROVE  PushFree(s) \in QueueState /\ QueueOK(PushFree(s), cap)
<1>0. Counts(s) BY Fields
<1>1. Window(PushFree(s).items, PushFree(s).accepted)
  BY PushFreeFields, Fields, WindowAppend, <1>0 DEF QueueOK, Counts
<1> DEFINE t == PushFree(s)
<1>2. /\ Depth(t) = Depth(s) + 1 /\ t.accepted = s.accepted + 1
      /\ t.delivered = s.delivered /\ t.dropped = s.dropped
      /\ t.coalesced = s.coalesced
      /\ t.high_water_mark = Raise(s.high_water_mark, Depth(s) + 1)
  BY PushFreeFields
<1> HIDE DEF t
<1>3. t.accepted = t.delivered + Depth(t) + t.dropped + t.coalesced
  BY <1>0, <1>2 DEF QueueOK, Counts
<1>4. Depth(t) <= t.high_water_mark /\ t.high_water_mark <= cap
  BY <1>0, <1>2 DEF QueueOK, Counts, Raise
<1>5. QED BY <1>1, <1>3, <1>4, PushFreeFields DEF QueueOK, t

(* push_coalesce on a queue of one slot. *)
LEMMA PushCoalesceOK ==
  ASSUME NEW s \in QueueState, QueueOK(s, 1)
  PROVE  PushCoalesce(s) \in QueueState /\ QueueOK(PushCoalesce(s), 1)
<1>0. Counts(s) BY Fields
<1>1. CASE s.items = << >>
  BY <1>1, PushFreeOK DEF PushCoalesce, Depth
<1>2. CASE s.items # << >>
  <2> DEFINE t == PushCoalesce(s)
  <2>1. ASSUME NEW l \in Seq(Nat), NEW n \in Nat, NEW m \in Nat, NEW h \in Nat
        PROVE  [s EXCEPT !.items = l, !.accepted = n, !.coalesced = m,
                         !.high_water_mark = h] \in QueueState
    BY Zenon DEF QueueState
  <2>2. << s.accepted + 1 >> \in Seq(Nat)
    BY <1>0 DEF Counts
  <2>3. /\ s.accepted + 1 \in Nat /\ s.coalesced + 1 \in Nat
        /\ Raise(s.high_water_mark, 1) \in Nat
    BY <1>0 DEF Raise, Counts
  <2>4. t \in QueueState
    BY <1>2, <2>1, <2>2, <2>3, Zenon DEF PushCoalesce
  <2>5. /\ t.items = << s.accepted + 1 >> /\ t.accepted = s.accepted + 1
        /\ t.coalesced = s.coalesced + 1 /\ t.delivered = s.delivered
        /\ t.dropped = s.dropped
        /\ t.high_water_mark = Raise(s.high_water_mark, 1)
    BY <1>2 DEF PushCoalesce, QueueState
  <2> HIDE DEF t
  <2>6. Depth(s) = 1
    <3>1. Depth(s) # 0 BY <1>2, Fields DEF Depth
    <3>2. QED BY <3>1, <1>0 DEF QueueOK, Counts
  <2>7. Depth(t) = 1 /\ Window(t.items, t.accepted)
    BY <2>5, <1>0 DEF Depth, Window, Counts
  <2>8. t.accepted = t.delivered + Depth(t) + t.dropped + t.coalesced
    BY <2>5, <2>6, <2>7, <1>0 DEF QueueOK, Counts
  <2>9. Depth(t) <= t.high_water_mark /\ t.high_water_mark <= 1
    BY <2>5, <2>7, <1>0 DEF QueueOK, Raise, Counts
  <2>10. QED BY <2>4, <2>7, <2>8, <2>9 DEF QueueOK, t
<1>3. QED BY <1>1, <1>2

(* Removing the oldest packet: the first half of drop_oldest_and_push. *)
LEMMA EvictOK ==
  ASSUME NEW s \in QueueState, NEW cap \in Nat, QueueOK(s, cap), Depth(s) > 0
  PROVE  LET t == [s EXCEPT !.items = Tail(@), !.dropped = @ + 1]
         IN  /\ t \in QueueState /\ QueueOK(t, cap)
             /\ Depth(t) = Depth(s) - 1
             /\ t.accepted = s.accepted
<1>0. Counts(s) BY Fields
<1> DEFINE t == [s EXCEPT !.items = Tail(@), !.dropped = @ + 1]
<1>1. ASSUME NEW l \in Seq(Nat), NEW n \in Nat
      PROVE  [s EXCEPT !.items = l, !.dropped = n] \in QueueState
  BY Zenon DEF QueueState
<1>2. s.items # << >>
  BY <1>0 DEF Depth, Counts
<1>3. /\ Tail(s.items) \in Seq(Nat) /\ Len(Tail(s.items)) = Len(s.items) - 1
      /\ Window(Tail(s.items), s.accepted)
  BY <1>2, <1>0, Fields, WindowTail DEF QueueOK, Counts
<1>a. s.dropped + 1 \in Nat
  BY <1>0 DEF Counts
<1>4. t \in QueueState
  BY <1>1, <1>3, <1>a, Zenon
<1>5. /\ t.items = Tail(s.items) /\ t.accepted = s.accepted
      /\ t.coalesced = s.coalesced /\ t.delivered = s.delivered
      /\ t.dropped = s.dropped + 1 /\ t.high_water_mark = s.high_water_mark
  BY DEF QueueState
<1> HIDE DEF t
<1>6. Depth(t) = Depth(s) - 1
  BY <1>3, <1>5 DEF Depth
<1>b. Window(t.items, t.accepted)
  BY <1>3, <1>5, Zenon
<1>c. /\ t.accepted = s.accepted /\ t.coalesced = s.coalesced
      /\ t.delivered = s.delivered /\ t.dropped = s.dropped + 1
      /\ t.high_water_mark = s.high_water_mark
  BY <1>5, Zenon
<1>7. QueueOK(t, cap)
  BY <1>b, <1>c, <1>6, <1>0 DEF QueueOK, Counts
<1>8. QED BY <1>4, <1>5, <1>6, <1>7 DEF t

(* drop_oldest_and_push on a full queue. *)
LEMMA DropOldestOK ==
  ASSUME NEW s \in QueueState, NEW cap \in Nat \ {0}, QueueOK(s, cap),
         Depth(s) >= cap
  PROVE  /\ DropOldestAndPush(s) \in QueueState
         /\ QueueOK(DropOldestAndPush(s), cap)
<1>0. Counts(s) BY Fields
<1>1. Depth(s) > 0 /\ Depth(s) = cap
  BY <1>0 DEF QueueOK, Counts
<1> DEFINE t == [s EXCEPT !.items = Tail(@), !.dropped = @ + 1]
<1>2. t \in QueueState /\ QueueOK(t, cap) /\ Depth(t) = Depth(s) - 1
  BY <1>1, EvictOK
<1> HIDE DEF t
<1>3. PushFree(t) \in QueueState /\ QueueOK(PushFree(t), cap)
  BY <1>0, <1>1, <1>2, PushFreeOK DEF Counts
<1>4. QED BY <1>3 DEF DropOldestAndPush, t

(* pop and drain_all. *)
LEMMA PopOK ==
  ASSUME NEW s \in QueueState, NEW cap \in Nat, QueueOK(s, cap)
  PROVE  /\ Pop(s) \in QueueState /\ QueueOK(Pop(s), cap)
         /\ Depth(Pop(s)) = IF s.items = << >> THEN Depth(s) ELSE Depth(s) - 1
         /\ Pop(s).accepted = s.accepted
<1>0. Counts(s) BY Fields
<1>1. CASE s.items = << >> BY <1>1 DEF Pop
<1>2. CASE s.items # << >>
  <2> DEFINE t == Pop(s)
  <2>1. ASSUME NEW l \in Seq(Nat), NEW n \in Nat
        PROVE  [s EXCEPT !.items = l, !.delivered = n] \in QueueState
    BY Zenon DEF QueueState
  <2>2. /\ Tail(s.items) \in Seq(Nat) /\ Len(Tail(s.items)) = Len(s.items) - 1
        /\ Window(Tail(s.items), s.accepted)
    BY <1>2, <1>0, Fields, WindowTail DEF QueueOK, Counts
  <2>a. s.delivered + 1 \in Nat
    BY <1>0 DEF Counts
  <2>3. t \in QueueState
    BY <1>2, <2>1, <2>2, <2>a, Zenon DEF Pop
  <2>4. /\ t.items = Tail(s.items) /\ t.accepted = s.accepted
        /\ t.coalesced = s.coalesced /\ t.delivered = s.delivered + 1
        /\ t.dropped = s.dropped /\ t.high_water_mark = s.high_water_mark
    BY <1>2 DEF Pop, QueueState
  <2> HIDE DEF t
  <2>5. Depth(t) = Depth(s) - 1
    BY <2>2, <2>4 DEF Depth
  <2>b. Window(t.items, t.accepted)
    BY <2>2, <2>4, Zenon
  <2>c. /\ t.accepted = s.accepted /\ t.coalesced = s.coalesced
        /\ t.delivered = s.delivered + 1 /\ t.dropped = s.dropped
        /\ t.high_water_mark = s.high_water_mark
    BY <2>4, Zenon
  <2>6. QueueOK(t, cap)
    BY <2>b, <2>c, <2>5, <1>0 DEF QueueOK, Counts
  <2>7. QED BY <1>2, <2>3, <2>4, <2>5, <2>6 DEF t
<1>3. QED BY <1>1, <1>2

(* drain_all empties a queue and counts what it delivers. *)
LEMMA DrainAllOK ==
  ASSUME NEW s \in QueueState, NEW cap \in Nat, QueueOK(s, cap)
  PROVE  /\ DrainAll(s) \in QueueState /\ QueueOK(DrainAll(s), cap)
         /\ DrainAll(s).accepted = s.accepted
<1>0. Counts(s) BY Fields
<1> DEFINE t == DrainAll(s)
<1>1. ASSUME NEW l \in Seq(Nat), NEW n \in Nat
      PROVE  [s EXCEPT !.items = l, !.delivered = n] \in QueueState
  BY Zenon DEF QueueState
<1>2. << >> \in Seq(Nat) /\ s.delivered + Depth(s) \in Nat
  BY <1>0 DEF Counts
<1>3. t \in QueueState
  BY <1>1, <1>2, Zenon DEF DrainAll
<1>4. /\ t.items = << >> /\ t.accepted = s.accepted
      /\ t.coalesced = s.coalesced /\ t.delivered = s.delivered + Depth(s)
      /\ t.dropped = s.dropped /\ t.high_water_mark = s.high_water_mark
  BY DEF DrainAll, QueueState
<1> HIDE DEF t
<1>5. Depth(t) = 0 /\ Window(t.items, t.accepted)
  BY <1>4 DEF Depth, Window
<1>6. QueueOK(t, cap)
  BY <1>4, <1>5, <1>0 DEF QueueOK, Counts
<1>7. QED BY <1>3, <1>4, <1>6 DEF t
-----------------------------------------------------------------------------
(* Types and queues are preserved by every step.                           *)

QInv == \A c \in Class : QueueOK(q[c], Cap(c))

(* Every class has at least one slot (EffectiveCapacity). *)
LEMMA CapPositive ==
  ASSUME NEW c \in Class
  PROVE  Cap(c) \in Nat \ {0} /\ (Policy[c] = "coalesce" => Cap(c) = 1)
BY IngressAssumption DEF Cap, EffectiveCapacity

(* A producer that is in no call is in a legal place. *)
LEMMA IdleCall == Idle \in Call
BY DEF Idle, Call, Pc, Class

(* Updating one queue with a good state keeps all queues good. *)
LEMMA UpdateOK ==
  ASSUME TypeOK, QInv, NEW c \in Class, NEW s \in QueueState,
         QueueOK(s, Cap(c)), q' = [q EXCEPT ![c] = s]
  PROVE  q' \in [Class -> QueueState] /\ QInv'
<1>1. q' \in [Class -> QueueState] BY DEF TypeOK
<1>2. ASSUME NEW d \in Class PROVE QueueOK(q'[d], Cap(d))
  BY Zenon DEF TypeOK, QInv
<1>3. QED BY <1>1, <1>2 DEF QInv, Cap

(* A call that returns. *)
LEMMA ReturnOK ==
  ASSUME TypeOK, QInv, NEW p \in Producers, NEW s \in QueueState,
         QueueOK(s, Cap(thr[p].class)), Return(p, s)
  PROVE  TypeOK' /\ QInv'
<1>1. thr[p].class \in Class BY DEF TypeOK, Call
<1>2. q' \in [Class -> QueueState] /\ QInv' BY <1>1, UpdateOK DEF Return
<1>3. thr' \in [Producers -> Call] BY IdleCall DEF Return, TypeOK
<1>4. QED BY <1>2, <1>3 DEF TypeOK, Return

(* The state of the queue a producer works on. *)
LEMMA OwnQueue ==
  ASSUME TypeOK, QInv, NEW p \in Producers
  PROVE  /\ thr[p].class \in Class /\ q[thr[p].class] \in QueueState
         /\ QueueOK(q[thr[p].class], Cap(thr[p].class))
         /\ Cap(thr[p].class) \in Nat \ {0}
<1>1. thr[p].class \in Class BY DEF TypeOK, Call
<1>2. QED BY <1>1, CapPositive DEF TypeOK, QInv

(* Moving one producer to another place of the call. *)
LEMMA MoveOK ==
  ASSUME TypeOK, NEW p \in Producers, NEW x \in Pc,
         thr' = [thr EXCEPT ![p].pc = x]
  PROVE  thr' \in [Producers -> Call]
BY DEF TypeOK, Call

(* Waking waiters keeps every producer in a legal place. *)
LEMMA WakeType ==
  ASSUME TypeOK, NEW S
  PROVE  Wake(S) \in [Producers -> Call]
<1>1. ASSUME NEW p \in Producers
      PROVE  [thr[p] EXCEPT !.pc = "woken"] \in Call
  BY DEF TypeOK, Call, Pc
<1>2. QED BY <1>1 DEF Wake, TypeOK

(* So do notify_one and notify_all. *)
LEMMA NotifyType ==
  ASSUME TypeOK, NEW c
  PROVE  /\ NotifyOne(c) => thr' \in [Producers -> Call]
         /\ NotifyAll(c) => thr' \in [Producers -> Call]
BY WakeType DEF NotifyOne, NotifyAll, TypeOK

(* pop and drain_all as steps keep types and the per-queue invariant. *)
LEMMA ConsumeOK ==
  ASSUME TypeOK, QInv, NEW c \in Class, PopOne(c) \/ TakeAll(c)
  PROVE  q' \in [Class -> QueueState] /\ QInv' /\ thr' \in [Producers -> Call]
<1>0. q[c] \in QueueState /\ QueueOK(q[c], Cap(c)) /\ Cap(c) \in Nat
  BY CapPositive DEF TypeOK, QInv
<1>1. CASE PopOne(c)
  <2>1. q' = [q EXCEPT ![c] = Pop(q[c])] BY <1>1 DEF PopOne
  <2>2. q' \in [Class -> QueueState] /\ QInv' BY <1>0, <2>1, PopOK, UpdateOK
  <2>3. thr' \in [Producers -> Call] BY <1>1, NotifyType DEF PopOne, TypeOK
  <2>4. QED BY <2>2, <2>3
<1>2. CASE TakeAll(c)
  <2>1. q' = [q EXCEPT ![c] = DrainAll(q[c])] BY <1>2 DEF TakeAll
  <2>2. q' \in [Class -> QueueState] /\ QInv' BY <1>0, <2>1, DrainAllOK, UpdateOK
  <2>3. thr' \in [Producers -> Call] BY <1>2, NotifyType DEF TakeAll, TypeOK
  <2>4. QED BY <2>2, <2>3
<1>3. QED BY <1>1, <1>2

(* The loop drains and shutdown closes existing classes only. *)
LEMMA OrderTypes ==
  /\ \A i \in 1 .. 4 : DrainOrder[i] \in Class
  /\ \A i \in 1 .. 4 : CloseOrder[i] \in Class
BY DEF DrainOrder, CloseOrder, Class

(* Every step keeps types and the per-queue invariant. *)
LEMMA QueueStep == TypeOK /\ QInv /\ [Next]_vars => TypeOK' /\ QInv'
<1> SUFFICES ASSUME TypeOK, QInv, [Next]_vars PROVE TypeOK' /\ QInv'
  OBVIOUS
<1>1. ASSUME NEW p \in Producers, StartCall(p) PROVE TypeOK' /\ QInv'
  <2>1. PICK c \in Class, payload \in {"fits", "oversize"}, honor \in BOOLEAN :
          /\ attempts' = [attempts EXCEPT ![c] = @ + 1]
          /\ thr' = [thr EXCEPT ![p] =
               [pc |-> IF shutting_down THEN "refuse" ELSE "push",
                class |-> c, payload |-> payload,
                deadline |-> IF /\ honor /\ ~ZeroTimeout /\ payload = "fits"
                                /\ Policy[c] = "block_timeout"
                             THEN "ahead" ELSE "none"]]
    BY <1>1 DEF StartCall
  <2>2. attempts' \in [Class -> Nat] BY <2>1 DEF TypeOK
  <2>3. thr' \in [Producers -> Call] BY <2>1 DEF TypeOK, Call, Pc
  <2>4. QED BY <1>1, <2>2, <2>3 DEF StartCall, TypeOK, QInv
<1>2. ASSUME NEW p \in Producers, RefuseClosed(p) \/ PushOnClosed(p)
      PROVE  TypeOK' /\ QInv'
  BY <1>2, OwnQueue, CountersOK, ReturnOK DEF RefuseClosed, PushOnClosed
<1>3. ASSUME NEW p \in Producers,
             PushOversize(p) \/ PushFullReject(p) \/ PushFullExpired(p)
      PROVE  TypeOK' /\ QInv'
  BY <1>3, OwnQueue, CountersOK, ReturnOK
     DEF PushOversize, PushFullReject, PushFullExpired
<1>4. ASSUME NEW p \in Producers, PushCoalescing(p) PROVE TypeOK' /\ QInv'
  <2>1. Cap(thr[p].class) = 1 BY <1>4, OwnQueue, CapPositive DEF PushCoalescing
  <2>2. QED BY <1>4, <2>1, OwnQueue, PushCoalesceOK, ReturnOK DEF PushCoalescing
<1>5. ASSUME NEW p \in Producers, PushWithRoom(p) PROVE TypeOK' /\ QInv'
  <2>1. Depth(q[thr[p].class]) < Cap(thr[p].class)
    <3>1. Depth(q[thr[p].class]) \in Nat BY OwnQueue, Fields DEF Counts
    <3>2. QED BY <1>5, <3>1, OwnQueue DEF PushWithRoom, Full
  <2>2. QED BY <1>5, <2>1, OwnQueue, PushFreeOK, ReturnOK DEF PushWithRoom
<1>6. ASSUME NEW p \in Producers, PushFullDropOldest(p) PROVE TypeOK' /\ QInv'
  BY <1>6, OwnQueue, DropOldestOK, ReturnOK DEF PushFullDropOldest, FullFor, Full
<1>7. ASSUME NEW p \in Producers, PushFullWait(p) PROVE TypeOK' /\ QInv'
  <2>1. q' = [q EXCEPT ![thr[p].class] = CountWait(q[thr[p].class])]
    BY <1>7 DEF PushFullWait
  <2>2. q' \in [Class -> QueueState] /\ QInv'
    BY <2>1, OwnQueue, CountersOK, UpdateOK
  <2>3. thr' \in [Producers -> Call] BY <1>7, MoveOK DEF PushFullWait, Pc
  <2>4. QED BY <1>7, <2>2, <2>3 DEF PushFullWait, TypeOK
<1>8. ASSUME NEW p \in Producers,
             DeadlinePasses(p) \/ WaitTimesOut(p) \/ SpuriousWake(p)
      PROVE  TypeOK' /\ QInv'
  <2>1. thr' \in [Producers -> Call]
    BY <1>8 DEF DeadlinePasses, WaitTimesOut, SpuriousWake, TypeOK, Call, Pc
  <2>2. QED BY <1>8, <2>1 DEF DeadlinePasses, WaitTimesOut, SpuriousWake, TypeOK, QInv
<1>9. CASE DrainStep
  <2>1. DrainOrder[drainAt] \in Class BY OrderTypes DEF TypeOK
  <2>2. PopOne(DrainOrder[drainAt]) \/ TakeAll(DrainOrder[drainAt])
    BY <1>9 DEF DrainStep
  <2>3. drainAt' \in 1 .. 4 BY <1>9 DEF DrainStep, TypeOK
  <2>4. QED BY <1>9, <2>1, <2>2, <2>3, ConsumeOK DEF DrainStep, TypeOK
<1>10. ASSUME NEW c \in Class, HandlePop(c) PROVE TypeOK' /\ QInv'
  BY <1>10, ConsumeOK DEF HandlePop, TypeOK
<1>11. CASE ShutdownFlag
  BY <1>11 DEF ShutdownFlag, TypeOK, QInv
<1>12. CASE CloseNext
  <2>1. thr' \in [Producers -> Call] BY <1>12, NotifyType DEF CloseNext
  <2>2. closed' \subseteq Class BY <1>12, OrderTypes DEF CloseNext, TypeOK
  <2>3. closeAt' \in 0 .. 5 BY <1>12 DEF CloseNext
  <2>4. /\ q' = q /\ UNCHANGED << shutting_down, drainAt, attempts >>
    BY <1>12 DEF CloseNext
  <2>5. QED BY <2>1, <2>2, <2>3, <2>4 DEF TypeOK, QInv
<1>13. CASE UNCHANGED vars
  BY <1>13 DEF vars, TypeOK, QInv
<1>14. QED
  BY <1>1, <1>2, <1>3, <1>4, <1>5, <1>6, <1>7, <1>8, <1>9, <1>10, <1>11,
     <1>12, <1>13 DEF Next, ProducerStep, LockedPush

(* Every field of the ingress keeps its type, and each queue keeps its     *)
(* per-queue invariant, whatever the threads do.                           *)
THEOREM QueueInvariant == Spec => [](TypeOK /\ QInv)
<1>1. Init => TypeOK /\ QInv
  <2>1. ASSUME Init PROVE TypeOK
    <3>1. q \in [Class -> QueueState]
      <4>1. NewQueue \in QueueState BY NewQueueOK
      <4>2. QED BY <4>1, <2>1 DEF Init
    <3>2. thr \in [Producers -> Call] BY <2>1, IdleCall DEF Init
    <3>3. attempts \in [Class -> Nat] /\ closeAt \in 0 .. 5 /\ drainAt \in 1 .. 4
      BY <2>1 DEF Init
    <3>4. closed \subseteq Class /\ shutting_down \in BOOLEAN
      BY <2>1 DEF Init
    <3>5. QED BY <3>1, <3>2, <3>3, <3>4 DEF TypeOK
  <2>2. ASSUME Init PROVE QInv
    BY <2>2, NewQueueOK, CapPositive DEF Init, QInv
  <2>3. QED BY <2>1, <2>2
<1>2. QED BY <1>1, QueueStep, PTL DEF Spec

(* The first half of Accounting, NewestInOrder and Bounded follow from the *)
(* per-queue invariant.                                                    *)
THEOREM QueuesCorrect == Spec => [](NewestInOrder /\ Bounded)
<1>1. TypeOK /\ QInv => NewestInOrder /\ Bounded
  BY DEF QInv, QueueOK, Window, NewestInOrder, Bounded, Depth
<1>2. QED BY <1>1, QueueInvariant, PTL
-----------------------------------------------------------------------------
(* What each critical section does to the number of counted outcomes.      *)

Outcomes(s) == s.accepted + s.rejected + s.shutdown_refused

(* A refusal is one more outcome, a wait none; neither changes depth or intake. *)
LEMMA RefusalEffects ==
  ASSUME NEW s \in QueueState
  PROVE  /\ Depth(Refuse(s)) = Depth(s) /\ Refuse(s).accepted = s.accepted
         /\ Outcomes(Refuse(s)) = Outcomes(s) + 1
         /\ Depth(RefuseShutdown(s)) = Depth(s)
         /\ RefuseShutdown(s).accepted = s.accepted
         /\ Outcomes(RefuseShutdown(s)) = Outcomes(s) + 1
         /\ Depth(CountWait(s)) = Depth(s) /\ CountWait(s).accepted = s.accepted
         /\ Outcomes(CountWait(s)) = Outcomes(s)
<1>0. Counts(s) BY Fields
<1>1. /\ Refuse(s).items = s.items /\ Refuse(s).accepted = s.accepted
      /\ Refuse(s).rejected = s.rejected + 1
      /\ Refuse(s).shutdown_refused = s.shutdown_refused
  BY DEF Refuse, QueueState
<1>2. /\ RefuseShutdown(s).items = s.items
      /\ RefuseShutdown(s).accepted = s.accepted
      /\ RefuseShutdown(s).rejected = s.rejected
      /\ RefuseShutdown(s).shutdown_refused = s.shutdown_refused + 1
  BY DEF RefuseShutdown, QueueState
<1>3. /\ CountWait(s).items = s.items /\ CountWait(s).accepted = s.accepted
      /\ CountWait(s).rejected = s.rejected
      /\ CountWait(s).shutdown_refused = s.shutdown_refused
  BY DEF CountWait, QueueState
<1>4. /\ Depth(Refuse(s)) = Depth(s) /\ Depth(RefuseShutdown(s)) = Depth(s)
      /\ Depth(CountWait(s)) = Depth(s)
  BY <1>1, <1>2, <1>3 DEF Depth
<1>5. QED BY <1>0, <1>1, <1>2, <1>3, <1>4 DEF Outcomes, Counts

(* push_free is one more outcome. *)
LEMMA PushFreeEffects ==
  ASSUME NEW s \in QueueState
  PROVE  Depth(PushFree(s)) = Depth(s) + 1 /\ Outcomes(PushFree(s)) = Outcomes(s) + 1
<1>0. Counts(s) BY Fields
<1>1. /\ PushFree(s).accepted = s.accepted + 1
      /\ PushFree(s).rejected = s.rejected
      /\ PushFree(s).shutdown_refused = s.shutdown_refused
      /\ Depth(PushFree(s)) = Depth(s) + 1
  BY PushFreeFields
<1>2. QED BY <1>0, <1>1 DEF Outcomes, Counts

(* push_coalesce is one more outcome, the lost occupant included. *)
LEMMA PushCoalesceEffects ==
  ASSUME NEW s \in QueueState
  PROVE  Outcomes(PushCoalesce(s)) = Outcomes(s) + 1
<1>0. Counts(s) BY Fields
<1>1. CASE s.items = << >> BY <1>1, PushFreeEffects DEF PushCoalesce
<1>2. CASE s.items # << >>
  <2>1. /\ PushCoalesce(s).accepted = s.accepted + 1
        /\ PushCoalesce(s).rejected = s.rejected
        /\ PushCoalesce(s).shutdown_refused = s.shutdown_refused
    BY <1>2 DEF PushCoalesce, QueueState
  <2>2. QED BY <1>0, <2>1 DEF Outcomes, Counts
<1>3. QED BY <1>1, <1>2

(* drop_oldest_and_push is one more outcome, the evicted packet included. *)
LEMMA DropOldestEffects ==
  ASSUME NEW s \in QueueState, NEW cap \in Nat, QueueOK(s, cap), Depth(s) > 0
  PROVE  Outcomes(DropOldestAndPush(s)) = Outcomes(s) + 1
<1> DEFINE t == [s EXCEPT !.items = Tail(@), !.dropped = @ + 1]
<1>1. t \in QueueState BY EvictOK
<1>2. /\ t.accepted = s.accepted /\ t.rejected = s.rejected
      /\ t.shutdown_refused = s.shutdown_refused
  BY DEF QueueState
<1> HIDE DEF t
<1>3. Outcomes(t) = Outcomes(s) BY <1>2 DEF Outcomes
<1>4. Outcomes(PushFree(t)) = Outcomes(t) + 1 BY <1>1, PushFreeEffects
<1>5. QED BY <1>3, <1>4 DEF DropOldestAndPush, t

(* Consumers accept nothing and end no call. *)
LEMMA ConsumeEffects ==
  ASSUME NEW s \in QueueState
  PROVE  /\ Pop(s).accepted = s.accepted /\ Outcomes(Pop(s)) = Outcomes(s)
         /\ DrainAll(s).accepted = s.accepted
         /\ Outcomes(DrainAll(s)) = Outcomes(s)
<1>1. /\ Pop(s).accepted = s.accepted /\ Pop(s).rejected = s.rejected
      /\ Pop(s).shutdown_refused = s.shutdown_refused
  BY DEF Pop, QueueState
<1>2. /\ DrainAll(s).accepted = s.accepted /\ DrainAll(s).rejected = s.rejected
      /\ DrainAll(s).shutdown_refused = s.shutdown_refused
  BY DEF DrainAll, QueueState
<1>3. QED BY <1>1, <1>2 DEF Outcomes
-----------------------------------------------------------------------------
(* ClosedIsFinal                                                           *)

(* No step reopens a class or accepts a packet on a closed one. *)
LEMMA ClosedStep ==
  ASSUME TypeOK, Next, NEW c \in Class, c \in closed
  PROVE  c \in closed' /\ q'[c].accepted = q[c].accepted
<1>0. q[c] \in QueueState /\ q \in [Class -> QueueState] BY DEF TypeOK
<1>1. ASSUME NEW p \in Producers, StartCall(p) \/ DeadlinePasses(p) \/ WaitTimesOut(p)
               \/ SpuriousWake(p)
      PROVE  c \in closed' /\ q'[c].accepted = q[c].accepted
  BY <1>1 DEF StartCall, DeadlinePasses, WaitTimesOut, SpuriousWake
<1>2. ASSUME NEW p \in Producers, RefuseClosed(p) \/ PushOnClosed(p)
      PROVE  c \in closed' /\ q'[c].accepted = q[c].accepted
  BY <1>2, <1>0, RefusalEffects DEF RefuseClosed, PushOnClosed, Return
<1>3. ASSUME NEW p \in Producers, OpenFor(p), LockedPush(p)
      PROVE  c \in closed' /\ q'[c].accepted = q[c].accepted
  <2>1. c # thr[p].class BY <1>3 DEF OpenFor
  <2>2. closed' = closed
    BY <1>3 DEF LockedPush, PushOnClosed, PushOversize, PushCoalescing,
                PushWithRoom, PushFullReject, PushFullDropOldest,
                PushFullExpired, PushFullWait, Return
  <2>3. \E s : q' = [q EXCEPT ![thr[p].class] = s]
    BY <1>3 DEF LockedPush, PushOnClosed, PushOversize, PushCoalescing,
                PushWithRoom, PushFullReject, PushFullDropOldest,
                PushFullExpired, PushFullWait, Return
  <2>4. QED BY <1>0, <2>1, <2>2, <2>3
<1>4. ASSUME NEW p \in Producers, LockedPush(p) PROVE OpenFor(p) \/ PushOnClosed(p)
  BY <1>4 DEF LockedPush, PushOversize, PushCoalescing,
              PushWithRoom, PushFullReject, PushFullDropOldest,
              PushFullExpired, PushFullWait, FullFor
<1>5. ASSUME NEW d \in Class, PopOne(d) \/ TakeAll(d)
      PROVE  q'[c].accepted = q[c].accepted
  BY <1>5, <1>0, ConsumeEffects DEF PopOne, TakeAll
<1>6. CASE DrainStep
  BY <1>6, <1>5, OrderTypes DEF DrainStep, TypeOK
<1>7. ASSUME NEW d \in Class, HandlePop(d)
      PROVE  c \in closed' /\ q'[c].accepted = q[c].accepted
  BY <1>7, <1>5 DEF HandlePop
<1>8. CASE ShutdownFlag BY <1>8 DEF ShutdownFlag
<1>9. CASE CloseNext BY <1>9 DEF CloseNext
<1>10. QED
  BY <1>1, <1>2, <1>3, <1>4, <1>6, <1>7, <1>8, <1>9 DEF Next, ProducerStep

(* Once a class is closed it stays closed and accepts nothing more.        *)
THEOREM ClosedFinal == Spec => ClosedIsFinal
<1>1. TypeOK /\ [Next]_vars =>
        [\A c \in Class : c \in closed =>
           c \in closed' /\ q'[c].accepted = q[c].accepted]_vars
  BY ClosedStep DEF vars
<1>2. QED BY <1>1, QueueInvariant, PTL DEF Spec, ClosedIsFinal
-----------------------------------------------------------------------------
(* The sets of producers by place, and how a step changes them.            *)

(* A producer that waits, or has waited, in this call works on a blocking  *)
(* class with a payload that fits.                                         *)
WaiterOK ==
  \A p \in Producers :
    thr[p].pc \in {"parked", "woken", "timed_out"} =>
      /\ thr[p].payload = "fits"
      /\ Policy[thr[p].class] = "block_timeout"

(* One producer changes place. *)
LEMMA MoveSets ==
  ASSUME TypeOK, NEW p \in Producers, NEW x, thr' = [thr EXCEPT ![p] = x]
  PROVE  \A c \in Class : \A k \in Pc :
           InClass(c, k)' = IF x.class = c /\ x.pc = k THEN InClass(c, k) \cup {p}
                                                      ELSE InClass(c, k) \ {p}
BY DEF TypeOK, InClass

(* How the calls in flight change when one producer changes place. *)
LEMMA MoveFlight ==
  ASSUME TypeOK, NEW p \in Producers, NEW x, thr' = [thr EXCEPT ![p] = x],
         NEW c \in Class
  PROVE  /\ x.class = c /\ x.pc # "idle" => InFlight(c)' = InFlight(c) \cup {p}
         /\ x.class # c \/ x.pc = "idle" => InFlight(c)' = InFlight(c) \ {p}
BY DEF TypeOK, InFlight

(* Some waiters of one class are woken. *)
LEMMA WakeSets ==
  ASSUME TypeOK, NEW c \in Class, NEW S \in SUBSET Parked(c), thr' = Wake(S)
  PROVE  \A d \in Class :
           /\ Parked(d)' = Parked(d) \ S
           /\ InClass(d, "woken")' = InClass(d, "woken") \cup (IF d = c THEN S ELSE {})
           /\ InFlight(d)' = InFlight(d)
<1>1. \A p \in Producers : thr'[p] =
        IF p \in S THEN [thr[p] EXCEPT !.pc = "woken"] ELSE thr[p]
  BY DEF Wake
<1>2. \A p \in S : p \in Producers /\ thr[p].pc = "parked" /\ thr[p].class = c
  BY DEF Parked, InClass
<1>3. \A p \in Producers :
        /\ thr'[p].class = thr[p].class
        /\ thr'[p].pc = IF p \in S THEN "woken" ELSE thr[p].pc
  BY <1>1 DEF TypeOK, Call
<1>4. QED BY <1>2, <1>3 DEF Parked, InClass, InFlight

(* The sets are finite. *)
LEMMA FinitePlaces ==
  ASSUME NEW c \in Class
  PROVE  /\ IsFiniteSet(InFlight(c)) /\ Cardinality(InFlight(c)) \in Nat
         /\ IsFiniteSet(InClass(c, "woken"))
         /\ Cardinality(InClass(c, "woken")) \in Nat
<1>1. InFlight(c) \subseteq Producers /\ InClass(c, "woken") \subseteq Producers
  BY DEF InFlight, InClass
<1>2. QED BY <1>1, IngressAssumption, FS_Subset, FS_CardinalityType

(* WaiterOK is inductive. *)
LEMMA WaiterStep == TypeOK /\ WaiterOK /\ [Next]_vars => WaiterOK'
<1> SUFFICES ASSUME TypeOK, WaiterOK, [Next]_vars PROVE WaiterOK'
  OBVIOUS
<1>1. ASSUME NEW p \in Producers, StartCall(p) PROVE WaiterOK'
  BY <1>1 DEF StartCall, WaiterOK, TypeOK, Call
<1>2. ASSUME NEW p \in Producers, NEW s, Return(p, s) PROVE WaiterOK'
  BY <1>2 DEF Return, WaiterOK, TypeOK, Idle
<1>3. ASSUME NEW p \in Producers, PushFullWait(p) PROVE WaiterOK'
  BY <1>3 DEF PushFullWait, FullFor, WaiterOK, TypeOK, Call
<1>4. ASSUME NEW p \in Producers,
             DeadlinePasses(p) \/ WaitTimesOut(p) \/ SpuriousWake(p)
      PROVE  WaiterOK'
  BY <1>4 DEF DeadlinePasses, WaitTimesOut, SpuriousWake, WaiterOK, TypeOK, Call
<1>5. ASSUME NEW c \in Class, NEW S \in SUBSET Parked(c), thr' = Wake(S)
      PROVE  WaiterOK'
  <2>1. \A p \in Producers :
          /\ thr'[p].class = thr[p].class /\ thr'[p].payload = thr[p].payload
          /\ thr'[p].pc = thr[p].pc \/ thr[p].pc = "parked"
    BY <1>5 DEF Wake, TypeOK, Call, Parked, InClass
  <2>2. QED BY <2>1 DEF WaiterOK
<1>6. ASSUME NEW c \in Class, NotifyOne(c) \/ NotifyAll(c) \/ thr' = thr
      PROVE  WaiterOK'
  <2>1. CASE thr' = thr BY <2>1 DEF WaiterOK
  <2>2. CASE NotifyAll(c) BY <2>2, <1>5 DEF NotifyAll
  <2>3. CASE NotifyOne(c)
    <3>1. CASE thr' = thr BY <3>1, <2>1
    <3>2. ASSUME NEW p \in Parked(c), thr' = Wake({p}) PROVE WaiterOK'
      BY <3>2, <1>5
    <3>3. QED BY <2>3, <3>1, <3>2 DEF NotifyOne
  <2>4. QED BY <1>6, <2>1, <2>2, <2>3
<1>7. CASE DrainStep
  BY <1>7, <1>6, OrderTypes DEF DrainStep, PopOne, TakeAll, TypeOK
<1>8. ASSUME NEW c \in Class, HandlePop(c) PROVE WaiterOK'
  BY <1>8, <1>6 DEF HandlePop, PopOne
<1>9. CASE ShutdownFlag BY <1>9 DEF ShutdownFlag, WaiterOK
<1>10. CASE CloseNext BY <1>10, <1>6, OrderTypes DEF CloseNext
<1>11. CASE UNCHANGED vars BY <1>11 DEF vars, WaiterOK
<1>12. QED
  BY <1>1, <1>2, <1>3, <1>4, <1>7, <1>8, <1>9, <1>10, <1>11
     DEF Next, ProducerStep, LockedPush, RefuseClosed, PushOnClosed,
         PushOversize, PushCoalescing, PushWithRoom, PushFullReject,
         PushFullDropOldest, PushFullExpired
-----------------------------------------------------------------------------
(* Every started call is counted once: the second half of Accounting.      *)

CallsCounted ==
  \A c \in Class : attempts[c] = Outcomes(q[c]) + Cardinality(InFlight(c))

(* The number of outcomes counted is a number. *)
LEMMA OutcomesNat == ASSUME TypeOK, NEW c \in Class PROVE Outcomes(q[c]) \in Nat
<1>1. Counts(q[c]) BY Fields DEF TypeOK
<1>2. QED BY <1>1 DEF Counts, Outcomes

(* A call that returns with one more outcome counted. *)
LEMMA ReturnCounted ==
  ASSUME TypeOK, CallsCounted, NEW p \in Producers, thr[p].pc # "idle",
         NEW s, Outcomes(s) = Outcomes(q[thr[p].class]) + 1, Return(p, s)
  PROVE  CallsCounted'
<1> SUFFICES ASSUME NEW c \in Class
             PROVE  attempts'[c] = Outcomes(q'[c]) + Cardinality(InFlight(c)')
  BY DEF CallsCounted
<1>0. /\ attempts' = attempts /\ q' = [q EXCEPT ![thr[p].class] = s]
      /\ thr' = [thr EXCEPT ![p] = Idle]
  BY DEF Return
<1>1. InFlight(c)' = InFlight(c) \ {p}
  <2>1. Idle.pc = "idle" BY DEF Idle
  <2>2. QED BY <1>0, <2>1, MoveFlight
<1>2. attempts[c] = Outcomes(q[c]) + Cardinality(InFlight(c))
  BY DEF CallsCounted
<1>3. IsFiniteSet(InFlight(c)) /\ Cardinality(InFlight(c)) \in Nat
  BY FinitePlaces
<1>4. Outcomes(q[c]) \in Nat BY OutcomesNat
<1>5. CASE c = thr[p].class
  <2>1. p \in InFlight(c) BY <1>5 DEF InFlight
  <2>2. Cardinality(InFlight(c)') = Cardinality(InFlight(c)) - 1
    BY <1>1, <1>3, <2>1, FS_RemoveElement
  <2>3. q'[c] = s BY <1>0, <1>5 DEF TypeOK
  <2>4. QED BY <1>0, <1>2, <1>3, <1>4, <1>5, <2>2, <2>3
<1>6. CASE c # thr[p].class
  <2>1. InFlight(c)' = InFlight(c) BY <1>1, <1>6 DEF InFlight
  <2>2. q'[c] = q[c] BY <1>0, <1>6 DEF TypeOK
  <2>3. QED BY <1>0, <1>2, <2>1, <2>2
<1>7. QED BY <1>5, <1>6

(* A step that starts and ends no call. *)
LEMMA SameCounted ==
  ASSUME CallsCounted, attempts' = attempts,
         \A c \in Class : /\ Outcomes(q'[c]) = Outcomes(q[c])
                          /\ InFlight(c)' = InFlight(c)
  PROVE  CallsCounted'
BY DEF CallsCounted

(* Notifications start and end no call. *)
LEMMA NotifyFlight ==
  ASSUME TypeOK, NEW c \in Class, NotifyOne(c) \/ NotifyAll(c) \/ thr' = thr
  PROVE  \A d \in Class : InFlight(d)' = InFlight(d)
<1>1. CASE thr' = thr BY <1>1 DEF InFlight
<1>2. CASE NotifyAll(c) BY <1>2, WakeSets DEF NotifyAll
<1>3. ASSUME NEW p \in Parked(c), thr' = Wake({p})
      PROVE  \A d \in Class : InFlight(d)' = InFlight(d)
  <2>1. {p} \in SUBSET Parked(c) OBVIOUS
  <2>2. QED BY <1>3, <2>1, WakeSets
<1>4. QED BY <1>1, <1>2, <1>3 DEF NotifyOne

(* Every step keeps started calls equal to outcomes and calls in flight. *)
LEMMA CountedStep ==
  TypeOK /\ QInv /\ CallsCounted /\ [Next]_vars => CallsCounted'
<1> SUFFICES ASSUME TypeOK, QInv, CallsCounted, [Next]_vars PROVE CallsCounted'
  OBVIOUS
<1>0. q \in [Class -> QueueState] BY DEF TypeOK
<1>1. ASSUME NEW p \in Producers, StartCall(p) PROVE CallsCounted'
  <2>a. PICK c \in Class, payload \in {"fits", "oversize"}, honor \in BOOLEAN :
          /\ attempts' = [attempts EXCEPT ![c] = @ + 1]
          /\ thr' = [thr EXCEPT ![p] =
               [pc |-> IF shutting_down THEN "refuse" ELSE "push",
                class |-> c, payload |-> payload,
                deadline |-> IF /\ honor /\ ~ZeroTimeout /\ payload = "fits"
                                /\ Policy[c] = "block_timeout"
                             THEN "ahead" ELSE "none"]]
    BY <1>1 DEF StartCall
  <2> DEFINE x == [pc |-> IF shutting_down THEN "refuse" ELSE "push",
                   class |-> c, payload |-> payload,
                   deadline |-> IF /\ honor /\ ~ZeroTimeout /\ payload = "fits"
                                   /\ Policy[c] = "block_timeout"
                                THEN "ahead" ELSE "none"]
  <2>1. /\ attempts' = [attempts EXCEPT ![c] = @ + 1]
        /\ thr' = [thr EXCEPT ![p] = x]
        /\ x.class = c /\ x.pc # "idle"
    BY <2>a
  <2> HIDE DEF x
  <2>2. q' = q /\ thr[p].pc = "idle" BY <1>1 DEF StartCall
  <2> SUFFICES ASSUME NEW d \in Class
               PROVE  attempts'[d] = Outcomes(q'[d]) + Cardinality(InFlight(d)')
    BY DEF CallsCounted
  <2>3. /\ attempts[d] = Outcomes(q[d]) + Cardinality(InFlight(d))
        /\ IsFiniteSet(InFlight(d)) /\ Cardinality(InFlight(d)) \in Nat
        /\ Outcomes(q[d]) \in Nat /\ attempts[d] \in Nat
    BY FinitePlaces, OutcomesNat DEF CallsCounted, TypeOK
  <2>4. p \notin InFlight(d) BY <2>2 DEF InFlight
  <2>5. CASE d = c
    <3>1. InFlight(d)' = InFlight(d) \cup {p} BY <2>1, <2>5, MoveFlight
    <3>2. Cardinality(InFlight(d)') = Cardinality(InFlight(d)) + 1
      BY <2>3, <2>4, <3>1, FS_AddElement
    <3>3. attempts'[d] = attempts[d] + 1 BY <2>1, <2>5 DEF TypeOK
    <3>4. QED BY <2>2, <2>3, <3>2, <3>3
  <2>6. CASE d # c
    <3>0. InFlight(d)' = InFlight(d) \ {p} BY <2>1, <2>6, MoveFlight
    <3>1. InFlight(d)' = InFlight(d) BY <2>4, <3>0
    <3>2. attempts'[d] = attempts[d] BY <2>1, <2>6 DEF TypeOK
    <3>3. QED BY <2>2, <2>3, <3>1, <3>2
  <2>7. QED BY <2>5, <2>6
<1>2. ASSUME NEW p \in Producers, RefuseClosed(p) PROVE CallsCounted'
  BY <1>2, OwnQueue, RefusalEffects, ReturnCounted DEF RefuseClosed
<1>3. ASSUME NEW p \in Producers, AtLoop(p) PROVE thr[p].pc # "idle"
  BY <1>3 DEF AtLoop
<1>4. ASSUME NEW p \in Producers, PushOnClosed(p) PROVE CallsCounted'
  BY <1>3, <1>4, OwnQueue, RefusalEffects, ReturnCounted DEF PushOnClosed
<1>5. ASSUME NEW p \in Producers,
             PushOversize(p) \/ PushFullReject(p) \/ PushFullExpired(p)
      PROVE  CallsCounted'
  BY <1>3, <1>5, OwnQueue, RefusalEffects, ReturnCounted
     DEF PushOversize, PushFullReject, PushFullExpired, FullFor, OpenFor
<1>6. ASSUME NEW p \in Producers, PushCoalescing(p) PROVE CallsCounted'
  BY <1>3, <1>6, OwnQueue, PushCoalesceEffects, ReturnCounted
     DEF PushCoalescing, OpenFor
<1>7. ASSUME NEW p \in Producers, PushWithRoom(p) PROVE CallsCounted'
  BY <1>3, <1>7, OwnQueue, PushFreeEffects, ReturnCounted
     DEF PushWithRoom, OpenFor
<1>8. ASSUME NEW p \in Producers, PushFullDropOldest(p) PROVE CallsCounted'
  <2>1. Depth(q[thr[p].class]) > 0
    <3>1. Depth(q[thr[p].class]) \in Nat BY OwnQueue, Fields DEF Counts
    <3>2. QED BY <1>8, <3>1, OwnQueue DEF PushFullDropOldest, FullFor, Full
  <2>2. Outcomes(DropOldestAndPush(q[thr[p].class])) = Outcomes(q[thr[p].class]) + 1
    BY <2>1, OwnQueue, DropOldestEffects
  <2>3. QED BY <1>3, <1>8, <2>2, ReturnCounted DEF PushFullDropOldest, FullFor, OpenFor
<1>9. ASSUME NEW p \in Producers, PushFullWait(p) PROVE CallsCounted'
  <2>1. /\ attempts' = attempts
        /\ q' = [q EXCEPT ![thr[p].class] = CountWait(q[thr[p].class])]
        /\ thr' = [thr EXCEPT ![p].pc = "parked"] /\ thr[p].pc # "idle"
    BY <1>3, <1>9 DEF PushFullWait, FullFor, OpenFor
  <2>2. \A c \in Class : InFlight(c)' = InFlight(c)
    BY <2>1 DEF InFlight, TypeOK, Call
  <2>3. \A c \in Class : Outcomes(q'[c]) = Outcomes(q[c])
    BY <1>0, <2>1, OwnQueue, RefusalEffects
  <2>4. QED BY <2>1, <2>2, <2>3, SameCounted
<1>10. ASSUME NEW p \in Producers,
              DeadlinePasses(p) \/ WaitTimesOut(p) \/ SpuriousWake(p)
       PROVE  CallsCounted'
  <2>1. \A c \in Class : InFlight(c)' = InFlight(c)
    BY <1>10 DEF DeadlinePasses, WaitTimesOut, SpuriousWake, InFlight, TypeOK, Call
  <2>2. attempts' = attempts /\ q' = q
    BY <1>10 DEF DeadlinePasses, WaitTimesOut, SpuriousWake
  <2>3. QED BY <2>1, <2>2, SameCounted
<1>11. ASSUME NEW c \in Class, PopOne(c) \/ TakeAll(c), attempts' = attempts
       PROVE  CallsCounted'
  <2>1. \A d \in Class : InFlight(d)' = InFlight(d)
    BY <1>11, NotifyFlight DEF PopOne, TakeAll
  <2>2. \A d \in Class : Outcomes(q'[d]) = Outcomes(q[d])
    BY <1>0, <1>11, ConsumeEffects DEF PopOne, TakeAll
  <2>3. QED BY <1>11, <2>1, <2>2, SameCounted
<1>12. CASE DrainStep
  BY <1>12, <1>11, OrderTypes DEF DrainStep, TypeOK
<1>13. ASSUME NEW c \in Class, HandlePop(c) PROVE CallsCounted'
  BY <1>13, <1>11 DEF HandlePop
<1>14. CASE ShutdownFlag
  BY <1>14, SameCounted DEF ShutdownFlag, InFlight
<1>15. CASE CloseNext
  <2>1. \A d \in Class : InFlight(d)' = InFlight(d)
    BY <1>15, NotifyFlight, OrderTypes DEF CloseNext
  <2>2. attempts' = attempts /\ q' = q BY <1>15 DEF CloseNext
  <2>3. QED BY <2>1, <2>2, SameCounted
<1>16. CASE UNCHANGED vars
  BY <1>16, SameCounted DEF vars, InFlight
<1>17. QED
  BY <1>1, <1>2, <1>4, <1>5, <1>6, <1>7, <1>8, <1>9, <1>10, <1>12, <1>13,
     <1>14, <1>15, <1>16 DEF Next, ProducerStep, LockedPush

(* Nothing is lost without being counted: every accepted packet and every  *)
(* started call of every class is accounted for in every reachable state.  *)
THEOREM AllAccounted == Spec => []Accounting
<1>1. Init => CallsCounted
  <2> SUFFICES ASSUME Init, NEW c \in Class
               PROVE  attempts[c] = Outcomes(q[c]) + Cardinality(InFlight(c))
    BY DEF CallsCounted
  <2>1. InFlight(c) = {} BY DEF Init, InFlight, Idle
  <2>2. Cardinality(InFlight(c)) = 0 BY <2>1, FS_EmptySet
  <2>3. Outcomes(q[c]) = 0 BY DEF Init, Outcomes, NewQueue
  <2>4. attempts[c] = 0 BY DEF Init
  <2>5. QED BY <2>2, <2>3, <2>4
<1>2. QInv /\ CallsCounted => Accounting
  BY DEF QInv, QueueOK, CallsCounted, Outcomes, Accounting
<1>3. QED BY <1>1, <1>2, CountedStep, QueueInvariant, PTL DEF Spec
-----------------------------------------------------------------------------
(* No lost wake-up                                                         *)

Woken(c) == InClass(c, "woken")

(* The two halves of NoLostWakeup, for one class. *)
SlotsMatched(c) ==
  Parked(c) # {} => Cap(c) - Depth(q[c]) <= Cardinality(Woken(c))

ClosedAwake(c) == c \in closed => Parked(c) = {}

WakeInv == \A c \in Class : SlotsMatched(c) /\ ClosedAwake(c)

(* A step that parks nobody on c, takes nobody out of Woken(c), and leaves *)
(* c's depth and its being open alone.                                     *)
LEMMA QuietClass ==
  ASSUME TypeOK, WakeInv, NEW c \in Class,
         Parked(c)' \subseteq Parked(c), Woken(c) \subseteq Woken(c)',
         Depth(q[c])' >= Depth(q[c]), Depth(q[c])' \in Nat,
         c \in closed' => c \in closed
  PROVE  SlotsMatched(c)' /\ ClosedAwake(c)'
<1>0. Depth(q[c]) \in Nat /\ Cap(c) \in Nat
  BY CapPositive, Fields DEF TypeOK, Counts
<1>1. IsFiniteSet(Woken(c)) /\ IsFiniteSet(Woken(c)')
      /\ Cardinality(Woken(c)) \in Nat /\ Cardinality(Woken(c)') \in Nat
  <2>1. Woken(c) \subseteq Producers /\ Woken(c)' \subseteq Producers
    BY DEF Woken, InClass
  <2>2. QED BY <2>1, IngressAssumption, FS_Subset, FS_CardinalityType
<1>2. Cardinality(Woken(c)) <= Cardinality(Woken(c)')
  BY <1>1, FS_Subset
<1>3. Cap(c)' = Cap(c) BY DEF Cap
<1>4. Parked(c)' # {} => Cap(c) - Depth(q[c]) <= Cardinality(Woken(c))
  BY DEF WakeInv, SlotsMatched
<1>5. SlotsMatched(c)'
  BY <1>0, <1>1, <1>2, <1>3, <1>4 DEF SlotsMatched
<1>6. ClosedAwake(c)' BY DEF WakeInv, ClosedAwake
<1>7. QED BY <1>5, <1>6

(* A class whose queue is full after the step and that is not closed. *)
LEMMA FullClass ==
  ASSUME NEW c \in Class, Cap(c) \in Nat, Depth(q[c])' \in Nat,
         Depth(q[c])' >= Cap(c), c \notin closed'
  PROVE  SlotsMatched(c)' /\ ClosedAwake(c)'
<1>1. Woken(c)' \subseteq Producers BY DEF Woken, InClass
<1>2. Cardinality(Woken(c)') \in Nat
  BY <1>1, IngressAssumption, FS_Subset, FS_CardinalityType
<1>3. Cap(c)' = Cap(c) BY DEF Cap
<1>4. QED BY <1>2, <1>3 DEF SlotsMatched, ClosedAwake

(* One producer moves; the classes it does not work on are untouched. *)
LEMMA MoveOther ==
  ASSUME TypeOK, NEW p \in Producers, NEW x, thr' = [thr EXCEPT ![p] = x],
         NEW c \in Class, c # thr[p].class, x.class # c \/ x.pc = "idle"
  PROVE  Parked(c)' = Parked(c) /\ Woken(c)' = Woken(c)
BY DEF TypeOK, Parked, Woken, InClass

(* A call returns: what remains to show about its own class. *)
LEMMA ReturnWake ==
  ASSUME TypeOK, WakeInv, NEW p \in Producers, NEW s, Return(p, s),
         NEW c \in Class, c # thr[p].class
  PROVE  SlotsMatched(c)' /\ ClosedAwake(c)'
<1>1. /\ thr' = [thr EXCEPT ![p] = Idle] /\ closed' = closed
      /\ q'[c] = q[c] /\ Idle.pc = "idle"
  BY DEF Return, TypeOK, Idle
<1>2. Parked(c)' = Parked(c) /\ Woken(c)' = Woken(c)
  BY <1>1, MoveOther
<1>3. Depth(q[c])' = Depth(q[c]) /\ Depth(q[c]) \in Nat
  BY <1>1, Fields DEF TypeOK, Counts, Depth
<1>4. QED BY <1>1, <1>2, <1>3, QuietClass

(* A return parks nobody, and uses up a wake-up only if it was the caller's own. *)
LEMMA ReturnOwn ==
  ASSUME TypeOK, NEW p \in Producers, NEW s, Return(p, s), thr[p].pc # "idle",
         NEW c, c = thr[p].class
  PROVE  /\ Parked(c)' \subseteq Parked(c)
         /\ Woken(c)' = Woken(c) \ {p}
         /\ thr[p].pc # "woken" => Woken(c)' = Woken(c)
         /\ q'[c] = s /\ closed' = closed
<1>1. c \in Class BY DEF TypeOK, Call
<1>2. thr' = [thr EXCEPT ![p] = Idle] /\ q'[c] = s /\ closed' = closed
  BY <1>1 DEF Return, TypeOK
<1>3. QED BY <1>2 DEF TypeOK, Parked, Woken, InClass, Idle

(* A refused or oversize call leaves its own class as it was. *)
LEMMA RefusedWake ==
  ASSUME TypeOK, WakeInv, NEW p \in Producers, NEW s, Return(p, s),
         thr[p].pc # "idle", NEW c \in Class, c = thr[p].class,
         Depth(s) = Depth(q[c]), thr[p].pc # "woken" \/ Parked(c) = {}
  PROVE  SlotsMatched(c)' /\ ClosedAwake(c)'
<1>1. /\ Parked(c)' \subseteq Parked(c) /\ closed' = closed /\ q'[c] = s
      /\ thr[p].pc # "woken" => Woken(c)' = Woken(c)
  BY ReturnOwn
<1>2. Depth(q[c])' = Depth(q[c]) /\ Depth(q[c]) \in Nat
  <2>1. Depth(q[c])' = Depth(s) BY <1>1 DEF Depth
  <2>2. QED BY <2>1, Fields DEF TypeOK, Counts
<1>3. CASE thr[p].pc # "woken" BY <1>1, <1>2, <1>3, QuietClass
<1>4. CASE Parked(c) = {} BY <1>1, <1>4 DEF SlotsMatched, ClosedAwake
<1>5. QED BY <1>3, <1>4

(* Notifications: waking some of c's waiters. *)
LEMMA WakeOther ==
  ASSUME TypeOK, WakeInv, NEW c \in Class, NEW S \in SUBSET Parked(c),
         thr' = Wake(S), NEW d \in Class, d # c, q'[d] = q[d],
         d \in closed' => d \in closed
  PROVE  SlotsMatched(d)' /\ ClosedAwake(d)'
<1>1. Parked(d)' \subseteq Parked(d) /\ Woken(d) \subseteq Woken(d)'
  BY WakeSets DEF Woken
<1>2. Depth(q[d])' = Depth(q[d]) /\ Depth(q[d]) \in Nat
  BY Fields DEF TypeOK, Counts, Depth
<1>3. QED BY <1>1, <1>2, QuietClass

(* After everybody is woken every slot is covered and nobody is parked. *)
LEMMA WakeAllOwn ==
  ASSUME TypeOK, NEW c \in Class, thr' = Wake(Parked(c))
  PROVE  SlotsMatched(c)' /\ ClosedAwake(c)'
<1>1. Parked(c)' = {} BY WakeSets
<1>2. QED BY <1>1 DEF SlotsMatched, ClosedAwake

(* pop: one slot freed, one waiter woken if there is one. *)
LEMMA PopWake ==
  ASSUME TypeOK, QInv, WakeInv, NEW c \in Class, PopOne(c), closed' = closed
  PROVE  WakeInv'
<1>0. q[c] \in QueueState /\ QueueOK(q[c], Cap(c)) /\ Cap(c) \in Nat
      /\ Depth(q[c]) \in Nat
  BY CapPositive, Fields DEF TypeOK, QInv, Counts
<1>1. CASE q[c].items = << >>
  <2>1. thr' = thr /\ q' = q BY <1>1 DEF PopOne, Pop, TypeOK
  <2>2. QED
    BY <2>1 DEF WakeInv, SlotsMatched, ClosedAwake, Parked, Woken, InClass, Cap, Depth
<1>2. CASE q[c].items # << >>
  <2>1. q' = [q EXCEPT ![c] = Pop(q[c])] /\ NotifyOne(c)
    BY <1>2 DEF PopOne
  <2>2. Depth(q'[c]) = Depth(q[c]) - 1
    BY <1>0, <1>2, <2>1, PopOK DEF TypeOK
  <2>3. \A d \in Class : d # c => q'[d] = q[d] BY <2>1 DEF TypeOK
  <2>4. CASE Parked(c) = {} /\ thr' = thr
    <3>1. ASSUME NEW d \in Class, d # c PROVE SlotsMatched(d)' /\ ClosedAwake(d)'
      BY <2>3, <2>4, <3>1 DEF WakeInv, SlotsMatched, ClosedAwake, Parked, Woken,
                              InClass, Cap, Depth
    <3>2. Parked(c)' = {} BY <2>4 DEF Parked, InClass
    <3>3. SlotsMatched(c)' /\ ClosedAwake(c)'
      BY <3>2 DEF SlotsMatched, ClosedAwake
    <3>4. QED BY <3>1, <3>3 DEF WakeInv
  <2>5. ASSUME NEW p \in Parked(c), thr' = Wake({p}) PROVE WakeInv'
    <3>0. {p} \in SUBSET Parked(c) OBVIOUS
    <3>1. ASSUME NEW d \in Class, d # c PROVE SlotsMatched(d)' /\ ClosedAwake(d)'
      BY <2>3, <2>5, <3>0, <3>1, WakeOther
    <3>2. Parked(c)' \subseteq Parked(c) /\ Woken(c)' = Woken(c) \cup {p}
      BY <2>5, <3>0, WakeSets DEF Woken
    <3>3. p \notin Woken(c) BY DEF Woken, Parked, InClass
    <3>4. IsFiniteSet(Woken(c)) /\ Cardinality(Woken(c)) \in Nat
      BY FinitePlaces DEF Woken
    <3>5. Cardinality(Woken(c)') = Cardinality(Woken(c)) + 1
      BY <3>2, <3>3, <3>4, FS_AddElement
    <3>6. Cap(c) - Depth(q[c]) <= Cardinality(Woken(c)) /\ c \notin closed
      BY DEF WakeInv, SlotsMatched, ClosedAwake
    <3>7. Depth(q[c])' = Depth(q[c]) - 1 /\ Cap(c)' = Cap(c)
      BY <2>2 DEF Cap, Depth
    <3>8. SlotsMatched(c)'
      BY <1>0, <3>4, <3>5, <3>6, <3>7 DEF SlotsMatched
    <3>9. ClosedAwake(c)' BY <3>6 DEF ClosedAwake
    <3>10. QED BY <3>1, <3>8, <3>9 DEF WakeInv
  <2>6. QED BY <2>1, <2>4, <2>5 DEF NotifyOne
<1>3. QED BY <1>1, <1>2

(* drain_all: everybody is woken. *)
LEMMA DrainWake ==
  ASSUME TypeOK, WakeInv, NEW c \in Class, TakeAll(c), closed' = closed
  PROVE  WakeInv'
<1>0. q[c] \in QueueState /\ Depth(q[c]) \in Nat BY Fields DEF TypeOK, Counts
<1>1. CASE q[c].items = << >>
  <2>1. thr' = thr /\ \A d \in Class : d # c => q'[d] = q[d]
    BY <1>1 DEF TakeAll, TypeOK
  <2>2. q'[c].items = << >>
    BY <1>0, <1>1 DEF TakeAll, TypeOK, DrainAll, QueueState
  <2>3. \A d \in Class : q'[d].items = q[d].items BY <1>1, <2>1, <2>2
  <2>4. QED
    BY <2>1, <2>3 DEF WakeInv, SlotsMatched, ClosedAwake, Parked, Woken, InClass,
                      Cap, Depth
<1>2. CASE q[c].items # << >>
  <2>1. thr' = Wake(Parked(c)) /\ \A d \in Class : d # c => q'[d] = q[d]
    BY <1>2 DEF TakeAll, NotifyAll, TypeOK
  <2>2. ASSUME NEW d \in Class, d # c PROVE SlotsMatched(d)' /\ ClosedAwake(d)'
    BY <2>1, <2>2, WakeOther
  <2>3. SlotsMatched(c)' /\ ClosedAwake(c)' BY <2>1, WakeAllOwn
  <2>4. QED BY <2>2, <2>3 DEF WakeInv
<1>3. QED BY <1>1, <1>2

(* A producer's own class when its call returns. *)
LEMMA ReturnStep ==
  ASSUME TypeOK, WakeInv, NEW p \in Producers, NEW s, Return(p, s),
         \A c \in Class : c = thr[p].class => SlotsMatched(c)' /\ ClosedAwake(c)'
  PROVE  WakeInv'
BY ReturnWake DEF WakeInv

(* Every step keeps free slots covered by woken producers. *)
LEMMA WakeStep ==
  TypeOK /\ QInv /\ WaiterOK /\ WakeInv /\ [Next]_vars => WakeInv'
<1> SUFFICES ASSUME TypeOK, QInv, WaiterOK, WakeInv, [Next]_vars PROVE WakeInv'
  OBVIOUS
<1>a. ASSUME NEW c \in Class
      PROVE  /\ q[c] \in QueueState /\ Depth(q[c]) \in Nat /\ Cap(c) \in Nat
             /\ QueueOK(q[c], Cap(c))
  BY <1>a, Fields, CapPositive DEF TypeOK, Counts, QInv
<1>b. ASSUME NEW p \in Producers PROVE thr[p].class \in Class
  BY <1>b DEF TypeOK, Call
<1>c. ASSUME NEW c \in Class, Parked(c) # {} PROVE Policy[c] = "block_timeout"
  BY <1>c DEF Parked, InClass, WaiterOK
<1>1. ASSUME NEW p \in Producers, StartCall(p) PROVE WakeInv'
  <2>1. q' = q /\ closed' = closed BY <1>1 DEF StartCall
  <2>2. \A c \in Class : Parked(c)' = Parked(c) /\ Woken(c)' = Woken(c)
    BY <1>1 DEF StartCall, Parked, Woken, InClass, TypeOK, Call
  <2>3. QED BY <2>1, <2>2 DEF WakeInv, SlotsMatched, ClosedAwake, Cap
<1>2. ASSUME NEW p \in Producers, RefuseClosed(p) PROVE WakeInv'
  <2>1. /\ Return(p, RefuseShutdown(q[thr[p].class])) /\ thr[p].pc = "refuse"
        /\ Depth(RefuseShutdown(q[thr[p].class])) = Depth(q[thr[p].class])
    BY <1>2, <1>a, <1>b, RefusalEffects DEF RefuseClosed
  <2>2. QED BY <2>1, RefusedWake, ReturnStep
<1>3. ASSUME NEW p \in Producers, PushOnClosed(p) PROVE WakeInv'
  <2>1. /\ Return(p, RefuseShutdown(q[thr[p].class])) /\ thr[p].pc # "idle"
        /\ Depth(RefuseShutdown(q[thr[p].class])) = Depth(q[thr[p].class])
    BY <1>3, <1>a, <1>b, RefusalEffects DEF PushOnClosed, AtLoop
  <2>2. \A c \in Class : c = thr[p].class => Parked(c) = {}
    BY <1>3 DEF PushOnClosed, WakeInv, ClosedAwake
  <2>3. QED BY <2>1, <2>2, RefusedWake, ReturnStep
<1>4. ASSUME NEW p \in Producers, PushOversize(p) PROVE WakeInv'
  <2>1. /\ Return(p, Refuse(q[thr[p].class])) /\ thr[p].pc # "idle"
        /\ Depth(Refuse(q[thr[p].class])) = Depth(q[thr[p].class])
    BY <1>4, <1>a, <1>b, RefusalEffects DEF PushOversize, OpenFor, AtLoop
  <2>2. thr[p].pc # "woken" BY <1>4 DEF PushOversize, WaiterOK
  <2>3. QED BY <2>1, <2>2, RefusedWake, ReturnStep
<1>5. ASSUME NEW p \in Producers, NEW s, Return(p, s), thr[p].pc # "idle",
             Policy[thr[p].class] # "block_timeout"
      PROVE  WakeInv'
  <2>1. ASSUME NEW c \in Class, c = thr[p].class
        PROVE  SlotsMatched(c)' /\ ClosedAwake(c)'
    <3>1. Parked(c)' \subseteq Parked(c) BY <1>5, <2>1, ReturnOwn
    <3>2. Parked(c) = {} BY <1>c, <1>5, <2>1
    <3>3. QED BY <3>1, <3>2 DEF SlotsMatched, ClosedAwake
  <2>2. QED BY <1>5, <2>1, ReturnStep
<1>6. ASSUME NEW p \in Producers,
             PushCoalescing(p) \/ PushFullReject(p) \/ PushFullDropOldest(p)
      PROVE  WakeInv'
  BY <1>5, <1>6 DEF PushCoalescing, PushFullReject, PushFullDropOldest, FullFor,
                    OpenFor, AtLoop
<1>7. ASSUME NEW p \in Producers, PushWithRoom(p) PROVE WakeInv'
  <2>1. Return(p, PushFree(q[thr[p].class])) /\ thr[p].pc # "idle"
    BY <1>7 DEF PushWithRoom, OpenFor, AtLoop
  <2>2. ASSUME NEW c \in Class, c = thr[p].class
        PROVE  SlotsMatched(c)' /\ ClosedAwake(c)'
    <3>1. /\ Parked(c)' \subseteq Parked(c) /\ Woken(c)' = Woken(c) \ {p}
          /\ q'[c] = PushFree(q[c]) /\ closed' = closed
      BY <2>1, <2>2, ReturnOwn
    <3>2. Depth(q[c])' = Depth(q[c]) + 1
      <4>1. Depth(PushFree(q[c])) = Depth(q[c]) + 1 BY <1>a, PushFreeEffects
      <4>2. QED BY <3>1, <4>1 DEF Depth
    <3>3. IsFiniteSet(Woken(c)) /\ Cardinality(Woken(c)) \in Nat
      BY FinitePlaces DEF Woken
    <3>4. /\ Cardinality(Woken(c)') \in Nat
          /\ Cardinality(Woken(c)') >= Cardinality(Woken(c)) - 1
      <4>1. IsFiniteSet(Woken(c) \ {p}) BY <3>3, FS_RemoveElement
      <4>2. Cardinality(Woken(c) \ {p}) \in Nat BY <4>1, FS_CardinalityType
      <4>3. Cardinality(Woken(c) \ {p}) >= Cardinality(Woken(c)) - 1
        BY <3>3, FS_RemoveElement
      <4>4. QED BY <3>1, <4>2, <4>3
    <3>5. Parked(c)' # {} => Cap(c) - Depth(q[c]) <= Cardinality(Woken(c))
      BY <3>1 DEF WakeInv, SlotsMatched
    <3>6. Cap(c)' = Cap(c) BY DEF Cap
    <3>7. SlotsMatched(c)'
      BY <1>a, <3>2, <3>3, <3>4, <3>5, <3>6 DEF SlotsMatched
    <3>8. ClosedAwake(c)' BY <3>1 DEF WakeInv, ClosedAwake
    <3>9. QED BY <3>7, <3>8
  <2>3. QED BY <2>1, <2>2, ReturnStep
<1>8. ASSUME NEW p \in Producers, PushFullExpired(p) PROVE WakeInv'
  <2>1. /\ Return(p, Refuse(q[thr[p].class])) /\ thr[p].pc # "idle"
        /\ thr[p].class \notin closed
        /\ Depth(q[thr[p].class]) >= Cap(thr[p].class)
    BY <1>8 DEF PushFullExpired, FullFor, Full, OpenFor, AtLoop
  <2>2. ASSUME NEW c \in Class, c = thr[p].class
        PROVE  SlotsMatched(c)' /\ ClosedAwake(c)'
    <3>1. q'[c] = Refuse(q[c]) /\ closed' = closed BY <2>1, <2>2, ReturnOwn
    <3>2. Depth(q[c])' = Depth(q[c])
      <4>1. Depth(Refuse(q[c])) = Depth(q[c]) BY <1>a, RefusalEffects
      <4>2. QED BY <3>1, <4>1 DEF Depth
    <3>3. QED BY <1>a, <2>1, <2>2, <3>1, <3>2, FullClass
  <2>3. QED BY <2>1, <2>2, ReturnStep
<1>9. ASSUME NEW p \in Producers, PushFullWait(p) PROVE WakeInv'
  <2>0. /\ thr' = [thr EXCEPT ![p].pc = "parked"] /\ closed' = closed
        /\ q' = [q EXCEPT ![thr[p].class] = CountWait(q[thr[p].class])]
        /\ thr[p].class \notin closed
        /\ Depth(q[thr[p].class]) >= Cap(thr[p].class)
    BY <1>9 DEF PushFullWait, FullFor, Full, OpenFor
  <2>1. ASSUME NEW c \in Class, c = thr[p].class
        PROVE  SlotsMatched(c)' /\ ClosedAwake(c)'
    <3>1. q'[c] = CountWait(q[c]) BY <2>0, <2>1 DEF TypeOK
    <3>2. Depth(q[c])' = Depth(q[c])
      <4>1. Depth(CountWait(q[c])) = Depth(q[c]) BY <1>a, RefusalEffects
      <4>2. QED BY <3>1, <4>1 DEF Depth
    <3>3. QED BY <1>a, <2>0, <2>1, <3>2, FullClass
  <2>2. ASSUME NEW c \in Class, c # thr[p].class
        PROVE  SlotsMatched(c)' /\ ClosedAwake(c)'
    <3>1. q'[c] = q[c] BY <2>0, <2>2 DEF TypeOK
    <3>2. Parked(c)' = Parked(c) /\ Woken(c)' = Woken(c)
      BY <2>0, <2>2 DEF Parked, Woken, InClass, TypeOK, Call
    <3>3. Depth(q[c])' = Depth(q[c]) BY <3>1 DEF Depth
    <3>4. QED BY <1>a, <2>0, <3>2, <3>3, QuietClass
  <2>3. QED BY <2>1, <2>2 DEF WakeInv
<1>10. ASSUME NEW p \in Producers,
              DeadlinePasses(p) \/ WaitTimesOut(p) \/ SpuriousWake(p)
       PROVE  WakeInv'
  <2>1. q' = q /\ closed' = closed
    BY <1>10 DEF DeadlinePasses, WaitTimesOut, SpuriousWake
  <2>a. \A o \in Producers :
          /\ thr'[o].class = thr[o].class
          /\ thr'[o].pc = "parked" => thr[o].pc = "parked"
          /\ thr[o].pc = "woken" => thr'[o].pc = "woken"
    BY <1>10 DEF DeadlinePasses, WaitTimesOut, SpuriousWake, TypeOK, Call
  <2>2. \A c \in Class : Parked(c)' \subseteq Parked(c) /\ Woken(c) \subseteq Woken(c)'
    BY <2>a DEF Parked, Woken, InClass
  <2>3. \A c \in Class : Depth(q[c])' = Depth(q[c]) BY <2>1 DEF Depth
  <2>4. QED BY <1>a, <2>1, <2>2, <2>3, QuietClass DEF WakeInv
<1>11. CASE DrainStep
  BY <1>11, OrderTypes, PopWake, DrainWake DEF DrainStep, TypeOK
<1>12. ASSUME NEW c \in Class, HandlePop(c) PROVE WakeInv'
  BY <1>12, PopWake DEF HandlePop
<1>13. CASE ShutdownFlag
  BY <1>13 DEF ShutdownFlag, WakeInv, SlotsMatched, ClosedAwake, Parked, Woken,
               InClass, Cap
<1>14. CASE CloseNext
  <2>1. PICK c \in Class : thr' = Wake(Parked(c)) /\ closed' = closed \cup {c}
    BY <1>14, OrderTypes DEF CloseNext, NotifyAll
  <2>2. q' = q BY <1>14 DEF CloseNext
  <2>3. ASSUME NEW d \in Class, d # c PROVE SlotsMatched(d)' /\ ClosedAwake(d)'
    BY <2>1, <2>2, <2>3, WakeOther
  <2>4. SlotsMatched(c)' /\ ClosedAwake(c)' BY <2>1, WakeAllOwn
  <2>5. QED BY <2>3, <2>4 DEF WakeInv
<1>15. CASE UNCHANGED vars
  BY <1>15 DEF vars, WakeInv, SlotsMatched, ClosedAwake, Parked, Woken, InClass, Cap
<1>16. QED
  BY <1>1, <1>2, <1>3, <1>4, <1>6, <1>7, <1>8, <1>9, <1>10, <1>11, <1>12,
     <1>13, <1>14, <1>15 DEF Next, ProducerStep, LockedPush

(* While a producer sleeps, every free slot of its class has a woken       *)
(* producer coming for it, and nobody sleeps on a closed class.            *)
THEOREM NobodyForgotten == Spec => []NoLostWakeup
<1>1. Init => WaiterOK /\ WakeInv
  <2>1. ASSUME Init PROVE WaiterOK
    BY <2>1 DEF Init, WaiterOK, Idle
  <2>2. ASSUME Init, NEW c \in Class PROVE Parked(c) = {}
    BY <2>2 DEF Init, Parked, InClass, Idle
  <2>3. QED BY <2>1, <2>2 DEF WakeInv, SlotsMatched, ClosedAwake
<1>2. WakeInv => NoLostWakeup
  BY DEF WakeInv, SlotsMatched, ClosedAwake, NoLostWakeup, Woken
<1>3. QED BY <1>1, <1>2, QueueInvariant, WaiterStep, WakeStep, PTL DEF Spec
-----------------------------------------------------------------------------
(* Bounded waiting                                                         *)

(* How many of the packets a queue has accepted are no longer in it. *)
Gone(s) == s.accepted - Depth(s)

(* No critical section of a producer brings a packet back. *)
LEMMA PushGone ==
  ASSUME NEW s \in QueueState, NEW cap \in Nat \ {0}, QueueOK(s, cap)
  PROVE  /\ Gone(Refuse(s)) >= Gone(s) /\ Gone(RefuseShutdown(s)) >= Gone(s)
         /\ Gone(CountWait(s)) >= Gone(s) /\ Gone(PushFree(s)) >= Gone(s)
         /\ cap = 1 => Gone(PushCoalesce(s)) >= Gone(s)
         /\ Depth(s) >= cap => Gone(DropOldestAndPush(s)) >= Gone(s)
<1>0. Counts(s) BY Fields
<1>1. /\ Gone(Refuse(s)) >= Gone(s) /\ Gone(RefuseShutdown(s)) >= Gone(s)
      /\ Gone(CountWait(s)) >= Gone(s)
  <2>1. Gone(s) \in Int BY <1>0 DEF Gone, Counts
  <2>2. /\ Gone(Refuse(s)) = Gone(s) /\ Gone(RefuseShutdown(s)) = Gone(s)
        /\ Gone(CountWait(s)) = Gone(s)
    BY RefusalEffects, Zenon DEF Gone
  <2>3. QED BY <2>1, <2>2
<1>2. Gone(PushFree(s)) >= Gone(s)
  <2>1. Depth(PushFree(s)) = Depth(s) + 1 /\ PushFree(s).accepted = s.accepted + 1
    BY PushFreeFields
  <2>2. QED BY <1>0, <2>1 DEF Gone, Counts
<1>3. ASSUME cap = 1 PROVE Gone(PushCoalesce(s)) >= Gone(s)
  <2>1. CASE s.items = << >> BY <2>1, <1>2 DEF PushCoalesce
  <2>2. CASE s.items # << >>
    <3>1. /\ PushCoalesce(s).items = << s.accepted + 1 >>
          /\ PushCoalesce(s).accepted = s.accepted + 1
      BY <2>2 DEF PushCoalesce, QueueState
    <3>2. Depth(PushCoalesce(s)) = 1 BY <3>1 DEF Depth
    <3>3. Depth(s) \in Nat /\ Depth(s) # 0 BY <2>2, Fields DEF Depth
    <3>4. QED BY <3>1, <3>2, <3>3, <1>0 DEF Gone, Counts
  <2>3. QED BY <2>1, <2>2
<1>4. ASSUME Depth(s) >= cap PROVE Gone(DropOldestAndPush(s)) >= Gone(s)
  <2> DEFINE t == [s EXCEPT !.items = Tail(@), !.dropped = @ + 1]
  <2>1. Depth(s) > 0 BY <1>4, <1>0 DEF Counts
  <2>2. /\ t \in QueueState /\ Depth(t) = Depth(s) - 1
        /\ t.accepted = s.accepted
    BY <2>1, EvictOK
  <2> HIDE DEF t
  <2>3. Depth(PushFree(t)) = Depth(t) + 1 /\ PushFree(t).accepted = t.accepted + 1
    BY <2>2, PushFreeFields
  <2>4. Gone(PushFree(t)) >= Gone(s)
    BY <2>1, <2>2, <2>3, <1>0 DEF Gone, Counts
  <2>5. QED BY <2>4 DEF DropOldestAndPush, t
<1>5. QED BY <1>1, <1>2, <1>3, <1>4

(* A consumer takes the front, or everything. *)
LEMMA ConsumeGone ==
  ASSUME NEW s \in QueueState, NEW cap \in Nat, QueueOK(s, cap)
  PROVE  /\ Gone(Pop(s)) >= Gone(s) /\ Gone(DrainAll(s)) >= Gone(s)
         /\ Depth(Pop(s)) > 0 => Gone(Pop(s)) = Gone(s) + 1
         /\ Depth(DrainAll(s)) = 0
<1>0. Counts(s) BY Fields
<1>1. /\ Depth(Pop(s)) = IF s.items = << >> THEN Depth(s) ELSE Depth(s) - 1
      /\ Pop(s).accepted = s.accepted
  BY PopOK
<1>2. s.items = << >> => Depth(s) = 0
  BY DEF Depth
<1>3. DrainAll(s).items = << >> /\ DrainAll(s).accepted = s.accepted
  BY DEF DrainAll, QueueState
<1>4. Depth(DrainAll(s)) = 0
  BY <1>3 DEF Depth
<1>5. PICK a \in Nat, n \in Nat : s.accepted = a /\ Depth(s) = n
  BY <1>0 DEF Counts
<1>6. Gone(s) = a - n /\ Gone(DrainAll(s)) = a - 0
  BY <1>3, <1>4, <1>5 DEF Gone
<1>7. CASE s.items = << >>
  <2>1. Depth(Pop(s)) = 0 /\ n = 0 /\ Gone(Pop(s)) = a - 0
    BY <1>1, <1>2, <1>5, <1>7 DEF Gone
  <2> QED BY <1>4, <1>6, <2>1
<1>8. CASE s.items # << >>
  <2>1. Gone(Pop(s)) = a - (n - 1)
    BY <1>1, <1>5, <1>8 DEF Gone
  <2> QED BY <1>4, <1>5, <1>6, <2>1
<1> QED BY <1>7, <1>8

(* A step on one queue and all the others. *)
LEMMA GoneUpdate ==
  ASSUME TypeOK, NEW c \in Class, NEW d \in Class, NEW s,
         q' = [q EXCEPT ![d] = s], Gone(s) >= Gone(q[d])
  PROVE  Gone(q'[c]) >= Gone(q[c])
<1>1. CASE c = d BY <1>1 DEF TypeOK
<1>2. CASE c # d
  <2>1. q'[c] = q[c] BY <1>2 DEF TypeOK
  <2>2. Gone(q[c]) \in Int BY Fields DEF TypeOK, Gone, Counts
  <2>3. QED BY <2>1, <2>2
<1>3. QED BY <1>1, <1>2

(* No step brings a packet back or lets one in ahead of those queued. *)
LEMMA GoneGrows ==
  ASSUME TypeOK, QInv, [Next]_vars, NEW c \in Class
  PROVE  Gone(q'[c]) >= Gone(q[c])
<1>0. /\ \A d \in Class : /\ q[d] \in QueueState /\ QueueOK(q[d], Cap(d))
                          /\ Cap(d) \in Nat \ {0}
      /\ Gone(q[c]) \in Int
  BY CapPositive, Fields DEF TypeOK, QInv, Gone, Counts
<1>1. ASSUME q' = q PROVE Gone(q'[c]) >= Gone(q[c])
  BY <1>0, <1>1
<1>2. ASSUME NEW p \in Producers, LockedPush(p) \/ RefuseClosed(p)
      PROVE  Gone(q'[c]) >= Gone(q[c])
  <2> DEFINE d == thr[p].class
  <2>1. d \in Class BY DEF TypeOK, Call
  <2>2. q[d] \in QueueState /\ QueueOK(q[d], Cap(d)) /\ Cap(d) \in Nat \ {0}
    BY <1>0, <2>1
  <2>3. \E s : q' = [q EXCEPT ![d] = s] /\ Gone(s) >= Gone(q[d])
    <3>1. CASE RefuseClosed(p) \/ PushOnClosed(p)
      BY <3>1, <2>2, PushGone DEF RefuseClosed, PushOnClosed, Return
    <3>2. CASE PushOversize(p) \/ PushFullReject(p) \/ PushFullExpired(p)
      BY <3>2, <2>2, PushGone
         DEF PushOversize, PushFullReject, PushFullExpired, Return
    <3>3. CASE PushCoalescing(p)
      <4>1. Cap(d) = 1 BY <3>3, <2>1, CapPositive DEF PushCoalescing
      <4>2. QED BY <3>3, <4>1, <2>2, PushGone DEF PushCoalescing, Return
    <3>4. CASE PushWithRoom(p)
      BY <3>4, <2>2, PushGone DEF PushWithRoom, Return
    <3>5. CASE PushFullDropOldest(p)
      BY <3>5, <2>2, PushGone DEF PushFullDropOldest, FullFor, Full, Return
    <3>6. CASE PushFullWait(p)
      BY <3>6, <2>2, PushGone DEF PushFullWait
    <3>7. QED BY <1>2, <3>1, <3>2, <3>3, <3>4, <3>5, <3>6 DEF LockedPush
  <2>4. QED BY <2>1, <2>3, GoneUpdate
<1>3. ASSUME NEW d \in Class, PopOne(d) \/ TakeAll(d)
      PROVE  Gone(q'[c]) >= Gone(q[c])
  <2>1. \E s : q' = [q EXCEPT ![d] = s] /\ Gone(s) >= Gone(q[d])
    BY <1>0, <1>3, ConsumeGone DEF PopOne, TakeAll
  <2>2. QED BY <2>1, GoneUpdate
<1>4. CASE DrainStep
  BY <1>4, <1>3, OrderTypes DEF DrainStep, TypeOK
<1>5. ASSUME NEW d \in Class, HandlePop(d) PROVE Gone(q'[c]) >= Gone(q[c])
  BY <1>5, <1>3 DEF HandlePop
<1>6. ASSUME NEW p \in Producers, StartCall(p) \/ DeadlinePasses(p)
               \/ WaitTimesOut(p) \/ SpuriousWake(p)
      PROVE  q' = q
  BY <1>6 DEF StartCall, DeadlinePasses, WaitTimesOut, SpuriousWake
<1>7. ASSUME ShutdownFlag \/ CloseNext \/ UNCHANGED vars PROVE q' = q
  BY <1>7 DEF ShutdownFlag, CloseNext, vars
<1>8. QED
  BY <1>1, <1>2, <1>4, <1>5, <1>6, <1>7 DEF Next, ProducerStep

(* The place of a class in the order of drain_for_tick. *)
Turn(c) ==
  CASE c = "control" -> 1 [] c = "reward" -> 2 [] c = "sensory" -> 3
    [] c = "telemetry" -> 4

(* Every class has its turn, and no other class has it. *)
LEMMA TurnOf ==
  ASSUME NEW c \in Class
  PROVE  /\ Turn(c) \in 1 .. 4 /\ DrainOrder[Turn(c)] = c
         /\ \A j \in 1 .. 4 : DrainOrder[j] = c => j = Turn(c)
BY DEF Turn, DrainOrder, Class

(* The tick's visit: nothing enters, the turn passes on, and the class     *)
(* whose turn it is gives up its oldest packet, or everything.             *)
LEMMA VisitStep ==
  ASSUME TypeOK, QInv, DrainStep
  PROVE  /\ drainAt' = IF drainAt = 4 THEN 1 ELSE drainAt + 1
         /\ \A c \in Class :
              /\ q'[c].accepted = q[c].accepted
              /\ Turn(c) = drainAt =>
                   IF c \in {"control", "telemetry"} THEN Depth(q'[c]) = 0
                   ELSE Depth(q'[c]) > 0 => Gone(q'[c]) = Gone(q[c]) + 1
<1> DEFINE d == DrainOrder[drainAt]
<1>1. d \in Class /\ drainAt \in 1 .. 4 BY OrderTypes DEF TypeOK
<1>2. q[d] \in QueueState /\ QueueOK(q[d], Cap(d)) /\ Cap(d) \in Nat
  BY <1>1, CapPositive DEF TypeOK, QInv
<1>3. q' = [q EXCEPT ![d] = IF d \in {"control", "telemetry"}
                            THEN DrainAll(q[d]) ELSE Pop(q[d])]
  BY DEF DrainStep, PopOne, TakeAll
<1>4. drainAt' = IF drainAt = 4 THEN 1 ELSE drainAt + 1
  BY DEF DrainStep
<1>5. ASSUME NEW c \in Class PROVE q'[c].accepted = q[c].accepted
  BY <1>1, <1>2, <1>3, ConsumeEffects DEF TypeOK
<1>6. ASSUME NEW c \in Class, Turn(c) = drainAt
      PROVE  IF c \in {"control", "telemetry"} THEN Depth(q'[c]) = 0
             ELSE Depth(q'[c]) > 0 => Gone(q'[c]) = Gone(q[c]) + 1
  <2>1. c = d BY <1>6, TurnOf
  <2>2. q'[c] = IF d \in {"control", "telemetry"} THEN DrainAll(q[d]) ELSE Pop(q[d])
    BY <2>1, <1>1, <1>3 DEF TypeOK
  <2> HIDE DEF d
  <2>3. QED BY <2>1, <2>2, <1>2, ConsumeGone
<1>7. QED BY <1>4, <1>5, <1>6

(* The calls a packet at place i of class c may sit through. *)
Patience(c, i) == IF c \in {"control", "telemetry"} THEN 0 ELSE Cap(c) - i

(* ServedInTurn, and what is true in the middle of a call: a packet whose  *)
(* class has had its turn in this call, and that was there when the call   *)
(* began, has already moved up.                                            *)
WaitOK(c, i, w, at) ==
  /\ w \in Int /\ w >= -1 /\ w <= Patience(c, i)
  /\ Turn(c) < at /\ w >= 0 => w + 1 <= Patience(c, i)

WaitInv ==
  /\ waited = [c \in Class |-> [n \in Held(q[c]) |-> waited[c][n]]]
  /\ \A c \in Class : \A i \in 1 .. Depth(q[c]) :
       WaitOK(c, i, waited[c][q[c].items[i]], drainAt)

(* The places of a queue and the numbers of its packets. *)
LEMMA Places ==
  ASSUME NEW s \in QueueState, NEW cap \in Nat, QueueOK(s, cap)
  PROVE  /\ Depth(s) \in Nat /\ s.accepted \in Nat /\ Gone(s) \in Int
         /\ Depth(s) <= cap /\ Gone(s) = s.accepted - Depth(s)
         /\ \A i \in 1 .. Depth(s) : s.items[i] = Gone(s) + i
<1>1. Counts(s) BY Fields
<1>2. \A i \in 1 .. Depth(s) : s.items[i] = s.accepted - Depth(s) + i
  BY DEF QueueOK, Window, Depth
<1>3. QED BY <1>1, <1>2 DEF Counts, QueueOK, Gone

(* One packet across one step. *)
LEMMA WaitOne ==
  ASSUME TypeOK, QInv, TypeOK', QInv', WaitInv, HNext,
         NEW c \in Class, NEW i \in 1 .. Depth(q'[c])
  PROVE  WaitOK(c, i, waited'[c][q'[c].items[i]], drainAt')
<1> DEFINE s == q[c]
           t == q'[c]
           n == t.items[i]
           w == waited'[c][n]
<1>1. /\ s \in QueueState /\ t \in QueueState /\ Cap(c) \in Nat \ {0}
      /\ QueueOK(s, Cap(c)) /\ QueueOK(t, Cap(c))
  BY CapPositive DEF TypeOK, QInv, Cap
<1>2. PICK D \in Nat, A \in Nat, G \in Int :
        /\ D = Depth(s) /\ A = s.accepted /\ G = Gone(s) /\ G = A - D
        /\ \A j \in 1 .. D : s.items[j] = G + j
  BY <1>1, Places
<1>3. PICK D1 \in Nat, A1 \in Nat, G1 \in Int :
        /\ D1 = Depth(t) /\ A1 = t.accepted /\ G1 = Gone(t) /\ G1 = A1 - D1
        /\ D1 <= Cap(c)
        /\ \A j \in 1 .. D1 : t.items[j] = G1 + j
  <2> HIDE DEF s, t
  <2>1. /\ Depth(t) \in Nat /\ t.accepted \in Nat /\ Gone(t) \in Int
        /\ Depth(t) <= Cap(c) /\ Gone(t) = t.accepted - Depth(t)
        /\ \A j \in 1 .. Depth(t) : t.items[j] = Gone(t) + j
    BY <1>1, Places
  <2>2. QED BY <2>1
<1>4. n = G1 + i /\ i \in 1 .. D1
  BY <1>3
<1>5. G1 >= G
  BY <1>2, <1>3, GoneGrows DEF HNext
<1>6. n \in Held(q'[c])
  BY <1>3, <1>4 DEF Held
<1>7. w = Aged(c, n)
  BY <1>6 DEF HNext
<1>8. DOMAIN waited[c] = Held(s)
  BY DEF WaitInv
<1>9. n \in Held(s) <=> n <= A
  <2>1. ASSUME n <= A PROVE n \in Held(s)
    <3>1. n - G \in 1 .. D
      BY <2>1, <1>2, <1>3, <1>4, <1>5
    <3>2. s.items[n - G] = n
      BY <3>1, <1>2, <1>4
    <3>3. QED BY <3>1, <3>2, <1>2 DEF Held
  <2>2. ASSUME n \in Held(s) PROVE n <= A
    BY <2>2, <1>2 DEF Held
  <2>3. QED BY <2>1, <2>2
<1>10. /\ drainAt \in 1 .. 4 /\ Turn(c) \in 1 .. 4
  BY TurnOf DEF TypeOK
<1>11. Patience(c, i) \in Int /\ Patience(c, i) >= 0
  BY <1>1, <1>3, <1>4 DEF Patience
<1>12. DrainStep \/ drainAt' = drainAt
  BY DEF HNext, Next, ProducerStep, StartCall, RefuseClosed, LockedPush,
         PushOnClosed, PushOversize, PushCoalescing, PushWithRoom,
         PushFullReject, PushFullDropOldest, PushFullExpired, PushFullWait,
         Return, DeadlinePasses, WaitTimesOut, SpuriousWake, HandlePop,
         ShutdownFlag, CloseNext
<1>13. CASE n > A
  <2>1. ~DrainStep
    <3>1. ASSUME DrainStep PROVE A1 = A
      BY <3>1, <1>2, <1>3, VisitStep
    <3>2. QED BY <3>1, <1>13, <1>3, <1>4
  <2>2. drainAt' = drainAt
    BY <2>1, <1>12
  <2>3. w = IF drainAt = 1 THEN 0 ELSE -1
    BY <1>7, <1>8, <1>9, <1>13, <1>2, <1>4 DEF Aged
  <2> HIDE DEF w, n
  <2>4. WaitOK(c, i, w, drainAt')
    BY <2>2, <2>3, <1>10, <1>11 DEF WaitOK
  <2>5. QED BY <2>4 DEF w, n
<1>14. CASE n <= A
  <2>1. PICK j \in 1 .. D : j = n - G /\ s.items[j] = n /\ i <= j
    <3>1. n - G \in 1 .. D /\ i <= n - G
      BY <1>14, <1>2, <1>3, <1>4, <1>5
    <3>2. s.items[n - G] = n
      BY <3>1, <1>2, <1>4
    <3>3. QED BY <3>1, <3>2
  <2>2. PICK v \in Int :
          /\ v = waited[c][n] /\ v >= -1 /\ v <= Patience(c, j)
          /\ Turn(c) < drainAt /\ v >= 0 => v + 1 <= Patience(c, j)
    BY <2>1, <1>2 DEF WaitInv, WaitOK
  <2>3. w = IF drainAt = 4 /\ drainAt' = 1 THEN v + 1 ELSE v
    BY <1>7, <1>8, <1>9, <1>14, <2>2 DEF Aged
  <2>4. Patience(c, j) \in Int /\ Patience(c, j) <= Patience(c, i)
    BY <2>1, <1>1, <1>4 DEF Patience
  <2>5. ASSUME DrainStep, Turn(c) = drainAt
        PROVE  /\ c \notin {"control", "telemetry"}
               /\ Patience(c, j) + 1 = Patience(c, i)
    <3>1. c \notin {"control", "telemetry"}
      BY <2>5, <1>3, <1>4, VisitStep
    <3>2. G1 = G + 1
      <4>1. Depth(q'[c]) > 0 => Gone(q'[c]) = Gone(q[c]) + 1
        BY <2>5, <3>1, VisitStep
      <4>2. QED BY <4>1, <1>2, <1>3, <1>4
    <3>3. QED BY <3>1, <3>2, <2>1, <1>1, <1>4 DEF Patience
  <2>6. ASSUME DrainStep
        PROVE  drainAt' = IF drainAt = 4 THEN 1 ELSE drainAt + 1
    BY <2>6, VisitStep
  <2>7. c \in {"control", "telemetry"} \/ Turn(c) # 4
    BY DEF Turn, Class
  <2> HIDE DEF w, n
  <2>8. w \in Int /\ w >= -1 /\ w <= Patience(c, i)
    BY <2>2, <2>3, <2>4, <2>5, <2>6, <2>7, <1>10, <1>11, <1>12
  <2>9. Turn(c) < drainAt' /\ w >= 0 => w + 1 <= Patience(c, i)
    BY <2>2, <2>3, <2>4, <2>5, <2>6, <2>7, <1>10, <1>11, <1>12
  <2>10. WaitOK(c, i, w, drainAt')
    BY <2>8, <2>9 DEF WaitOK
  <2>11. QED BY <2>10 DEF w, n
<1>15. QED
  BY <1>13, <1>14, <1>2, <1>3, <1>4

(* No packet sits through more calls of drain_for_tick than its place in   *)
(* its queue explains: none for control and telemetry, fewer than the      *)
(* queue has slots for sensory and reward, for any number of producers and *)
(* other consumers, all policies and all capacities.                       *)
THEOREM NobodyStarves == HSpec => []ServedInTurn
<1> DEFINE Inv == TypeOK /\ QInv /\ WaitInv
<1>1. HInit => WaitInv
  <2>1. ASSUME HInit PROVE WaitInv
    <3>1. \A c \in Class : q[c].items = << >> /\ Depth(q[c]) = 0
      BY <2>1 DEF HInit, Init, NewQueue, Depth
    <3>2. \A c \in Class : Held(q[c]) = {}
      BY <3>1 DEF Held
    <3>3. \A c \in Class : [n \in Held(q[c]) |-> waited[c][n]] = << >>
      BY <3>2
    <3>4. QED BY <2>1, <3>1, <3>3 DEF HInit, WaitInv
  <2>2. QED BY <2>1
<1>2. ASSUME Inv, [HNext]_hvars, TypeOK', QInv' PROVE WaitInv'
  <2>1. CASE UNCHANGED hvars
    <3>1. q' = q /\ waited' = waited /\ drainAt' = drainAt
      BY <2>1 DEF hvars, vars
    <3>2. waited' = [c \in Class |-> [n \in Held(q'[c]) |-> waited'[c][n]]]
      BY <1>2, <3>1 DEF WaitInv
    <3>3. ASSUME NEW c \in Class, NEW i \in 1 .. Depth(q'[c])
          PROVE  WaitOK(c, i, waited'[c][q'[c].items[i]], drainAt')
      BY <1>2, <3>1 DEF WaitInv
    <3>4. QED
      BY <3>2, <3>3 DEF WaitInv, WaitOK, Patience, Cap, Turn, Held, Depth
  <2>2. CASE HNext
    <3>1. waited' = [c \in Class |-> [n \in Held(q'[c]) |-> waited'[c][n]]]
      BY <2>2 DEF HNext
    <3>2. ASSUME NEW c \in Class, NEW i \in 1 .. Depth(q'[c])
          PROVE  WaitOK(c, i, waited'[c][q'[c].items[i]], drainAt')
      BY <1>2, <2>2, WaitOne
    <3>3. QED BY <3>1, <3>2 DEF WaitInv, WaitOK, Patience, Cap, Turn, Held, Depth
  <2>3. QED BY <1>2, <2>1, <2>2
<1>3. HInit => Init
  BY DEF HInit
<1>4. [HNext]_hvars => [Next]_vars
  BY DEF HNext, hvars
<1>5. HSpec => Spec
  BY <1>3, <1>4, PTL DEF HSpec, Spec
<1>6. WaitInv => ServedInTurn
  BY DEF WaitInv, WaitOK, Patience, ServedInTurn
<1>7. QED
  BY <1>1, <1>2, <1>5, <1>6, QueueInvariant, PTL DEF HSpec
=============================================================================
