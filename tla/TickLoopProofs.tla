--------------------------- MODULE TickLoopProofs ---------------------------
(***************************************************************************)
(* Proofs about TickLoop, for any policies and capacities, any packets the *)
(* source may deliver and any set of diagnostics.  First what one critical *)
(* section does to a queue and what the accounting does to a report, then  *)
(* the inductive invariants of the loop.                                   *)
(***************************************************************************)
EXTENDS TickLoop, TLAPS

-----------------------------------------------------------------------------
(* One queue                                                               *)

(* The queue holds at most cap packets, all of them among those it         *)
(* accepted.                                                               *)
QueueOK(s, cap) ==
  /\ Depth(s) <= cap
  /\ \A i \in 1 .. Len(s.items) : s.items[i] \in 1 .. s.accepted

(* The fields of a queue state have their types. *)
LEMMA Fields ==
  ASSUME NEW s \in QueueState
  PROVE  /\ s.items \in Seq(Nat) /\ Depth(s) \in Nat
         /\ s.accepted \in Nat /\ s.rejected \in Nat /\ s.dropped \in Nat
         /\ s.coalesced \in Nat /\ s.shutdown_refused \in Nat
         /\ s.high_water_mark \in Nat /\ s.delivered \in Nat
  BY DEF QueueState, Depth

(* A new queue is empty. *)
LEMMA NewQueueOK ==
  ASSUME NEW cap \in Nat
  PROVE  /\ NewQueue \in QueueState /\ QueueOK(NewQueue, cap)
         /\ NewQueue.accepted = 0
  <1>1. << >> \in Seq(Nat)
    OBVIOUS
  <1>2. NewQueue \in QueueState
    BY <1>1 DEF NewQueue, QueueState
  <1> QED BY <1>2 DEF NewQueue, QueueOK, Depth

(* A refusal leaves the packets alone. *)
LEMMA RefusalOK ==
  ASSUME NEW s \in QueueState, NEW cap \in Nat, QueueOK(s, cap),
         NEW t \in {Refuse(s), RefuseShutdown(s)}
  PROVE  /\ t \in QueueState /\ QueueOK(t, cap)
         /\ t.accepted = s.accepted
  <1>1. ASSUME NEW n \in Nat
        PROVE  /\ [s EXCEPT !.rejected = n] \in QueueState
               /\ [s EXCEPT !.shutdown_refused = n] \in QueueState
    BY Zenon DEF QueueState
  <1>2. s.rejected + 1 \in Nat /\ s.shutdown_refused + 1 \in Nat
    BY Fields
  <1>3. t \in QueueState
    BY <1>1, <1>2, Zenon DEF Refuse, RefuseShutdown
  <1>4. t.items = s.items /\ t.accepted = s.accepted
    BY Zenon DEF Refuse, RefuseShutdown, QueueState
  <1> QED BY <1>3, <1>4, Zenon DEF QueueOK, Depth

(* A packet is appended to a queue with room: push_free. *)
LEMMA PushFreeOK ==
  ASSUME NEW s \in QueueState, NEW cap \in Nat, QueueOK(s, cap),
         Depth(s) < cap
  PROVE  /\ PushFree(s) \in QueueState /\ QueueOK(PushFree(s), cap)
         /\ PushFree(s).accepted = s.accepted + 1
  <1> DEFINE t == PushFree(s)
             n == s.accepted
             l == s.items
  <1>0. /\ l \in Seq(Nat) /\ Depth(s) \in Nat /\ n \in Nat
        /\ s.high_water_mark \in Nat
    BY Fields
  <1>1. ASSUME NEW x \in Seq(Nat), NEW m \in Nat, NEW h \in Nat
        PROVE  [s EXCEPT !.items = x, !.accepted = m, !.high_water_mark = h]
                 \in QueueState
    BY Zenon DEF QueueState
  <1>2. Append(l, n + 1) \in Seq(Nat) /\ n + 1 \in Nat
    BY <1>0
  <1>3. Raise(s.high_water_mark, Depth(s) + 1) \in Nat
    BY <1>0 DEF Raise
  <1>4. t \in QueueState
    BY <1>1, <1>2, <1>3, Zenon DEF PushFree
  <1>5. t.items = Append(l, n + 1) /\ t.accepted = n + 1
    BY DEF PushFree, QueueState
  <1>6. \A i \in 1 .. Len(l) : l[i] \in 1 .. n
    BY DEF QueueOK
  <1> HIDE DEF t, n, l
  <1>7. /\ Len(Append(l, n + 1)) = Len(l) + 1
        /\ \A i \in 1 .. Len(l) + 1 :
             Append(l, n + 1)[i] = IF i = Len(l) + 1 THEN n + 1 ELSE l[i]
    BY <1>0
  <1>8. ASSUME NEW i \in 1 .. Len(l) + 1
        PROVE  Append(l, n + 1)[i] \in 1 .. n + 1
    <2>1. CASE i = Len(l) + 1
      BY <2>1, <1>7, <1>0
    <2>2. CASE i # Len(l) + 1
      <3>1. Len(l) \in Nat
        BY <1>0
      <3>2. i \in 1 .. Len(l)
        BY <2>2, <3>1
      <3>3. l[i] \in 1 .. n
        BY <3>2, <1>6
      <3> QED BY <2>2, <3>3, <1>7, <1>0
    <2> QED BY <2>1, <2>2
  <1>9. \A i \in 1 .. Len(t.items) : t.items[i] \in 1 .. t.accepted
    BY <1>5, <1>7, <1>8
  <1>10. Depth(t) = Depth(s) + 1
    BY <1>5, <1>7 DEF Depth, l
  <1>11. Depth(t) <= cap
    BY <1>0, <1>10
  <1> QED BY <1>4, <1>5, <1>9, <1>11 DEF QueueOK, t, n

(* The newest packet replaces the occupant: push_coalesce. *)
LEMMA PushCoalesceOK ==
  ASSUME NEW s \in QueueState, QueueOK(s, 1)
  PROVE  /\ PushCoalesce(s) \in QueueState /\ QueueOK(PushCoalesce(s), 1)
         /\ PushCoalesce(s).accepted = s.accepted + 1
  <1>1. CASE s.items = << >>
    BY <1>1, PushFreeOK DEF PushCoalesce, Depth
  <1>2. CASE s.items # << >>
    <2> DEFINE t == PushCoalesce(s)
    <2>0. s.accepted \in Nat /\ s.coalesced \in Nat /\ s.high_water_mark \in Nat
      BY Fields
    <2>1. ASSUME NEW l \in Seq(Nat), NEW n \in Nat, NEW m \in Nat, NEW h \in Nat
          PROVE  [s EXCEPT !.items = l, !.accepted = n, !.coalesced = m,
                           !.high_water_mark = h] \in QueueState
      BY Zenon DEF QueueState
    <2>2. << s.accepted + 1 >> \in Seq(Nat)
      BY <2>0
    <2>3. /\ s.accepted + 1 \in Nat /\ s.coalesced + 1 \in Nat
          /\ Raise(s.high_water_mark, 1) \in Nat
      BY <2>0 DEF Raise
    <2>4. t \in QueueState
      BY <1>2, <2>1, <2>2, <2>3, Zenon DEF PushCoalesce
    <2>5. t.items = << s.accepted + 1 >> /\ t.accepted = s.accepted + 1
      BY <1>2 DEF PushCoalesce, QueueState
    <2> HIDE DEF t
    <2>6. QueueOK(t, 1)
      BY <2>0, <2>5 DEF QueueOK, Depth
    <2> QED BY <2>4, <2>5, <2>6 DEF t
  <1> QED BY <1>1, <1>2

(* Without its oldest packet a queue is one shorter and still holds        *)
(* accepted packets only.                                                  *)
LEMMA TailOK ==
  ASSUME NEW s \in QueueState, NEW cap \in Nat, QueueOK(s, cap), s.items # << >>,
         NEW t \in QueueState, t.items = Tail(s.items), t.accepted = s.accepted
  PROVE  QueueOK(t, cap) /\ Depth(t) = Depth(s) - 1
  <1> DEFINE l == s.items
  <1>0. l \in Seq(Nat) /\ Depth(s) \in Nat
    BY Fields
  <1>1. \A i \in 1 .. Len(l) : l[i] \in 1 .. s.accepted
    BY DEF QueueOK
  <1>2. l # << >>
    OBVIOUS
  <1> HIDE DEF l
  <1>3. /\ Len(Tail(l)) = Len(l) - 1
        /\ \A i \in 1 .. Len(Tail(l)) : Tail(l)[i] = l[i + 1]
        /\ \A i \in 1 .. Len(Tail(l)) : i + 1 \in 1 .. Len(l)
    BY <1>0, <1>2
  <1>4. \A i \in 1 .. Len(Tail(l)) : Tail(l)[i] \in 1 .. s.accepted
    BY <1>1, <1>3, Zenon
  <1>5. Depth(t) = Depth(s) - 1
    BY <1>3 DEF Depth, l
  <1>6. Depth(t) <= cap
    BY <1>0, <1>5 DEF QueueOK
  <1>7. \A i \in 1 .. Len(t.items) : t.items[i] \in 1 .. t.accepted
    BY <1>4, Zenon DEF l
  <1> QED BY <1>5, <1>6, <1>7 DEF QueueOK

(* The oldest packet makes room for the newest: drop_oldest_and_push. *)
LEMMA DropOldestOK ==
  ASSUME NEW s \in QueueState, NEW cap \in Nat \ {0}, QueueOK(s, cap),
         Depth(s) >= cap
  PROVE  /\ DropOldestAndPush(s) \in QueueState
         /\ QueueOK(DropOldestAndPush(s), cap)
         /\ DropOldestAndPush(s).accepted = s.accepted + 1
  <1> DEFINE t == [s EXCEPT !.items = Tail(@), !.dropped = @ + 1]
  <1>0. s.items \in Seq(Nat) /\ Depth(s) \in Nat /\ s.dropped \in Nat
    BY Fields
  <1>1. s.items # << >>
    BY <1>0 DEF Depth
  <1>2. Tail(s.items) \in Seq(Nat) /\ s.dropped + 1 \in Nat
    BY <1>0, <1>1
  <1>3. ASSUME NEW l \in Seq(Nat), NEW n \in Nat
        PROVE  [s EXCEPT !.items = l, !.dropped = n] \in QueueState
    BY Zenon DEF QueueState
  <1>4. t \in QueueState
    BY <1>2, <1>3, Zenon
  <1>5. t.items = Tail(s.items) /\ t.accepted = s.accepted
    BY DEF QueueState
  <1> HIDE DEF t
  <1>6. QueueOK(t, cap) /\ Depth(t) = Depth(s) - 1
    BY <1>1, <1>4, <1>5, TailOK
  <1>7. Depth(t) < cap
    BY <1>0, <1>6 DEF QueueOK
  <1>8. /\ PushFree(t) \in QueueState /\ QueueOK(PushFree(t), cap)
        /\ PushFree(t).accepted = t.accepted + 1
    BY <1>4, <1>6, <1>7, PushFreeOK
  <1> QED BY <1>5, <1>8 DEF DropOldestAndPush, t

(* pop keeps the rest. *)
LEMMA PopOK ==
  ASSUME NEW s \in QueueState, NEW cap \in Nat, QueueOK(s, cap)
  PROVE  Pop(s) \in QueueState /\ QueueOK(Pop(s), cap)
         /\ Pop(s).accepted = s.accepted
  <1>1. CASE s.items = << >>
    BY <1>1 DEF Pop
  <1>2. CASE s.items # << >>
    <2>1. s.items \in Seq(Nat) /\ s.delivered \in Nat
      BY Fields
    <2>2. Tail(s.items) \in Seq(Nat) /\ s.delivered + 1 \in Nat
      BY <1>2, <2>1
    <2>3. ASSUME NEW l \in Seq(Nat), NEW n \in Nat
          PROVE  [s EXCEPT !.items = l, !.delivered = n] \in QueueState
      BY Zenon DEF QueueState
    <2>4. Pop(s) \in QueueState
      BY <1>2, <2>2, <2>3, Zenon DEF Pop
    <2>5. Pop(s).items = Tail(s.items) /\ Pop(s).accepted = s.accepted
      BY <1>2 DEF Pop, QueueState
    <2> QED BY <1>2, <2>4, <2>5, TailOK
  <1> QED BY <1>1, <1>2

(* drain_all keeps nothing. *)
LEMMA DrainAllOK ==
  ASSUME NEW s \in QueueState, NEW cap \in Nat
  PROVE  /\ DrainAll(s) \in QueueState /\ QueueOK(DrainAll(s), cap)
         /\ DrainAll(s).accepted = s.accepted
         /\ Depth(DrainAll(s)) = 0
  <1>1. << >> \in Seq(Nat) /\ s.delivered + Depth(s) \in Nat
    BY Fields
  <1>2. ASSUME NEW l \in Seq(Nat), NEW n \in Nat
        PROVE  [s EXCEPT !.items = l, !.delivered = n] \in QueueState
    BY Zenon DEF QueueState
  <1>3. DrainAll(s) \in QueueState
    BY <1>1, <1>2, Zenon DEF DrainAll
  <1>4. DrainAll(s).items = << >> /\ DrainAll(s).accepted = s.accepted
    BY DEF DrainAll, QueueState
  <1>5. Depth(DrainAll(s)) = 0
    BY <1>4 DEF Depth
  <1> QED BY <1>3, <1>4, <1>5 DEF QueueOK
-----------------------------------------------------------------------------
(* The report                                                              *)

Report == [stats : [Counters -> Nat], diagnostics : [Sites -> Limiter]]

(* r is what one or several occurrences make of s: no counter falls, and   *)
(* n more batches are counted as rejected.                                 *)
Accounts(s, r, n) ==
  /\ r \in Report
  /\ \A k \in Counters : s.stats[k] <= r.stats[k]
  /\ r.stats["rejected_batches"] = s.stats["rejected_batches"] + n

(* Accounting steps add up. *)
LEMMA AccountsAdd ==
  ASSUME NEW s \in Report, NEW r, NEW t, NEW m \in Nat, NEW n \in Nat,
         Accounts(s, r, m), Accounts(r, t, n)
  PROVE  Accounts(s, t, m + n)
  <1>1. /\ s.stats \in [Counters -> Nat] /\ r.stats \in [Counters -> Nat]
        /\ t.stats \in [Counters -> Nat]
    BY DEF Accounts, Report
  <1>2. "rejected_batches" \in Counters
    BY DEF Counters
  <1>3. \A k \in Counters : s.stats[k] <= t.stats[k]
    BY <1>1 DEF Accounts
  <1> QED BY <1>1, <1>2, <1>3 DEF Accounts

(* A limiter told of an occurrence is a limiter. *)
LEMMA RecordedType ==
  ASSUME NEW l \in Limiter, NEW key \in Keys
  PROVE  Recorded(l, key) \in Limiter
  <1> DEFINE k == Keyed(l, key)
  <1>1. NewLimiter \in Limiter
    BY DEF NewLimiter, Limiter
  <1>2. k \in Limiter
    BY <1>1, Zenon DEF Keyed, Limiter
  <1> HIDE DEF k
  <1>3. k.occurrences + 1 \in Nat
    BY <1>2 DEF Limiter
  <1>4. ASSUME NEW n \in Nat
        PROVE  /\ [k EXCEPT !.occurrences = n, !.emitted = n, !.rested = FALSE]
                    \in Limiter
               /\ [k EXCEPT !.occurrences = n] \in Limiter
    BY <1>2, Zenon DEF Limiter
  <1> QED BY <1>3, <1>4, Zenon DEF Recorded, k

(* One more in one counter. *)
LEMMA CountOK ==
  ASSUME NEW r \in Report, NEW k \in Counters
  PROVE  /\ Accounts(r, Count(r, k), IF k = "rejected_batches" THEN 1 ELSE 0)
         /\ Count(r, k).diagnostics = r.diagnostics
  <1> DEFINE c == Count(r, k)
  <1>1. r.stats \in [Counters -> Nat]
    BY DEF Report
  <1>2. c.stats = [r.stats EXCEPT ![k] = @ + 1]
    BY Zenon DEF Count, Report
  <1>3. c.diagnostics = r.diagnostics
    BY Zenon DEF Count, Report
  <1>4. [r.stats EXCEPT ![k] = @ + 1] \in [Counters -> Nat]
    BY <1>1
  <1>5. c = [r EXCEPT !.stats = [r.stats EXCEPT ![k] = @ + 1]]
    BY Zenon DEF Count, Report
  <1>6. c \in Report
    BY <1>4, <1>5, Zenon DEF Report
  <1> HIDE DEF c
  <1>7. \A j \in Counters : r.stats[j] <= c.stats[j]
    BY <1>1, <1>2
  <1>8. "rejected_batches" \in Counters
    BY DEF Counters
  <1>9. c.stats["rejected_batches"] =
          r.stats["rejected_batches"] + IF k = "rejected_batches" THEN 1 ELSE 0
    BY <1>1, <1>2, <1>8
  <1> QED BY <1>3, <1>6, <1>7, <1>9 DEF Accounts, c

(* A diagnosed occurrence counts no batch as rejected. *)
LEMMA DiagnoseOK ==
  ASSUME NEW r \in Report, NEW site \in Sites, NEW key \in Keys
  PROVE  Accounts(r, Diagnose(r, site, key), 0)
  <1> DEFINE d == [r EXCEPT !.diagnostics[site] = Recorded(@, key)]
             e == [r.diagnostics EXCEPT ![site] = Recorded(@, key)]
             k == IF Emits(r.diagnostics[site], key)
                  THEN "diagnostic_emissions" ELSE "suppressed_diagnostics"
  <1>1. r.diagnostics \in [Sites -> Limiter]
    BY DEF Report
  <1>2. e \in [Sites -> Limiter]
    BY <1>1, RecordedType, Zenon
  <1>3. d = [r EXCEPT !.diagnostics = e]
    BY Zenon DEF Report
  <1>4. d \in Report /\ d.stats = r.stats
    BY <1>2, <1>3, Zenon DEF Report
  <1>5. k \in Counters /\ k # "rejected_batches"
    BY DEF Counters
  <1>6. Diagnose(r, site, key) = Count(d, k)
    BY DEF Diagnose
  <1> HIDE DEF d, k
  <1>7. Accounts(d, Count(d, k), 0)
    BY <1>4, <1>5, CountOK
  <1> QED BY <1>4, <1>6, <1>7 DEF Accounts

(* The key of a diagnostic that has only one. *)
LEMMA SomeKey == (CHOOSE k \in Keys : TRUE) \in Keys
  BY TickAssumption

(* record_non_finite_rejection and a receive error count one rejected      *)
(* batch.                                                                  *)
LEMMA AccountingOK ==
  ASSUME NEW r \in Report
  PROVE  /\ Accounts(r, r, 0)
         /\ Accounts(r, NonFiniteRejected(r), 1)
         /\ \A key \in Keys : Accounts(r, ReceiveFailed(r, key), 1)
  <1>1. Accounts(r, r, 0)
    BY DEF Accounts, Report, Counters
  <1>2. Accounts(r, Count(r, "rejected_batches"), 1)
    BY CountOK DEF Counters
  <1>3. Accounts(r, NonFiniteRejected(r), 1)
    <2> DEFINE s == Count(r, "rejected_batches")
    <2>1. s \in Report
      BY <1>2 DEF Accounts
    <2>2. Accounts(s, Diagnose(s, "non_finite", CHOOSE k \in Keys : TRUE), 0)
      BY <2>1, SomeKey, DiagnoseOK DEF Sites
    <2> HIDE DEF s
    <2>3. Accounts(r, Diagnose(s, "non_finite", CHOOSE k \in Keys : TRUE), 1 + 0)
      BY <1>2, <2>2, AccountsAdd, Zenon DEF s
    <2> QED BY <2>3 DEF NonFiniteRejected, s
  <1>4. ASSUME NEW key \in Keys PROVE Accounts(r, ReceiveFailed(r, key), 1)
    <2> DEFINE s == Count(r, "receive_errors")
               t == Count(s, "rejected_batches")
    <2>1. Accounts(r, s, 0)
      BY CountOK DEF Counters
    <2>2. s \in Report
      BY <2>1 DEF Accounts
    <2> HIDE DEF s
    <2>3. Accounts(s, t, 1)
      BY <2>2, CountOK DEF Counters
    <2>4. t \in Report
      BY <2>3 DEF Accounts
    <2> HIDE DEF t
    <2>5. Accounts(t, Diagnose(t, "receive", key), 0)
      BY <2>4, DiagnoseOK DEF Sites
    <2>6. Accounts(r, t, 0 + 1)
      BY <2>1, <2>3, AccountsAdd
    <2>7. Accounts(r, Diagnose(t, "receive", key), (0 + 1) + 0)
      BY <2>5, <2>6, AccountsAdd
    <2> QED BY <2>7 DEF ReceiveFailed, s, t
  <1> QED BY <1>1, <1>3, <1>4

(* A tick that steps the network, whatever it drops, and one whose         *)
(* emission fails count no batch as rejected.                              *)
LEMMA SteppedOK ==
  ASSUME report \in Report, NEW drops \in BOOLEAN
  PROVE  /\ Accounts(report, Stepped(drops), 0)
         /\ \A key \in Keys :
              Accounts(report,
                       Diagnose(Count(Stepped(drops), "emit_errors"), "emit", key), 0)
  <1> DEFINE r == Count(report, "ticks")
             s == Count(r, "dropped_spikes")
             t == Diagnose(s, "dropped", CHOOSE k \in Keys : TRUE)
  <1>1. Accounts(report, r, 0)
    BY CountOK DEF Counters
  <1>2. r \in Report
    BY <1>1 DEF Accounts
  <1> HIDE DEF r
  <1>3. Accounts(r, s, 0)
    BY <1>2, CountOK DEF Counters
  <1>4. s \in Report
    BY <1>3 DEF Accounts
  <1> HIDE DEF s
  <1>5. Accounts(s, t, 0)
    BY <1>4, SomeKey, DiagnoseOK DEF Sites
  <1> HIDE DEF t
  <1>6. Accounts(report, s, 0 + 0)
    BY <1>1, <1>3, AccountsAdd
  <1>7. Accounts(report, t, (0 + 0) + 0)
    BY <1>5, <1>6, AccountsAdd
  <1>8. Stepped(drops) = IF drops THEN t ELSE r
    BY DEF Stepped, r, s, t
  <1>9. Accounts(report, Stepped(drops), 0)
    BY <1>1, <1>7, <1>8
  <1>10. ASSUME NEW key \in Keys
         PROVE  Accounts(report,
                  Diagnose(Count(Stepped(drops), "emit_errors"), "emit", key), 0)
    <2> DEFINE u == Stepped(drops)
               v == Count(u, "emit_errors")
    <2>1. u \in Report
      BY <1>9 DEF Accounts
    <2>2. Accounts(report, u, 0)
      BY <1>9
    <2> HIDE DEF u
    <2>3. Accounts(u, v, 0)
      BY <2>1, CountOK DEF Counters
    <2>4. v \in Report
      BY <2>3 DEF Accounts
    <2> HIDE DEF v
    <2>5. Accounts(v, Diagnose(v, "emit", key), 0)
      BY <2>4, DiagnoseOK DEF Sites
    <2>6. Accounts(report, v, 0 + 0)
      BY <2>2, <2>3, AccountsAdd
    <2>7. Accounts(report, Diagnose(v, "emit", key), (0 + 0) + 0)
      BY <2>5, <2>6, AccountsAdd
    <2> QED BY <2>7 DEF u, v
  <1> QED BY <1>9, <1>10
-----------------------------------------------------------------------------
(* Types                                                                   *)

(* What the queues hold was accepted, and as many packets were accepted as *)
(* the history of the class records.                                       *)
QInv ==
  \A c \in Class : /\ QueueOK(q[c], Cap(c))
                   /\ Len(payload[c]) = q[c].accepted

(* Every class has at least one slot (EffectiveCapacity). *)
LEMMA CapPositive ==
  /\ \A c \in Class : /\ Cap(c) \in Nat \ {0}
                      /\ Policy[c] = "coalesce" => Cap(c) = 1
  /\ TotalCapacity \in Nat
  <1>1. \A c \in Class : /\ Cap(c) \in Nat \ {0}
                         /\ Policy[c] = "coalesce" => Cap(c) = 1
    BY TickAssumption DEF Cap, EffectiveCapacity
  <1> QED BY <1>1 DEF TotalCapacity, Class

(* The classes in the order of metrics() and of drain_for_tick. *)
LEMMA Orders ==
  /\ DrainOrder[1] = "control" /\ DrainOrder[2] = "reward"
  /\ DrainOrder[3] = "sensory" /\ DrainOrder[4] = "telemetry"
  /\ MetricsOrder[1] = "sensory" /\ MetricsOrder[2] = "reward"
  /\ MetricsOrder[3] = "control" /\ MetricsOrder[4] = "telemetry"
  /\ \A i \in 1 .. 4 : DrainOrder[i] \in Class /\ MetricsOrder[i] \in Class
  BY DEF DrainOrder, MetricsOrder, Class

(* The sum of the depths read so far. *)
SampleSum == depth + Depth(q[MetricsOrder[at]])

(* What a step does to the health machine: nothing, or one event. *)
LEMMA HealthMoves ==
  ASSUME [Next]_vars
  PROVE  \/ UNCHANGED health
         \/ HM!IngressObserved \/ HM!TickSucceeded \/ HM!BeginDrain \/ HM!Elapse
         \/ HM!EnterFatal("unspecified")
         \/ HM!Published(report.stats)
         \/ Sample /\ ~(at < 4) /\ HM!Sampled(SampleSum, TotalCapacity)
  <1>1. CASE Receive
    BY <1>1 DEF Receive, ReceiveNothing, ReceiveError, ReceiveFoul, ReceivePacket
  <1>2. CASE AdmitStimuli \/ AdmitModulators \/ AdmitDone \/ Drain
    BY <1>2 DEF AdmitStimuli, AdmitModulators, AdmitDone, Drain
  <1>3. CASE Sample /\ at < 4
    BY <1>3 DEF Sample
  <1>4. CASE Sample /\ ~(at < 4)
    BY <1>4 DEF Sample, SampleSum
  <1>5. CASE SkipStep \/ NothingToEmit \/ EmitSucceeds
    BY <1>5 DEF SkipStep, NothingToEmit, EmitSucceeds
  <1>6. CASE StepFails \/ EmitFails
    BY <1>6 DEF StepFails, EmitFails, Fail
  <1>7. CASE Publish \/ Elapse \/ Signal \/ Leave
    BY <1>7 DEF Publish, Elapse, Signal, Leave
  <1>8. CASE \E c \in Class, part \in {"finite", "foul"} : DirectEnqueue(c, part)
    BY <1>8 DEF DirectEnqueue
  <1>9. CASE UNCHANGED vars
    BY <1>9 DEF vars
  <1> QED BY <1>1, <1>2, <1>3, <1>4, <1>5, <1>6, <1>7, <1>8, <1>9 DEF Next, Tick

(* The state of the health machine keeps its type. *)
LEMMA HealthType == TypeOK /\ [Next]_vars => HM!TypeOK'
  <1> SUFFICES ASSUME TypeOK, [Next]_vars PROVE HM!TypeOK'
    OBVIOUS
  <1> USE DEF HM!TypeOK, HM!lifecycle, HM!ages, HM!pressure, HM!Age, HM!Never
  <1>0. HM!TypeOK /\ StaleAfter \in Nat
    BY TickAssumption DEF TypeOK
  <1>1. CASE UNCHANGED health
    BY <1>0, <1>1 DEF health
  <1>2. CASE HM!IngressObserved
    BY <1>0, <1>2 DEF HM!IngressObserved
  <1>3. CASE HM!TickSucceeded
    BY <1>0, <1>3 DEF HM!TickSucceeded
  <1>4. CASE HM!BeginDrain
    BY <1>0, <1>4 DEF HM!BeginDrain
  <1>5. CASE HM!Elapse
    <2>1. \A a \in HM!Age : HM!Older(a) \in HM!Age
      BY <1>0 DEF HM!Older
    <2> QED BY <1>0, <1>5, <2>1 DEF HM!Elapse
  <1>6. CASE HM!EnterFatal("unspecified")
    BY <1>0, <1>6 DEF HM!EnterFatal, HM!FatalCode
  <1>7. CASE HM!Published(report.stats)
    <2>1. counters' \in [Counters -> Nat]
      BY <1>0, <1>7 DEF HM!Published, HM!MergedMonotonic, TypeOK
    <2> QED BY <1>0, <1>7, <2>1 DEF HM!Published
  <1>8. CASE Sample /\ ~(at < 4) /\ HM!Sampled(SampleSum, TotalCapacity)
    <2>1. q[MetricsOrder[at]] \in QueueState /\ depth \in Nat
      BY Orders DEF TypeOK
    <2>2. SampleSum \in Nat /\ TotalCapacity \in Nat
      BY <2>1, Fields, CapPositive DEF SampleSum
    <2>3. overloaded' \in BOOLEAN
      BY <1>8 DEF HM!Sampled, HM!NextOverload
    <2> QED BY <1>0, <1>8, <2>2, <2>3 DEF HM!Sampled
  <1> QED BY <1>1, <1>2, <1>3, <1>4, <1>5, <1>6, <1>7, <1>8, HealthMoves

(* Replacing one queue by a good one. *)
LEMMA UpdateOK ==
  ASSUME TypeOK, QInv, NEW c \in Class, NEW s \in QueueState,
         QueueOK(s, Cap(c)), q' = [q EXCEPT ![c] = s],
         payload' \in [Class -> Seq({"finite", "foul"})],
         Len(payload'[c]) = s.accepted,
         \A d \in Class \ {c} : payload'[d] = payload[d]
  PROVE  q' \in [Class -> QueueState] /\ QInv'
  <1>1. q' \in [Class -> QueueState]
    BY DEF TypeOK
  <1>2. ASSUME NEW d \in Class
        PROVE  QueueOK(q'[d], Cap(d)) /\ Len(payload'[d]) = q'[d].accepted
    <2>1. CASE d = c
      BY <2>1, Zenon DEF TypeOK
    <2>2. CASE d # c
      BY <2>2, Zenon DEF TypeOK, QInv
    <2> QED BY <2>1, <2>2
  <1> QED BY <1>1, <1>2 DEF QInv, Cap

(* A queue offered a packet takes it as its next one, or not at all. *)
LEMMA OfferedOK ==
  ASSUME TypeOK, QInv, NEW c \in Class, NEW fits \in BOOLEAN
  PROVE  /\ Offered(c, fits) \in QueueState
         /\ QueueOK(Offered(c, fits), Cap(c))
         /\ \/ Offered(c, fits).accepted = q[c].accepted
            \/ Offered(c, fits).accepted = q[c].accepted + 1
  <1> DEFINE s == q[c]
             cap == Cap(c)
  <1>1. s \in QueueState /\ QueueOK(s, cap)
    BY DEF TypeOK, QInv
  <1>2. cap \in Nat \ {0} /\ (Policy[c] = "coalesce" => cap = 1)
    BY CapPositive
  <1>3. Depth(s) \in Nat
    BY <1>1, Fields
  <1>4. \/ Offered(c, fits) \in {Refuse(s), RefuseShutdown(s)}
        \/ Policy[c] = "coalesce" /\ Offered(c, fits) = PushCoalesce(s)
        \/ Depth(s) < cap /\ Offered(c, fits) = PushFree(s)
        \/ Depth(s) >= cap /\ Offered(c, fits) = DropOldestAndPush(s)
    <2>1. shut \in BOOLEAN
      BY DEF TypeOK
    <2>2. CASE shut
      BY <2>2, Zenon DEF Offered
    <2>3. CASE ~shut /\ ~fits
      BY <2>3, Zenon DEF Offered
    <2>4. CASE ~shut /\ fits /\ Policy[c] = "coalesce"
      BY <2>4, Zenon DEF Offered
    <2>5. CASE ~shut /\ fits /\ Policy[c] # "coalesce" /\ Depth(s) < cap
      <3>1. ~(Depth(s) >= cap)
        BY <1>2, <1>3, <2>5
      <3> QED BY <2>5, <3>1, Zenon DEF Offered
    <2>6. CASE /\ ~shut /\ fits /\ Policy[c] # "coalesce" /\ ~(Depth(s) < cap)
               /\ Policy[c] = "drop_oldest" /\ Depth(s) >= cap
      BY <2>6, Zenon DEF Offered
    <2>7. CASE /\ ~shut /\ fits /\ Policy[c] # "coalesce" /\ ~(Depth(s) < cap)
               /\ ~(Policy[c] = "drop_oldest" /\ Depth(s) >= cap)
      BY <2>7, Zenon DEF Offered
    <2> QED BY <2>1, <2>2, <2>3, <2>4, <2>5, <2>6, <2>7, Zenon
  <1> HIDE DEF s, cap
  <1>5. CASE Offered(c, fits) \in {Refuse(s), RefuseShutdown(s)}
    BY <1>1, <1>2, <1>5, RefusalOK DEF s, cap
  <1>6. CASE Policy[c] = "coalesce" /\ Offered(c, fits) = PushCoalesce(s)
    BY <1>1, <1>2, <1>6, PushCoalesceOK DEF s, cap
  <1>7. CASE Depth(s) < cap /\ Offered(c, fits) = PushFree(s)
    BY <1>1, <1>2, <1>7, PushFreeOK DEF s, cap
  <1>8. CASE Depth(s) >= cap /\ Offered(c, fits) = DropOldestAndPush(s)
    BY <1>1, <1>2, <1>8, DropOldestOK DEF s, cap
  <1> QED BY <1>4, <1>5, <1>6, <1>7, <1>8

(* An enqueue keeps the queues as they should be, and is seen in one. *)
LEMMA EnqueueOK ==
  ASSUME TypeOK, QInv, NEW c \in Class, NEW part \in {"finite", "foul"},
         NEW fits \in BOOLEAN, Enqueue(c, part, fits)
  PROVE  /\ q' \in [Class -> QueueState]
         /\ payload' \in [Class -> Seq({"finite", "foul"})]
         /\ shut' = shut /\ QInv'
  <1> DEFINE s == Offered(c, fits)
             n == q[c].accepted
  <1>1. /\ s \in QueueState /\ QueueOK(s, Cap(c))
        /\ s.accepted = n \/ s.accepted = n + 1
    BY OfferedOK
  <1>2. n \in Nat /\ Len(payload[c]) = n /\ payload[c] \in Seq({"finite", "foul"})
    BY Fields DEF TypeOK, QInv
  <1>3. /\ q' = [q EXCEPT ![c] = s]
        /\ payload' = IF s.accepted > n
                      THEN [payload EXCEPT ![c] = Append(@, part)] ELSE payload
        /\ shut' = shut
    BY DEF Enqueue
  <1>4. /\ Append(payload[c], part) \in Seq({"finite", "foul"})
        /\ Len(Append(payload[c], part)) = n + 1
    BY <1>2
  <1> HIDE DEF s, n
  <1>5. CASE s.accepted = n
    <2>1. payload' = payload
      BY <1>2, <1>3, <1>5
    <2>2. payload' \in [Class -> Seq({"finite", "foul"})]
      BY <2>1 DEF TypeOK
    <2>3. Len(payload'[c]) = s.accepted
      BY <2>1, <1>2, <1>5
    <2> QED BY <1>1, <1>3, <2>1, <2>2, <2>3, UpdateOK
  <1>6. CASE s.accepted = n + 1
    <2>1. payload' = [payload EXCEPT ![c] = Append(payload[c], part)]
      BY <1>2, <1>3, <1>6
    <2>2. payload' \in [Class -> Seq({"finite", "foul"})]
      BY <2>1, <1>4, Zenon DEF TypeOK
    <2>3. payload'[c] = Append(payload[c], part)
      BY <2>1, Zenon DEF TypeOK
    <2>4. Len(payload'[c]) = s.accepted
      BY <2>3, <1>4, <1>6
    <2>5. \A d \in Class \ {c} : payload'[d] = payload[d]
      BY <2>1, Zenon DEF TypeOK
    <2> QED BY <1>1, <1>3, <2>2, <2>4, <2>5, UpdateOK
  <1> QED BY <1>1, <1>5, <1>6

(* What drain_for_tick takes of a queue, and what it leaves. *)
LEMMA TakeOK ==
  ASSUME TypeOK, QInv, NEW c \in Class
  PROVE  /\ Take(c) \in QueueState /\ QueueOK(Take(c), Cap(c))
         /\ Take(c).accepted = q[c].accepted
         /\ Oldest(c) \in Part
  <1>1. /\ q[c] \in QueueState /\ QueueOK(q[c], Cap(c)) /\ Cap(c) \in Nat
        /\ Len(payload[c]) = q[c].accepted
        /\ payload[c] \in Seq({"finite", "foul"})
    BY CapPositive DEF TypeOK, QInv
  <1>2. /\ Take(c) \in QueueState /\ QueueOK(Take(c), Cap(c))
        /\ Take(c).accepted = q[c].accepted
    BY <1>1, PopOK, DrainAllOK DEF Take
  <1>3. Oldest(c) \in Part
    <2>1. CASE q[c].items = << >>
      BY <2>1 DEF Oldest, Part
    <2>2. CASE q[c].items # << >>
      <3> DEFINE l == q[c].items
      <3>1. l \in Seq(Nat)
        BY <1>1, Fields
      <3>2. \A i \in 1 .. Len(l) : l[i] \in 1 .. q[c].accepted
        BY <1>1 DEF QueueOK
      <3>3. l # << >>
        BY <2>2
      <3> HIDE DEF l
      <3>4. Head(l) = l[1] /\ 1 \in 1 .. Len(l)
        BY <3>1, <3>3
      <3>5. Head(l) \in 1 .. Len(payload[c])
        BY <3>2, <3>4, <1>1
      <3>6. payload[c][Head(l)] \in {"finite", "foul"}
        BY <3>5, <1>1
      <3> QED BY <2>2, <3>6 DEF Oldest, Part, l
    <2> QED BY <2>1, <2>2
  <1> QED BY <1>2, <1>3

(* The queues keep their types, and hold what they should. *)
QueueTypes ==
  /\ q \in [Class -> QueueState]
  /\ payload \in [Class -> Seq({"finite", "foul"})]
  /\ shut \in BOOLEAN

(* Every step leaves the queues as they should be. *)
LEMMA QueueStep == TypeOK /\ QInv /\ [Next]_vars => QueueTypes' /\ QInv'
  <1> SUFFICES ASSUME TypeOK, QInv, [Next]_vars PROVE QueueTypes' /\ QInv'
    OBVIOUS
  <1>0. QueueTypes /\ held \in [stimuli : Part, modulators : Part]
    BY DEF TypeOK, QueueTypes
  <1>1. CASE UNCHANGED ingress
    BY <1>0, <1>1 DEF ingress, QueueTypes, QInv, Cap
  <1>2. CASE \E c \in Class, part \in {"finite", "foul"}, fits \in BOOLEAN :
               Enqueue(c, part, fits)
    BY <1>0, <1>2, EnqueueOK DEF QueueTypes
  <1>3. CASE AdmitStimuli
    <2>1. held.stimuli \in {"finite", "foul"} /\ "sensory" \in Class
      BY <1>0, <1>3 DEF AdmitStimuli, Part, Class
    <2> QED BY <1>2, <1>3, <2>1 DEF AdmitStimuli
  <1>4. CASE AdmitModulators
    <2>1. held.modulators \in {"finite", "foul"} /\ "reward" \in Class
      BY <1>0, <1>4 DEF AdmitModulators, Part, Class
    <2> QED BY <1>2, <1>4, <2>1 DEF AdmitModulators
  <1>5. CASE Drain
    <2> DEFINE c == DrainOrder[at]
    <2>1. c \in Class
      BY Orders DEF TypeOK
    <2>2. /\ q' = [q EXCEPT ![c] = Take(c)]
          /\ payload' = payload /\ shut' = shut
      BY <1>5 DEF Drain
    <2> HIDE DEF c
    <2>3. /\ Take(c) \in QueueState /\ QueueOK(Take(c), Cap(c))
          /\ Take(c).accepted = q[c].accepted
      BY <2>1, TakeOK
    <2>4. Len(payload'[c]) = Take(c).accepted
      BY <2>1, <2>2, <2>3 DEF QInv
    <2>5. q' \in [Class -> QueueState] /\ QInv'
      BY <1>0, <2>1, <2>2, <2>3, <2>4, UpdateOK DEF QueueTypes
    <2> QED BY <1>0, <2>2, <2>5 DEF QueueTypes
  <1>6. CASE Leave
    BY <1>0, <1>6 DEF Leave, QueueTypes, QInv, Cap
  <1>7. CASE \E c \in Class, part \in {"finite", "foul"} : DirectEnqueue(c, part)
    BY <1>2, <1>7 DEF DirectEnqueue
  <1>8. CASE Receive
    BY <1>1, <1>8 DEF Receive, ReceiveNothing, ReceiveError, ReceiveFoul,
       ReceivePacket, BeginTick
  <1>9. CASE AdmitDone \/ Sample \/ Publish \/ Elapse \/ Signal
    BY <1>1, <1>9 DEF AdmitDone, Sample, Publish, Elapse, Signal
  <1>10. CASE \/ SkipStep \/ StepFails \/ NothingToEmit \/ EmitSucceeds
              \/ EmitFails
    BY <1>1, <1>10 DEF SkipStep, StepFails, NothingToEmit, EmitSucceeds,
       EmitFails, EndTick
  <1>11. CASE UNCHANGED vars
    BY <1>1, <1>11 DEF vars
  <1> QED BY <1>3, <1>4, <1>5, <1>6, <1>7, <1>8, <1>9, <1>10, <1>11 DEF Next, Tick

LoopTypes ==
  /\ pc \in {"idle", "admit", "drain", "sample", "step", "publish",
             "draining", "stopped"}
  /\ at \in 1 .. 4
  /\ held \in [stimuli : Part, modulators : Part]
  /\ drained \in [stimuli : Part, modulators : Part]
  /\ depth \in Nat
  /\ begun \in Nat /\ refused \in Nat /\ failed \in Nat /\ poisoned \in Nat
  /\ busy \in BOOLEAN

(* The source's own packets are clean by the time they are admitted, and   *)
(* a part of the drained packet is empty until its queue has been visited. *)
Gates ==
  /\ "foul" \notin {held.stimuli, held.modulators}
  /\ pc = "drain" => /\ at <= 2 => drained.modulators = "none"
                     /\ at <= 3 => drained.stimuli = "none"

(* What the source hands over is clean (backend_non_finite and             *)
(* account_and_admit_backend_packet).                                      *)
LEMMA AdmittedClean ==
  /\ Idle \in [stimuli : Part, modulators : Part]
  /\ ~IsFoul(Idle)
  /\ \A p \in Packets : p.rejected \/ ~IsFoul(p) =>
       /\ Admitted(p).stimuli \in Part /\ Admitted(p).modulators \in Part
       /\ ~IsFoul(Admitted(p))
  <1>1. Idle \in [stimuli : Part, modulators : Part] /\ ~IsFoul(Idle)
    BY DEF Idle, IsFoul, Part
  <1>2. ASSUME NEW p \in Packets, p.rejected \/ ~IsFoul(p)
        PROVE  /\ Admitted(p).stimuli \in Part /\ Admitted(p).modulators \in Part
               /\ ~IsFoul(Admitted(p))
    <2>1. p.stimuli \in Part /\ p.modulators \in Part
      BY TickAssumption DEF Packet
    <2>2. Idle.stimuli \in Part /\ Idle.modulators \in Part
      BY DEF Idle, Part
    <2> QED BY <1>1, <1>2, <2>1, <2>2 DEF Admitted
  <1> QED BY <1>1, <1>2

(* The tick begins, and what was received is held. *)
LEMMA ToAdmitOK ==
  ASSUME TypeOK, NEW p, ToAdmit(p), ~IsFoul(p),
         p.stimuli \in Part, p.modulators \in Part
  PROVE  /\ pc' = "admit" /\ at' \in 1 .. 4 /\ depth' \in Nat
         /\ held' \in [stimuli : Part, modulators : Part]
         /\ drained' \in [stimuli : Part, modulators : Part]
         /\ Gates'
  <1>1. pc' = "admit" /\ at' = at /\ depth' = depth /\ drained' = drained
    BY DEF ToAdmit
  <1>2. /\ held' \in [stimuli : Part, modulators : Part]
        /\ held'.stimuli = p.stimuli /\ held'.modulators = p.modulators
    BY DEF ToAdmit
  <1> QED BY <1>1, <1>2 DEF TypeOK, Gates, IsFoul

(* The loop's own state keeps its type, and the gates hold. *)
LEMMA LoopStep ==
  TypeOK /\ QInv /\ Gates /\ [Next]_vars => LoopTypes' /\ Gates'
  <1> SUFFICES ASSUME TypeOK, QInv, Gates, [Next]_vars PROVE LoopTypes' /\ Gates'
    OBVIOUS
  <1>0. LoopTypes
    BY DEF TypeOK, LoopTypes
  <1>1. CASE Receive
    <2>1. /\ begun' \in Nat /\ failed' \in Nat /\ poisoned' \in Nat
          /\ busy' \in BOOLEAN
      BY <1>0, <1>1 DEF Receive, ReceiveNothing, ReceiveError, ReceiveFoul,
         ReceivePacket, BeginTick, LoopTypes
    <2>2. refused' \in Nat
      BY <1>0, <1>1 DEF Receive, ReceiveNothing, ReceiveError, ReceiveFoul,
         ReceivePacket, LoopTypes
    <2>3. \/ ToAdmit(Idle)
          \/ \E p \in Packets : (p.rejected \/ ~IsFoul(p)) /\ ToAdmit(Admitted(p))
      BY <1>1 DEF Receive, ReceiveNothing, ReceiveError, ReceiveFoul,
         ReceivePacket
    <2>4. Idle.stimuli \in Part /\ Idle.modulators \in Part
      BY DEF Idle, Part
    <2> QED BY <2>1, <2>2, <2>3, <2>4, ToAdmitOK, AdmittedClean DEF LoopTypes
  <1>2. CASE AdmitStimuli
    <2>1. /\ held' = [held EXCEPT !.stimuli = "none"]
          /\ UNCHANGED << pc, at, drained, depth, history >>
      BY <1>2 DEF AdmitStimuli
    <2>2. /\ held' \in [stimuli : Part, modulators : Part]
          /\ held'.stimuli = "none" /\ held'.modulators = held.modulators
      BY <1>0, <2>1 DEF LoopTypes, Part
    <2> QED BY <1>0, <2>1, <2>2 DEF LoopTypes, Gates, history
  <1>3. CASE AdmitModulators
    <2>1. /\ held' = [held EXCEPT !.modulators = "none"]
          /\ UNCHANGED << pc, at, drained, depth, history >>
      BY <1>3 DEF AdmitModulators
    <2>2. /\ held' \in [stimuli : Part, modulators : Part]
          /\ held'.modulators = "none" /\ held'.stimuli = held.stimuli
      BY <1>0, <2>1 DEF LoopTypes, Part
    <2> QED BY <1>0, <2>1, <2>2 DEF LoopTypes, Gates, history
  <1>4. CASE AdmitDone
    <2>1. Idle.stimuli = "none" /\ Idle.modulators = "none"
      BY DEF Idle
    <2>2. /\ pc' = "drain" /\ at' = 1 /\ drained' = Idle
          /\ UNCHANGED << held, depth, begun, refused, failed, poisoned >>
          /\ busy' \in BOOLEAN
      BY <1>4 DEF AdmitDone
    <2>3. drained' \in [stimuli : Part, modulators : Part]
      BY <2>2, AdmittedClean
    <2>4. LoopTypes'
      BY <1>0, <2>2, <2>3 DEF LoopTypes
    <2>5. drained'.stimuli = "none" /\ drained'.modulators = "none"
      BY <2>1, <2>2, Zenon
    <2>6. held' = held
      BY <2>2
    <2>7. Gates'
      BY <2>5, <2>6 DEF Gates
    <2> QED BY <2>4, <2>7
  <1>5. CASE Drain
    <2>1. Oldest(DrainOrder[at]) \in Part
      BY Orders, TakeOK DEF TypeOK
    <2>2. drained' \in [stimuli : Part, modulators : Part]
      BY <1>0, <1>5, <2>1 DEF Drain, LoopTypes
    <2>3. refused' \in Nat /\ poisoned' \in Nat
      BY <1>0, <1>5 DEF Drain, LoopTypes
    <2>4. /\ UNCHANGED << held, begun, failed, busy >>
          /\ \/ at < 4 /\ at' = at + 1 /\ pc' = pc /\ depth' = depth
             \/ at' = 1 /\ pc' = "sample" /\ depth' = 0
      BY <1>5 DEF Drain
    <2>5. /\ at < 2 => drained'.modulators = drained.modulators
          /\ at < 3 => drained'.stimuli = drained.stimuli
      <3>1. CASE at = 1
        BY <1>0, <1>5, <3>1, Orders DEF Drain, LoopTypes
      <3>2. CASE at = 2
        BY <1>0, <1>5, <3>2, Orders DEF Drain, LoopTypes
      <3> QED BY <1>0, <3>1, <3>2 DEF LoopTypes
    <2>6. pc = "drain"
      BY <1>5 DEF Drain
    <2> QED BY <1>0, <2>2, <2>3, <2>4, <2>5, <2>6 DEF LoopTypes, Gates
  <1>6. CASE Sample
    <2>1. q[MetricsOrder[at]] \in QueueState
      BY Orders DEF TypeOK
    <2>2. depth' \in Nat
      BY <1>0, <1>6, <2>1, Fields DEF Sample, LoopTypes
    <2>3. /\ pc = "sample" /\ UNCHANGED << held, drained, history >>
          /\ \/ at < 4 /\ at' = at + 1 /\ pc' = pc
             \/ at' = 1 /\ pc' = "step"
      BY <1>6 DEF Sample
    <2> QED BY <1>0, <2>2, <2>3 DEF LoopTypes, Gates, history
  <1>7. CASE \/ SkipStep \/ StepFails \/ NothingToEmit \/ EmitSucceeds
             \/ EmitFails
    <2>1. EndTick /\ failed' \in {failed, failed + 1}
      BY <1>7 DEF SkipStep, StepFails, NothingToEmit, EmitSucceeds, EmitFails
    <2> QED BY <1>0, <2>1 DEF EndTick, LoopTypes, Gates
  <1>8. CASE Publish \/ Signal \/ Leave
    BY <1>0, <1>8 DEF Publish, Signal, Leave, LoopTypes, Gates, history
  <1>9. CASE Elapse
    BY <1>0, <1>9 DEF Elapse, LoopTypes, Gates, tick, history
  <1>10. CASE \E c \in Class, part \in {"finite", "foul"} : DirectEnqueue(c, part)
    BY <1>0, <1>10 DEF DirectEnqueue, LoopTypes, Gates, tick
  <1>11. CASE UNCHANGED vars
    BY <1>0, <1>11 DEF vars, LoopTypes, Gates, tick, history
  <1> QED BY <1>1, <1>2, <1>3, <1>4, <1>5, <1>6, <1>7, <1>8, <1>9, <1>10, <1>11
          DEF Next, Tick
-----------------------------------------------------------------------------
(* Rejections and what is published                                        *)

(* The merged packet of this tick is foul and has not been counted yet. *)
Pending ==
  IF pc \in {"drain", "sample", "step"} /\ IsFoul(drained) THEN 1 ELSE 0

Rejections == report.stats["rejected_batches"] + Pending = refused

(* What a step accounts for: n rejected batches. *)
Books(n) ==
  /\ Accounts(report, report', n)
  /\ refused' - Pending' = refused - Pending + n

(* A visit to one queue poisons the merged packet at most once: a part     *)
(* already drained is never taken back.                                    *)
LEMMA PoisonedOnce ==
  ASSUME TypeOK, QInv, Gates, Drain
  PROVE  /\ refused' - Pending' = refused - Pending
         /\ poisoned' - Pending' = poisoned - Pending
  <1>0. /\ at \in 1 .. 4 /\ refused \in Nat /\ poisoned \in Nat
        /\ drained \in [stimuli : Part, modulators : Part]
    BY DEF TypeOK
  <1>1. pc = "drain" /\ pc' \in {"drain", "sample"}
    BY DEF Drain
  <1>2. IsFoul(drained) => IsFoul(drained')
    <2>1. CASE at \in {1, 4}
      <3>1. drained' = drained
        BY <2>1, Orders DEF Drain
      <3> QED BY <3>1
    <2>2. CASE at = 2
      <3>1. drained' = [drained EXCEPT !.modulators = Oldest("reward")]
        BY <2>2, Orders DEF Drain
      <3>2. drained.modulators = "none"
        BY <1>1, <2>2 DEF Gates
      <3>3. drained'.stimuli = drained.stimuli
        BY <1>0, <3>1
      <3> QED BY <3>2, <3>3 DEF IsFoul
    <2>3. CASE at = 3
      <3>1. drained' = [drained EXCEPT !.stimuli = Oldest("sensory")]
        BY <2>3, Orders DEF Drain
      <3>2. drained.stimuli = "none"
        BY <1>1, <2>3 DEF Gates
      <3>3. drained'.modulators = drained.modulators
        BY <1>0, <3>1
      <3> QED BY <3>2, <3>3 DEF IsFoul
    <2> QED BY <1>0, <2>1, <2>2, <2>3
  <1>3. IF IsFoul(drained') /\ ~IsFoul(drained)
        THEN refused' = refused + 1 /\ poisoned' = poisoned + 1
        ELSE refused' = refused /\ poisoned' = poisoned
    BY DEF Drain, IsFoul
  <1>4. /\ Pending = IF IsFoul(drained) THEN 1 ELSE 0
        /\ Pending' = IF IsFoul(drained') THEN 1 ELSE 0
    BY <1>1 DEF Pending, IsFoul
  <1> QED BY <1>0, <1>2, <1>3, <1>4

(* Every step keeps its books: the batches it has to reject, less those    *)
(* that stay pending, are the ones it counts.                              *)
LEMMA BooksKept ==
  TypeOK /\ QInv /\ Gates /\ [Next]_vars => Books(0) \/ Books(1)
  <1> SUFFICES ASSUME TypeOK, QInv, Gates, [Next]_vars
               PROVE  Books(0) \/ Books(1)
    OBVIOUS
  <1>0. report \in Report /\ refused \in Nat /\ Pending \in {0, 1}
    BY DEF TypeOK, Report, Pending
  <1>1. CASE UNCHANGED << report, refused >> /\ Pending' = Pending
    BY <1>0, <1>1, AccountingOK DEF Books
  <1>2. CASE Receive
    <2>0. pc = "idle" /\ pc' = "admit"
      BY <1>2 DEF Receive, ReceiveNothing, ReceiveError, ReceiveFoul,
         ReceivePacket, BeginTick, ToAdmit
    <2>1. Pending = 0 /\ Pending' = 0
      BY <2>0 DEF Pending
    <2>2. CASE ReceiveNothing
      BY <1>1, <2>1, <2>2 DEF ReceiveNothing
    <2>3. CASE ReceiveError
      BY <1>0, <2>1, <2>3, AccountingOK DEF ReceiveError, Books
    <2>4. ASSUME NEW p \in Packets, ReceiveFoul(p) PROVE Books(1)
      BY <1>0, <2>1, <2>4, AccountingOK DEF ReceiveFoul, Books
    <2>5. ASSUME NEW p \in Packets, ReceivePacket(p) PROVE Books(0) \/ Books(1)
      <3>1. CASE p.rejected
        <4>1. /\ report' = Count(report, "rejected_batches")
              /\ refused' = refused + 1
          BY <2>5, <3>1 DEF ReceivePacket
        <4>2. Accounts(report, report', 1)
          BY <1>0, <4>1, CountOK DEF Counters
        <4> QED BY <1>0, <2>1, <4>1, <4>2 DEF Books
      <3>2. CASE ~p.rejected
        <4>1. /\ report' \in {report, Count(report, "accepted_batches")}
              /\ refused' = refused
          BY <2>5, <3>2 DEF ReceivePacket
        <4>2. Accounts(report, Count(report, "accepted_batches"), 0)
          BY <1>0, CountOK DEF Counters
        <4>3. Accounts(report, report', 0)
          BY <1>0, <4>1, <4>2, AccountingOK
        <4> QED BY <1>0, <2>1, <4>1, <4>3 DEF Books
      <3> QED BY <3>1, <3>2
    <2> QED BY <1>2, <2>2, <2>3, <2>4, <2>5 DEF Receive
  <1>3. CASE AdmitStimuli \/ AdmitModulators
    <2>1. UNCHANGED << report, refused, pc, drained >>
      BY <1>3 DEF AdmitStimuli, AdmitModulators, history
    <2>2. Pending' = Pending
      BY <2>1 DEF Pending, IsFoul
    <2> QED BY <1>1, <2>1, <2>2
  <1>4. CASE AdmitDone
    <2>1. /\ UNCHANGED << report, refused >>
          /\ pc = "admit" /\ drained' = Idle
      BY <1>4 DEF AdmitDone
    <2>2. ~IsFoul(drained')
      BY <2>1, AdmittedClean
    <2>3. Pending = 0 /\ Pending' = 0
      BY <2>1, <2>2 DEF Pending, IsFoul
    <2> QED BY <1>1, <2>1, <2>3
  <1>5. CASE Drain
    <2>1. /\ pc = "drain" /\ pc' \in {"drain", "sample"} /\ report' = report
      BY <1>5 DEF Drain
    <2>2. refused' - Pending' = refused - Pending + 0
      BY <1>0, <1>5, PoisonedOnce
    <2> QED BY <1>0, <2>1, <2>2, AccountingOK DEF Books
  <1>6. CASE Sample
    <2>1. /\ pc = "sample" /\ pc' \in {"sample", "step"}
          /\ UNCHANGED << report, drained, refused >>
      BY <1>6 DEF Sample, history
    <2>2. Pending' = Pending
      BY <2>1 DEF Pending, IsFoul
    <2> QED BY <1>1, <2>1, <2>2
  <1>7. CASE SkipStep
    <2>1. /\ pc = "step" /\ pc' = "publish" /\ refused' = refused
          /\ IsFoul(drained) /\ report' = NonFiniteRejected(report)
      BY <1>7 DEF SkipStep, EndTick
    <2>2. Pending = 1 /\ Pending' = 0
      BY <2>1 DEF Pending
    <2>3. Accounts(report, report', 1)
      BY <1>0, <2>1, AccountingOK
    <2> QED BY <1>0, <2>1, <2>2, <2>3 DEF Books
  <1>8. CASE StepFails \/ NothingToEmit \/ EmitSucceeds \/ EmitFails
    <2>1. /\ pc = "step" /\ pc' = "publish" /\ refused' = refused
          /\ ~IsFoul(drained)
      BY <1>8 DEF StepFails, NothingToEmit, EmitSucceeds, EmitFails, EndTick, Feed
    <2>2. Pending = 0 /\ Pending' = 0
      BY <2>1 DEF Pending
    <2>3. Accounts(report, report', 0)
      <3>1. CASE StepFails
        BY <1>0, <3>1, AccountingOK DEF StepFails
      <3>2. CASE NothingToEmit \/ EmitSucceeds \/ EmitFails
        BY <1>0, <3>2, SteppedOK DEF NothingToEmit, EmitSucceeds, EmitFails
      <3> QED BY <1>8, <3>1, <3>2
    <2> QED BY <1>0, <2>1, <2>2, <2>3 DEF Books
  <1>9. CASE Publish \/ Signal \/ Leave
    <2>1. /\ pc \in {"publish", "idle", "draining"}
          /\ pc' \in {"idle", "draining", "stopped"}
          /\ UNCHANGED << report, refused >>
      BY <1>9 DEF Publish, Signal, Leave, history
    <2>2. Pending = 0 /\ Pending' = 0
      BY <2>1 DEF Pending
    <2> QED BY <1>1, <2>1, <2>2
  <1>10. CASE Elapse
    <2>1. UNCHANGED << pc, drained, refused >>
      BY <1>10 DEF Elapse, tick, history
    <2>2. Pending' = Pending
      BY <2>1 DEF Pending, IsFoul
    <2>3. PICK S \in {{}, Sites} :
            report' = [report EXCEPT !.diagnostics =
                        [s \in Sites |-> IF s \in S THEN Rested(@[s]) ELSE @[s]]]
      BY <1>10 DEF Elapse
    <2> DEFINE d == [s \in Sites |-> IF s \in S THEN Rested(report.diagnostics[s])
                                     ELSE report.diagnostics[s]]
    <2>4. report' = [report EXCEPT !.diagnostics = d]
      BY <2>3, Zenon
    <2>5. \A l \in Limiter : Rested(l) \in Limiter
      BY Zenon DEF Rested, Limiter
    <2>6. d \in [Sites -> Limiter]
      BY <1>0, <2>5 DEF Report
    <2> HIDE DEF d
    <2>7. report' \in Report /\ report'.stats = report.stats
      BY <1>0, <2>4, <2>6, Zenon DEF Report
    <2>8. Accounts(report, report', 0)
      BY <1>0, <2>7, AccountingOK DEF Accounts
    <2> QED BY <1>0, <2>1, <2>2, <2>8 DEF Books
  <1>11. CASE \E c \in Class, part \in {"finite", "foul"} : DirectEnqueue(c, part)
    <2>1. UNCHANGED << report, refused, pc, drained >>
      BY <1>11 DEF DirectEnqueue, tick
    <2>2. Pending' = Pending
      BY <2>1 DEF Pending, IsFoul
    <2> QED BY <1>1, <2>1, <2>2
  <1>12. CASE UNCHANGED vars
    <2>1. UNCHANGED << report, refused, pc, drained >>
      BY <1>12 DEF vars, tick, history
    <2>2. Pending' = Pending
      BY <2>1 DEF Pending, IsFoul
    <2> QED BY <1>1, <2>1, <2>2
  <1> QED BY <1>2, <1>3, <1>4, <1>5, <1>6, <1>7, <1>8, <1>9, <1>10, <1>11, <1>12
          DEF Next, Tick

(* The inductive invariant of the accounting.  RejectedOnce says nothing   *)
(* of the middle of a tick: there a foul merged packet may be pending.     *)
AInv == TypeOK /\ QInv /\ Gates /\ Rejections

(* It holds when the loop is entered. *)
LEMMA InitAccounting == Init => AInv
  <1> SUFFICES ASSUME Init PROVE AInv
    OBVIOUS
  <1> USE DEF Init
  <1>1. HM!TypeOK
    <2>1. limits \in [high : HM!Percent, low : HM!Percent]
      BY DEF HM!DefaultLimits, HM!Percent
    <2>2. 0 \in HM!Age /\ HM!Never \in HM!Age
      BY TickAssumption DEF HM!Age
    <2>3. /\ started \in BOOLEAN /\ initialized \in BOOLEAN
          /\ checkpoint_ok \in BOOLEAN /\ draining \in BOOLEAN
          /\ overloaded \in BOOLEAN
      OBVIOUS
    <2>4. counters \in [Counters -> Nat] /\ queue_depth \in Nat /\ queue_capacity \in Nat
      OBVIOUS
    <2>5. checkpoint_at \in HM!Age /\ last_tick \in HM!Age /\ last_ingress \in HM!Age
      BY <2>2, Zenon
    <2>6. /\ checkpoint \in Identities \cup {NoCheckpoint}
          /\ fatal \in HM!FatalCode \cup {"none"}
      OBVIOUS
    <2> QED BY <2>1, <2>3, <2>4, <2>5, <2>6, Zenon DEF HM!TypeOK
  <1>2. \A c \in Class : /\ q[c] \in QueueState /\ QueueOK(q[c], Cap(c))
                         /\ q[c].accepted = 0
    BY NewQueueOK, CapPositive
  <1>3. << >> \in Seq({"finite", "foul"}) /\ Len(<< >>) = 0
    OBVIOUS
  <1>4. /\ q \in [Class -> QueueState]
        /\ payload \in [Class -> Seq({"finite", "foul"})]
    BY <1>2, <1>3
  <1>5. QInv
    BY <1>2, <1>3 DEF QInv
  <1>6. NewLimiter \in Limiter
    BY DEF NewLimiter, Limiter
  <1>7. report \in Report
    BY <1>6 DEF Report
  <1>8. TypeOK
    <2>1. held \in [stimuli : Part, modulators : Part] /\ drained = held
      BY AdmittedClean
    <2>2. shut \in BOOLEAN /\ busy \in BOOLEAN
      OBVIOUS
    <2>3. /\ pc = "idle" /\ at \in 1 .. 4 /\ depth \in Nat
          /\ begun \in Nat /\ refused \in Nat /\ failed \in Nat
          /\ poisoned \in Nat
      OBVIOUS
    <2> HIDE DEF Init
    <2> QED BY <1>1, <1>4, <1>7, <2>1, <2>2, <2>3 DEF TypeOK, Report
  <1>9. Gates
    BY DEF Gates, Idle
  <1>10. report.stats["rejected_batches"] = 0 /\ Pending = 0
    BY DEF Pending, Counters
  <1> QED BY <1>5, <1>8, <1>9, <1>10 DEF AInv, Rejections

(* Every step keeps it. *)
LEMMA AccountingStep == AInv /\ [Next]_vars => AInv' /\ (Books(0) \/ Books(1))
  <1> SUFFICES ASSUME AInv, [Next]_vars PROVE AInv' /\ (Books(0) \/ Books(1))
    OBVIOUS
  <1>1. TypeOK /\ QInv /\ Gates /\ Rejections
    BY DEF AInv
  <1>2. HM!TypeOK' /\ QueueTypes' /\ QInv' /\ LoopTypes' /\ Gates'
    BY <1>1, HealthType, QueueStep, LoopStep
  <1>3. Books(0) \/ Books(1)
    BY <1>1, BooksKept
  <1>4. report' \in Report
    BY <1>3 DEF Books, Accounts
  <1>5. TypeOK'
    BY <1>2, <1>4 DEF TypeOK, QueueTypes, LoopTypes, Report
  <1>6. Rejections'
    <2>1. /\ report.stats["rejected_batches"] \in Nat
          /\ report'.stats["rejected_batches"] \in Nat
      BY <1>1, <1>5 DEF TypeOK, Counters
    <2>2. refused \in Nat /\ refused' \in Nat
      BY <1>1, <1>5 DEF TypeOK
    <2>3. Pending \in {0, 1} /\ Pending' \in {0, 1}
      BY DEF Pending
    <2>4. PICK m \in {0, 1}, n \in {0, 1} : Pending = m /\ Pending' = n
      BY <2>3
    <2>5. PICK a \in Nat, b \in Nat : /\ report.stats["rejected_batches"] = a
                                    /\ report'.stats["rejected_batches"] = b
      BY <2>1
    <2>6. a + m = refused
      BY <1>1, <2>4, <2>5 DEF Rejections
    <2>7. \/ b = a + 0 /\ refused' - n = refused - m + 0
          \/ b = a + 1 /\ refused' - n = refused - m + 1
      BY <1>3, <2>4, <2>5 DEF Books, Accounts
    <2>8. PICK r \in Nat, s \in Nat : refused = r /\ refused' = s
      BY <2>2
    <2>9. b + n = s
      <3>1. m \in Nat /\ n \in Nat
        OBVIOUS
      <3>2. a + m = r
        BY <2>6, <2>8
      <3>3. \/ b = a + 0 /\ s - n = r - m + 0
            \/ b = a + 1 /\ s - n = r - m + 1
        BY <2>7, <2>8
      <3> QED BY <3>1, <3>2, <3>3
    <2> QED BY <2>4, <2>5, <2>8, <2>9 DEF Rejections
  <1> QED BY <1>1, <1>2, <1>3, <1>5, <1>6 DEF AInv

(* Every batch that must be rejected is counted once and only once, and    *)
(* the source itself never poisons a merged packet, for any packets,       *)
(* policies and capacities and with any number of direct producers         *)
(* (run_tick, account_and_admit_backend_packet).                           *)
THEOREM CountedOnce == Spec => []RejectedOnce
  <1>1. AInv => RejectedOnce
    <2> SUFFICES ASSUME AInv PROVE RejectedOnce
      OBVIOUS
    <2>1. pc = "idle" => Pending = 0
      BY DEF Pending
    <2>2. report.stats["rejected_batches"] \in Nat
      BY DEF AInv, TypeOK, Counters
    <2> QED BY <2>1, <2>2 DEF AInv, RejectedOnce, Rejections, Gates
  <1>2. AInv /\ [Next]_vars => AInv'
    BY AccountingStep
  <1> QED BY <1>1, <1>2, InitAccounting, PTL DEF Spec

(* What health shows lags behind the report while a tick is under way and  *)
(* equals it between two ticks.                                            *)
PInv ==
  /\ \A k \in Counters : counters[k] <= report.stats[k]
  /\ pc \in {"idle", "draining", "stopped"} => counters = report.stats

(* Counters are published as they are: none is ever behind what health     *)
(* shows, so that merged_monotonic keeps every new value.                  *)
LEMMA PublishStep == AInv /\ PInv /\ [Next]_vars => PInv'
  <1> SUFFICES ASSUME AInv, PInv, [Next]_vars PROVE PInv'
    OBVIOUS
  <1>0. /\ counters \in [Counters -> Nat]
        /\ report.stats \in [Counters -> Nat] /\ report'.stats \in [Counters -> Nat]
    BY AccountingStep DEF AInv, TypeOK, HM!TypeOK
  <1>1. \A k \in Counters : report.stats[k] <= report'.stats[k]
    BY AccountingStep DEF Books, Accounts
  <1>2. CASE Publish
    <2>1. /\ counters' = [k \in Counters |->
               IF report.stats[k] > counters[k] THEN report.stats[k] ELSE counters[k]]
          /\ report' = report
      BY <1>2 DEF Publish, HM!Published, HM!MergedMonotonic
    <2>2. counters' = report.stats
      BY <1>0, <2>1 DEF PInv
    <2> QED BY <1>0, <2>1, <2>2 DEF PInv
  <1>3. CASE counters' = counters /\ (pc' = pc \/ pc' \notin {"idle", "draining", "stopped"})
               /\ (pc' \in {"idle", "draining", "stopped"} => report'.stats = report.stats)
    <2>1. \A k \in Counters : counters'[k] <= report'.stats[k]
      BY <1>0, <1>1, <1>3 DEF PInv
    <2> QED BY <1>3, <2>1 DEF PInv
  <1>4. CASE /\ counters' = counters
             /\ pc \in {"idle", "draining", "stopped"} /\ report'.stats = report.stats
    BY <1>4 DEF PInv
  <1> USE DEF health, HM!lifecycle, HM!ages, HM!pressure
  <1>5. CASE Receive
    <2>1. pc' = "admit" /\ counters' = counters
      BY <1>5 DEF Receive, ReceiveNothing, ReceiveError, ReceiveFoul,
         ReceivePacket, ToAdmit, HM!IngressObserved
    <2> QED BY <1>3, <2>1
  <1>6. CASE AdmitStimuli \/ AdmitModulators \/ AdmitDone \/ Drain
    <2>1. pc' \in {"admit", "drain", "sample"} /\ counters' = counters
      BY <1>6 DEF AdmitStimuli, AdmitModulators, AdmitDone, Drain
    <2> QED BY <1>3, <2>1
  <1>7. CASE Sample
    <2>1. pc' \in {"sample", "step"} /\ counters' = counters
      BY <1>7 DEF Sample, HM!Sampled
    <2> QED BY <1>3, <2>1
  <1>8. CASE \/ SkipStep \/ StepFails \/ NothingToEmit \/ EmitSucceeds
             \/ EmitFails
    <2>1. pc' = "publish" /\ counters' = counters
      BY <1>8 DEF SkipStep, StepFails, NothingToEmit, EmitSucceeds, EmitFails,
         EndTick, Fail, HM!TickSucceeded, HM!EnterFatal
    <2> QED BY <1>3, <2>1
  <1>9. CASE Signal \/ Leave
    BY <1>4, <1>9 DEF Signal, Leave, HM!BeginDrain
  <1>10. CASE Elapse
    <2>1. pc' = pc /\ counters' = counters
      BY <1>10 DEF Elapse, HM!Elapse, tick
    <2>2. report'.stats = report.stats
      <3>1. report \in Report
        BY DEF AInv, TypeOK, Report
      <3> QED BY <1>10, <3>1 DEF Elapse, Report
    <2> QED BY <1>3, <2>1, <2>2
  <1>11. CASE \E c \in Class, part \in {"finite", "foul"} : DirectEnqueue(c, part)
    <2>1. pc' = pc /\ counters' = counters /\ report' = report
      BY <1>11 DEF DirectEnqueue, tick
    <2> QED BY <1>3, <2>1
  <1>12. CASE UNCHANGED vars
    <2>1. pc' = pc /\ counters' = counters /\ report' = report
      BY <1>12 DEF vars, tick
    <2> QED BY <1>3, <2>1
  <1> QED BY <1>2, <1>5, <1>6, <1>7, <1>8, <1>9, <1>10, <1>11, <1>12 DEF Next, Tick

(* Between two ticks health shows exactly the loop's counters, whichever   *)
(* way the last tick ended (run_tick_published).                           *)
THEOREM AlwaysPublished == Spec => []PublishedEveryTick
  <1>1. Init => AInv /\ PInv
    <2>1. Init => PInv
      BY DEF Init, PInv
    <2> QED BY <2>1, InitAccounting
  <1>2. AInv /\ PInv /\ [Next]_vars => (AInv /\ PInv)'
    BY AccountingStep, PublishStep
  <1>3. PInv => PublishedEveryTick
    BY DEF PInv, PublishedEveryTick
  <1> QED BY <1>1, <1>2, <1>3, PTL DEF Spec

(* Network steps a report shows, less those whose emission failed. *)
Net(r) == r.stats["ticks"] - r.stats["emit_errors"]

(* One more in one counter. *)
LEMMA NetCount ==
  ASSUME NEW r \in Report, NEW k \in Counters
  PROVE  /\ Count(r, k) \in Report /\ Net(r) \in Int
         /\ Net(Count(r, k)) = Net(r) + (IF k = "ticks" THEN 1
                                        ELSE IF k = "emit_errors" THEN -1 ELSE 0)
  <1>1. r.stats \in [Counters -> Nat]
    BY DEF Report
  <1>2. Count(r, k).stats = [r.stats EXCEPT ![k] = @ + 1]
    BY Zenon DEF Count, Report
  <1>3. "ticks" \in Counters /\ "emit_errors" \in Counters
    BY DEF Counters
  <1>4. Count(r, k) \in Report
    BY CountOK DEF Accounts
  <1> QED BY <1>1, <1>2, <1>3, <1>4 DEF Net

(* Diagnosing an occurrence leaves them alone. *)
LEMMA NetDiagnose ==
  ASSUME NEW r \in Report, NEW site \in Sites, NEW key \in Keys
  PROVE  Diagnose(r, site, key) \in Report /\ Net(Diagnose(r, site, key)) = Net(r)
  <1> DEFINE d == [r EXCEPT !.diagnostics[site] = Recorded(@, key)]
             e == [r.diagnostics EXCEPT ![site] = Recorded(@, key)]
             k == IF Emits(r.diagnostics[site], key)
                  THEN "diagnostic_emissions" ELSE "suppressed_diagnostics"
  <1>1. r.diagnostics \in [Sites -> Limiter]
    BY DEF Report
  <1>2. e \in [Sites -> Limiter]
    BY <1>1, RecordedType, Zenon
  <1>3. d = [r EXCEPT !.diagnostics = e]
    BY Zenon DEF Report
  <1>4. d \in Report /\ d.stats = r.stats
    BY <1>2, <1>3, Zenon DEF Report
  <1>5. k \in Counters /\ k # "ticks" /\ k # "emit_errors"
    BY DEF Counters
  <1>6. Diagnose(r, site, key) = Count(d, k)
    BY DEF Diagnose
  <1> HIDE DEF d, k
  <1>7. Net(d) = Net(r) /\ Net(d) \in Int
    BY <1>4, NetCount, <1>5 DEF Net
  <1>8. Count(d, k) \in Report /\ Net(Count(d, k)) = Net(d) + 0
    BY <1>4, <1>5, NetCount
  <1> QED BY <1>6, <1>7, <1>8

(* Neither does a rejection. *)
LEMMA NetRejected ==
  ASSUME NEW r \in Report
  PROVE  /\ Net(NonFiniteRejected(r)) = Net(r)
         /\ \A key \in Keys : Net(ReceiveFailed(r, key)) = Net(r)
         /\ Net(Count(r, "rejected_batches")) = Net(r)
         /\ Net(Count(r, "accepted_batches")) = Net(r)
  <1>1. \A k \in {"rejected_batches", "accepted_batches", "receive_errors"},
           s \in Report : Count(s, k) \in Report /\ Net(Count(s, k)) = Net(s)
    <2> TAKE k \in {"rejected_batches", "accepted_batches", "receive_errors"},
             s \in Report
    <2>1. k \in Counters /\ k # "ticks" /\ k # "emit_errors"
      BY DEF Counters
    <2>2. /\ Count(s, k) \in Report /\ Net(s) \in Int
          /\ Net(Count(s, k)) = Net(s) + 0
      BY <2>1, NetCount
    <2> QED BY <2>2
  <1>2. Net(NonFiniteRejected(r)) = Net(r)
    BY <1>1, SomeKey, NetDiagnose DEF NonFiniteRejected, Sites
  <1>3. ASSUME NEW key \in Keys PROVE Net(ReceiveFailed(r, key)) = Net(r)
    BY <1>1, NetDiagnose DEF ReceiveFailed, Sites
  <1> QED BY <1>1, <1>2, <1>3

(* A step of the network is one more, unless its emission fails. *)
LEMMA NetStepped ==
  ASSUME report \in Report, NEW drops \in BOOLEAN
  PROVE  /\ Net(Stepped(drops)) = Net(report) + 1
         /\ \A key \in Keys :
              Net(Diagnose(Count(Stepped(drops), "emit_errors"), "emit", key))
                = Net(report)
  <1>1. "ticks" \in Counters /\ "dropped_spikes" \in Counters
        /\ "emit_errors" \in Counters
    BY DEF Counters
  <1> DEFINE r == Count(report, "ticks")
             s == Count(r, "dropped_spikes")
             t == Diagnose(s, "dropped", CHOOSE k \in Keys : TRUE)
             u == Stepped(drops)
             v == Count(u, "emit_errors")
  <1>2. r \in Report /\ Net(report) \in Int /\ Net(r) = Net(report) + 1
    BY <1>1, NetCount
  <1>3. u = IF drops THEN t ELSE r
    BY DEF Stepped
  <1> HIDE DEF r
  <1>4. s \in Report /\ Net(s) = Net(r) + 0
    BY <1>1, <1>2, NetCount
  <1> HIDE DEF s
  <1>5. t \in Report /\ Net(t) = Net(s)
    BY <1>4, SomeKey, NetDiagnose DEF Sites
  <1> HIDE DEF t, u
  <1>6. u \in Report /\ Net(u) = Net(report) + 1
    BY <1>2, <1>3, <1>4, <1>5
  <1>7. v \in Report /\ Net(v) = Net(u) + (-1)
    BY <1>1, <1>6, NetCount
  <1>8. Net(v) = Net(report)
    BY <1>2, <1>6, <1>7
  <1> HIDE DEF v
  <1>9. \A key \in Keys : Net(Diagnose(v, "emit", key)) = Net(v)
    BY <1>7, NetDiagnose DEF Sites
  <1> QED BY <1>6, <1>8, <1>9 DEF u, v

(* A tick has begun whose end is not settled yet. *)
Open == IF pc \in {"admit", "drain", "sample", "step"} THEN 1 ELSE 0

(* The inductive form of StepsAccounted.  In the middle of a tick, the     *)
(* tick is still open, and a poisoned packet has not been given up yet.    *)
LedgerInv == begun = Net(report) + (poisoned - Pending) + failed + Open

(* What settles a step's part in it: the changes add up to zero. *)
Settles(b, n, p, f, o) ==
  /\ begun' = begun + b
  /\ Net(report') = Net(report) + n
  /\ poisoned' - Pending' = poisoned - Pending + p
  /\ failed' = failed + f
  /\ Open' = Open + o

(* Every step settles: a tick begun is opened, an open tick ends as a      *)
(* network step, as a failure or as a packet given up.                     *)
LEMMA StepsSettle ==
  TypeOK /\ QInv /\ Gates /\ [Next]_vars =>
    \/ Settles(0, 0, 0, 0, 0)      \* in the middle or outside of a tick
    \/ Settles(1, 0, 0, 0, 1)      \* it begins
    \/ Settles(0, 0, 1, 0, -1)     \* skipped
    \/ Settles(0, 0, 0, 1, -1)     \* the step or the emission failed
    \/ Settles(0, 1, 0, 0, -1)     \* stepped
  <1> SUFFICES ASSUME TypeOK, QInv, Gates, [Next]_vars
               PROVE  \/ Settles(0, 0, 0, 0, 0) \/ Settles(1, 0, 0, 0, 1)
                      \/ Settles(0, 0, 1, 0, -1) \/ Settles(0, 0, 0, 1, -1)
                      \/ Settles(0, 1, 0, 0, -1)
    OBVIOUS
  <1>0. /\ report \in Report /\ begun \in Nat /\ poisoned \in Nat /\ failed \in Nat
        /\ Pending \in {0, 1} /\ Open \in {0, 1}
    BY DEF TypeOK, Report, Pending, Open
  <1>n. Net(report) \in Int
    BY <1>0, NetCount DEF Counters
  <1>1. CASE /\ UNCHANGED << begun, poisoned, failed >>
             /\ Net(report') = Net(report) /\ Pending' = Pending /\ Open' = Open
    BY <1>0, <1>n, <1>1 DEF Settles
  <1>2. CASE Receive
    <2>1. /\ pc = "idle" /\ pc' = "admit" /\ begun' = begun + 1
          /\ UNCHANGED << failed, poisoned >>
      BY <1>2 DEF Receive, ReceiveNothing, ReceiveError, ReceiveFoul,
         ReceivePacket, BeginTick, ToAdmit
    <2>2. Pending = 0 /\ Pending' = 0 /\ Open = 0 /\ Open' = 1
      BY <2>1 DEF Pending, Open
    <2>3. \/ report' = report \/ report' = NonFiniteRejected(report)
          \/ \E key \in Keys : report' = ReceiveFailed(report, key)
          \/ report' = Count(report, "rejected_batches")
          \/ report' = Count(report, "accepted_batches")
      BY <1>2 DEF Receive, ReceiveNothing, ReceiveError, ReceiveFoul, ReceivePacket
    <2>4. Net(report') = Net(report)
      BY <1>0, <2>3, NetRejected
    <2> QED BY <1>0, <1>n, <2>1, <2>2, <2>4 DEF Settles
  <1>3. CASE AdmitStimuli \/ AdmitModulators
    <2>1. UNCHANGED << report, pc, drained, begun, poisoned, failed >>
      BY <1>3 DEF AdmitStimuli, AdmitModulators, history
    <2>2. Pending' = Pending /\ Open' = Open
      BY <2>1 DEF Pending, IsFoul, Open
    <2> QED BY <1>1, <2>1, <2>2
  <1>4. CASE AdmitDone
    <2>1. /\ UNCHANGED << report, begun, poisoned, failed >>
          /\ pc = "admit" /\ pc' = "drain" /\ drained' = Idle
      BY <1>4 DEF AdmitDone
    <2>2. ~IsFoul(drained')
      BY <2>1, AdmittedClean
    <2>3. Pending = 0 /\ Pending' = 0 /\ Open = 1 /\ Open' = 1
      BY <2>1, <2>2 DEF Pending, IsFoul, Open
    <2> QED BY <1>1, <2>1, <2>3
  <1>5. CASE Drain
    <2>1. /\ pc = "drain" /\ pc' \in {"drain", "sample"}
          /\ UNCHANGED << report, begun, failed >>
      BY <1>5 DEF Drain
    <2>2. Open = 1 /\ Open' = 1
      BY <2>1 DEF Open
    <2>3. poisoned' - Pending' = poisoned - Pending
      BY <1>5, PoisonedOnce
    <2> QED BY <1>0, <1>n, <2>1, <2>2, <2>3 DEF Settles
  <1>6. CASE Sample
    <2>1. /\ pc = "sample" /\ pc' \in {"sample", "step"}
          /\ UNCHANGED << report, drained, begun, poisoned, failed >>
      BY <1>6 DEF Sample, history
    <2>2. Pending' = Pending /\ Open' = Open
      BY <2>1 DEF Pending, IsFoul, Open
    <2> QED BY <1>1, <2>1, <2>2
  <1>7. CASE SkipStep
    <2>1. /\ pc = "step" /\ pc' = "publish" /\ UNCHANGED << begun, poisoned, failed >>
          /\ IsFoul(drained) /\ report' = NonFiniteRejected(report)
      BY <1>7 DEF SkipStep, EndTick
    <2>2. Pending = 1 /\ Pending' = 0 /\ Open = 1 /\ Open' = 0
      BY <2>1 DEF Pending, Open
    <2>3. Net(report') = Net(report)
      BY <1>0, <2>1, NetRejected
    <2> QED BY <1>0, <1>n, <2>1, <2>2, <2>3 DEF Settles
  <1>8. CASE StepFails \/ NothingToEmit \/ EmitSucceeds \/ EmitFails
    <2>1. /\ pc = "step" /\ pc' = "publish" /\ UNCHANGED << begun, poisoned >>
          /\ ~IsFoul(drained)
      BY <1>8 DEF StepFails, NothingToEmit, EmitSucceeds, EmitFails, EndTick, Feed
    <2>2. Pending = 0 /\ Pending' = 0 /\ Open = 1 /\ Open' = 0
      BY <2>1 DEF Pending, Open
    <2>3. CASE StepFails
      BY <1>0, <1>n, <2>1, <2>2, <2>3 DEF StepFails, Settles
    <2>4. CASE NothingToEmit \/ EmitSucceeds
      <3>1. failed' = failed /\ \E drops \in BOOLEAN : report' = Stepped(drops)
        BY <2>4 DEF NothingToEmit, EmitSucceeds
      <3>2. Net(report') = Net(report) + 1
        BY <1>0, <3>1, NetStepped
      <3> QED BY <1>0, <1>n, <2>1, <2>2, <3>1, <3>2 DEF Settles
    <2>5. CASE EmitFails
      <3>1. /\ failed' = failed + 1
            /\ \E drops \in BOOLEAN, key \in Keys :
                 report' = Diagnose(Count(Stepped(drops), "emit_errors"), "emit", key)
        BY <2>5 DEF EmitFails
      <3>2. Net(report') = Net(report)
        BY <1>0, <3>1, NetStepped
      <3> QED BY <1>0, <1>n, <2>1, <2>2, <3>1, <3>2 DEF Settles
    <2> QED BY <1>8, <2>3, <2>4, <2>5
  <1>9. CASE Publish \/ Signal \/ Leave
    <2>1. /\ pc \in {"publish", "idle", "draining"}
          /\ pc' \in {"idle", "draining", "stopped"}
          /\ UNCHANGED << report, begun, poisoned, failed >>
      BY <1>9 DEF Publish, Signal, Leave, history
    <2>2. Pending = 0 /\ Pending' = 0 /\ Open = 0 /\ Open' = 0
      BY <2>1 DEF Pending, Open
    <2> QED BY <1>1, <2>1, <2>2
  <1>10. CASE Elapse
    <2>1. UNCHANGED << pc, drained, begun, poisoned, failed >>
      BY <1>10 DEF Elapse, tick, history
    <2>2. Pending' = Pending /\ Open' = Open
      BY <2>1 DEF Pending, IsFoul, Open
    <2>3. report'.stats = report.stats
      BY <1>0, <1>10 DEF Elapse, Report
    <2>4. Net(report') = Net(report)
      BY <2>3 DEF Net
    <2> QED BY <1>1, <2>1, <2>2, <2>4
  <1>11. CASE \E c \in Class, part \in {"finite", "foul"} : DirectEnqueue(c, part)
    <2>1. UNCHANGED << report, pc, drained, begun, poisoned, failed >>
      BY <1>11 DEF DirectEnqueue, tick
    <2>2. Pending' = Pending /\ Open' = Open
      BY <2>1 DEF Pending, IsFoul, Open
    <2> QED BY <1>1, <2>1, <2>2
  <1>12. CASE UNCHANGED vars
    <2>1. UNCHANGED << report, pc, drained, begun, poisoned, failed >>
      BY <1>12 DEF vars, tick, history
    <2>2. Pending' = Pending /\ Open' = Open
      BY <2>1 DEF Pending, IsFoul, Open
    <2> QED BY <1>1, <2>1, <2>2
  <1> QED BY <1>2, <1>3, <1>4, <1>5, <1>6, <1>7, <1>8, <1>9, <1>10, <1>11, <1>12
          DEF Next, Tick

(* Every tick begun has stepped the network once, failed to, or was given  *)
(* up because the merged packet was foul, for any packets, policies and    *)
(* capacities and with any number of direct producers: the network is      *)
(* never stepped on a foul packet and never denied a clean one (the second *)
(* finite gate of run_tick).                                               *)
THEOREM StepsAreAccounted == Spec => []StepsAccounted
  <1>1. Init => AInv /\ LedgerInv
    <2> SUFFICES ASSUME Init PROVE LedgerInv
      BY InitAccounting
    <2>1. /\ begun = 0 /\ poisoned = 0 /\ failed = 0 /\ pc = "idle"
          /\ report.stats = [k \in Counters |-> 0]
      BY DEF Init
    <2>2. Net(report) = 0 /\ Pending = 0 /\ Open = 0
      BY <2>1 DEF Net, Counters, Pending, Open
    <2> QED BY <2>1, <2>2 DEF LedgerInv
  <1>2. AInv /\ LedgerInv /\ [Next]_vars => (AInv /\ LedgerInv)'
    <2> SUFFICES ASSUME AInv, LedgerInv, [Next]_vars PROVE LedgerInv'
      BY AccountingStep
    <2>1. AInv'
      BY AccountingStep
    <2>2. /\ begun \in Nat /\ poisoned \in Nat /\ failed \in Nat
          /\ poisoned' \in Nat /\ report \in Report
      BY <2>1 DEF AInv, TypeOK, Report
    <2>3. /\ Net(report) \in Int /\ Open \in {0, 1} /\ Pending \in {0, 1}
          /\ Pending' \in {0, 1}
      BY <2>2, NetCount DEF Counters, Open, Pending
    <2>4. \/ Settles(0, 0, 0, 0, 0) \/ Settles(1, 0, 0, 0, 1)
          \/ Settles(0, 0, 1, 0, -1) \/ Settles(0, 0, 0, 1, -1)
          \/ Settles(0, 1, 0, 0, -1)
      BY StepsSettle DEF AInv
    <2>5. PICK n \in Int, p \in Int, o \in Int :
            Net(report) = n /\ poisoned - Pending = p /\ Open = o
      BY <2>2, <2>3
    <2>6. begun = n + p + failed + o
      BY <2>5 DEF LedgerInv
    <2>7. begun' = Net(report') + (poisoned' - Pending') + failed' + Open'
      BY <2>2, <2>4, <2>5, <2>6 DEF Settles
    <2> QED BY <2>7 DEF LedgerInv
  <1>3. AInv /\ LedgerInv => StepsAccounted
    <2> SUFFICES ASSUME AInv, LedgerInv, pc = "idle"
                 PROVE  begun + report.stats["emit_errors"]
                          = report.stats["ticks"] + poisoned + failed
      BY DEF StepsAccounted
    <2>1. Pending = 0 /\ Open = 0
      BY DEF Pending, Open
    <2>2. /\ begun \in Nat /\ poisoned \in Nat /\ failed \in Nat
          /\ report.stats["ticks"] \in Nat /\ report.stats["emit_errors"] \in Nat
      BY DEF AInv, TypeOK, Counters
    <2> QED BY <2>1, <2>2 DEF LedgerInv, Net
  <1> QED BY <1>1, <1>2, <1>3, PTL DEF Spec

(* A failed step or emission takes readiness away for good, although later *)
(* ticks succeed, and nothing else in the loop does (Fatal in run_tick,    *)
(* TickSucceeded).                                                         *)
THEOREM FailureIsFinal == Spec => []FailureSticks
  <1>1. Init => AInv /\ FailureSticks
    BY InitAccounting DEF Init, FailureSticks
  <1>2. ASSUME AInv, FailureSticks, [Next]_vars PROVE AInv' /\ FailureSticks'
    <2> USE DEF health, HM!lifecycle, HM!ages, HM!pressure
    <2>0. AInv' /\ failed \in Nat
      BY <1>2, AccountingStep DEF AInv, TypeOK
    <2>1. CASE StepFails \/ EmitFails
      <3>1. failed' = failed + 1 /\ fatal' # "none"
        BY <2>1 DEF StepFails, EmitFails, Fail, HM!EnterFatal
      <3>2. failed' > 0
        BY <2>0, <3>1
      <3> QED BY <2>0, <3>1, <3>2 DEF FailureSticks
    <2>2. CASE failed' = failed /\ fatal' = fatal
      BY <1>2, <2>0, <2>2 DEF FailureSticks
    <2>3. CASE Receive
      BY <2>2, <2>3 DEF Receive, ReceiveNothing, ReceiveError, ReceiveFoul,
         ReceivePacket, BeginTick, HM!IngressObserved
    <2>4. CASE AdmitStimuli \/ AdmitModulators \/ AdmitDone \/ Drain \/ Sample
      BY <2>2, <2>4 DEF AdmitStimuli, AdmitModulators, AdmitDone, Drain, Sample,
         HM!Sampled, history
    <2>5. CASE SkipStep \/ NothingToEmit \/ EmitSucceeds
      BY <2>2, <2>5 DEF SkipStep, NothingToEmit, EmitSucceeds, HM!TickSucceeded
    <2>6. CASE Publish \/ Elapse \/ Signal \/ Leave
      BY <2>2, <2>6 DEF Publish, Elapse, Signal, Leave, HM!Published, HM!Elapse,
         HM!BeginDrain, history
    <2>7. CASE \E c \in Class, part \in {"finite", "foul"} : DirectEnqueue(c, part)
      BY <2>2, <2>7 DEF DirectEnqueue
    <2>8. CASE UNCHANGED vars
      BY <2>2, <2>8 DEF vars, history
    <2> QED BY <1>2, <2>1, <2>3, <2>4, <2>5, <2>6, <2>7, <2>8 DEF Next, Tick
  <1> QED BY <1>1, <1>2, PTL DEF Spec
-----------------------------------------------------------------------------
(* Pressure                                                                *)

(* Whoever enqueues meanwhile, the sum so far is within the capacity of    *)
(* the classes already read.                                               *)
WithinCapacity ==
  pc = "sample" =>
    /\ at = 1 => depth = 0
    /\ at = 2 => depth <= Cap("sensory")
    /\ at = 3 => depth <= Cap("sensory") + Cap("reward")
    /\ at = 4 => depth <= Cap("sensory") + Cap("reward") + Cap("control")

(* While nobody enqueues, the drained queues stay empty and the sum is of  *)
(* what the others still hold.                                             *)
Undisturbed ==
  ~busy =>
    /\ pc = "drain" /\ at >= 2 => Depth(q["control"]) = 0
    /\ pc = "sample" => /\ Depth(q["control"]) = 0 /\ Depth(q["telemetry"]) = 0
                        /\ at = 2 => depth = Depth(q["sensory"])
                        /\ at >= 3 => depth = Depth(q["sensory"])
                                                + Depth(q["reward"])

SInv == PressureIsRemainder /\ WithinCapacity /\ Undisturbed

(* The depths are natural numbers within the capacities. *)
LEMMA Depths ==
  ASSUME AInv
  PROVE  \A c \in {"sensory", "reward", "control", "telemetry"} :
           Depth(q[c]) \in Nat /\ Cap(c) \in Nat /\ Depth(q[c]) <= Cap(c)
  BY Fields, CapPositive DEF AInv, TypeOK, QInv, QueueOK, Class

(* Every step keeps the bounds and, while nobody enqueues, the sum. *)
LEMMA PressureStep == AInv /\ SInv /\ [Next]_vars => SInv'
  <1> SUFFICES ASSUME AInv, SInv, [Next]_vars PROVE SInv'
    OBVIOUS
  <1> USE DEF health, HM!lifecycle, HM!ages, HM!pressure
  <1>0. at \in 1 .. 4 /\ depth \in Nat /\ busy \in BOOLEAN
    BY DEF AInv, TypeOK
  (* A step elsewhere in the tick. *)
  <1>1. CASE /\ UNCHANGED << queue_depth, queue_capacity >>
             /\ pc' \notin {"drain", "sample", "step"}
    BY <1>1 DEF SInv, PressureIsRemainder, WithinCapacity, Undisturbed
  (* A step that does not concern it at all. *)
  <1>2. CASE /\ UNCHANGED << queue_depth, queue_capacity, pc, at, depth >>
             /\ busy' \/ (busy' = busy /\ q' = q)
    <2>1. CASE busy'
      BY <1>2, <2>1 DEF SInv, PressureIsRemainder, WithinCapacity, Undisturbed, Cap
    <2>2. CASE busy' = busy /\ q' = q
      BY <1>2, <2>2 DEF SInv, PressureIsRemainder, WithinCapacity, Undisturbed, Cap
    <2> QED BY <1>2, <2>1, <2>2
  <1>3. CASE Receive
    <2>1. pc' = "admit" /\ UNCHANGED << queue_depth, queue_capacity >>
      BY <1>3 DEF Receive, ReceiveNothing, ReceiveError, ReceiveFoul,
         ReceivePacket, ToAdmit, HM!IngressObserved
    <2> QED BY <1>1, <2>1
  <1>4. CASE AdmitStimuli \/ AdmitModulators
    <2>1. pc' = "admit" /\ UNCHANGED << queue_depth, queue_capacity >>
      BY <1>4 DEF AdmitStimuli, AdmitModulators
    <2> QED BY <1>1, <2>1
  <1>5. CASE AdmitDone
    <2>1. pc' = "drain" /\ at' = 1 /\ UNCHANGED << queue_depth, queue_capacity >>
      BY <1>5 DEF AdmitDone
    <2> QED BY <2>1 DEF SInv, PressureIsRemainder, WithinCapacity, Undisturbed
  <1>6. CASE Drain
    <2> DEFINE c == DrainOrder[at]
    <2>1. /\ q' = [q EXCEPT ![c] = Take(c)] /\ c \in Class
          /\ UNCHANGED << queue_depth, queue_capacity, busy >> /\ pc = "drain"
      BY <1>0, <1>6, Orders DEF Drain
    <2>2. \/ at < 4 /\ at' = at + 1 /\ pc' = "drain"
          \/ at = 4 /\ at' = 1 /\ pc' = "sample" /\ depth' = 0
      BY <1>0, <1>6 DEF Drain
    <2>3. q \in [Class -> QueueState]
      BY DEF AInv, TypeOK
    <2> HIDE DEF c
    <2>4. /\ q'[c] = Take(c)
          /\ \A d \in Class : d # c => q'[d] = q[d]
      BY <2>1, <2>3
    <2>5. c \in {"control", "telemetry"} => Depth(q'[c]) = 0
      <3>1. q[c] \in QueueState
        BY <2>1, <2>3
      <3>2. Depth(DrainAll(q[c])) = 0
        BY <3>1, DrainAllOK
      <3> QED BY <2>4, <3>2 DEF Take
    <2>6. ~busy => Depth(q'["control"]) = 0
      <3>1. CASE at = 1
        <4>1. c = "control"
          BY <3>1, Orders DEF c
        <4> QED BY <2>5, <4>1
      <3>2. CASE at # 1
        <4>1. c # "control"
          BY <1>0, <3>2, Orders DEF c
        <4>2. q'["control"] = q["control"]
          BY <2>4, <4>1 DEF Class
        <4>3. ~busy => Depth(q["control"]) = 0
          BY <1>0, <2>1, <3>2 DEF SInv, Undisturbed
        <4> QED BY <4>2, <4>3
      <3> QED BY <3>1, <3>2
    <2>7. at = 4 => Depth(q'["telemetry"]) = 0
      <3>1. at = 4 => c = "telemetry"
        BY Orders DEF c
      <3> QED BY <2>5, <3>1
    <2>8. queue_depth' <= queue_capacity'
      BY <2>1 DEF SInv, PressureIsRemainder
    <2>9. busy' = busy
      BY <2>1
    <2> QED BY <2>2, <2>6, <2>7, <2>8, <2>9
            DEF SInv, PressureIsRemainder, WithinCapacity, Undisturbed
  <1>7. CASE Sample
    <2> DEFINE s == Depth(q["sensory"])
               r == Depth(q["reward"])
               c == Depth(q["control"])
               t == Depth(q["telemetry"])
    <2>1. /\ pc = "sample" /\ UNCHANGED << q, busy >>
          /\ depth' = depth + Depth(q[MetricsOrder[at]])
      BY <1>7 DEF Sample, ingress, history
    <2>2. /\ at = 1 => depth' = depth + s
          /\ at = 2 => depth' = depth + r
          /\ at = 3 => depth' = depth + c
          /\ at = 4 => depth' = depth + t
      BY <2>1, Orders
    <2>3. /\ at < 4 => /\ at' = at + 1 /\ pc' = pc
                       /\ UNCHANGED << queue_depth, queue_capacity >>
          /\ at = 4 => /\ at' = 1 /\ pc' = "step"
                       /\ queue_depth' = depth' /\ queue_capacity' = TotalCapacity
      BY <1>7 DEF Sample, HM!Sampled
    <2>4. /\ s \in Nat /\ r \in Nat /\ c \in Nat /\ t \in Nat
          /\ Cap("sensory") \in Nat /\ Cap("reward") \in Nat
          /\ Cap("control") \in Nat /\ Cap("telemetry") \in Nat
          /\ s <= Cap("sensory") /\ r <= Cap("reward")
          /\ c <= Cap("control") /\ t <= Cap("telemetry")
      BY Depths
    <2>5. /\ ~busy => c = 0 /\ t = 0
          /\ at = 1 => depth = 0
          /\ ~busy /\ at = 2 => depth = s
          /\ ~busy /\ at >= 3 => depth = s + r
      BY <2>1 DEF SInv, WithinCapacity, Undisturbed
    <2>6. busy' = busy /\ UNCHANGED << s, r, c, t >>
      BY <2>1
    <2>7. at < 4 => SInv'
      <3> SUFFICES ASSUME at < 4 PROVE SInv'
        OBVIOUS
      <3>1. PressureIsRemainder'
        BY <2>1, <2>3 DEF SInv, PressureIsRemainder
      <3>2. WithinCapacity'
        <4>1. /\ at = 2 => depth <= Cap("sensory")
              /\ at = 3 => depth <= Cap("sensory") + Cap("reward")
          BY <2>1 DEF SInv, WithinCapacity
        <4> HIDE DEF s, r, c, t
        <4>2. /\ at' = 1 => depth' = 0
              /\ at' = 2 => depth' <= Cap("sensory")
              /\ at' = 3 => depth' <= Cap("sensory") + Cap("reward")
              /\ at' = 4 => depth' <= Cap("sensory") + Cap("reward") + Cap("control")
          BY <1>0, <2>2, <2>3, <2>4, <2>5, <4>1
        <4> QED BY <4>2 DEF WithinCapacity, Cap
      <3>3. Undisturbed'
        <4>1. /\ ~busy /\ at' = 2 => depth' = s
              /\ ~busy /\ at' >= 3 => depth' = s + r
          <5> HIDE DEF s, r, c, t
          <5> QED BY <1>0, <2>2, <2>3, <2>4, <2>5
        <4> QED BY <2>1, <2>3, <2>5, <2>6, <4>1 DEF Undisturbed
      <3> QED BY <3>1, <3>2, <3>3 DEF SInv
    <2>8. at = 4 => SInv'
      <3> SUFFICES ASSUME at = 4 PROVE SInv'
        OBVIOUS
      <3>1. depth <= Cap("sensory") + Cap("reward") + Cap("control")
        BY <2>1 DEF SInv, WithinCapacity
      <3>2. queue_depth' <= queue_capacity' /\ (~busy => queue_depth' = s + r)
        <4> HIDE DEF s, r, c, t
        <4> QED BY <1>0, <2>2, <2>3, <2>4, <2>5, <3>1 DEF TotalCapacity
      <3> QED BY <2>3, <2>6, <3>2
              DEF SInv, PressureIsRemainder, WithinCapacity, Undisturbed
    <2> QED BY <1>0, <2>7, <2>8
  <1>8. CASE \/ SkipStep \/ StepFails \/ NothingToEmit \/ EmitSucceeds
             \/ EmitFails
    <2>1. pc' = "publish" /\ UNCHANGED << queue_depth, queue_capacity >>
      BY <1>8 DEF SkipStep, StepFails, NothingToEmit, EmitSucceeds, EmitFails,
         EndTick, Fail, HM!TickSucceeded, HM!EnterFatal
    <2> QED BY <1>1, <2>1
  <1>9. CASE Publish \/ Signal \/ Leave
    <2>1. /\ pc' \in {"idle", "draining", "stopped"}
          /\ UNCHANGED << queue_depth, queue_capacity >>
      BY <1>9 DEF Publish, Signal, Leave, HM!Published, HM!BeginDrain
    <2> QED BY <1>1, <2>1
  <1>10. CASE Elapse
    BY <1>2, <1>10 DEF Elapse, HM!Elapse, ingress, tick, history
  <1>11. CASE \E c \in Class, part \in {"finite", "foul"} : DirectEnqueue(c, part)
    BY <1>2, <1>11 DEF DirectEnqueue, tick
  <1>12. CASE UNCHANGED vars
    BY <1>2, <1>12 DEF vars, ingress, tick, history
  <1> QED BY <1>3, <1>4, <1>5, <1>6, <1>7, <1>8, <1>9, <1>10, <1>11, <1>12
          DEF Next, Tick

(* What a tick reports as pressure never exceeds the capacity, although    *)
(* the four depths are of four different moments, and is the rest of the   *)
(* sensory and the reward queue when nobody enqueued since the drain began *)
(* (drain_for_tick before apply_queue_pressure).                           *)
THEOREM PressureIsHonest == Spec => []PressureIsRemainder
  <1>1. Init => AInv /\ SInv
    <2>1. Init => SInv
      BY DEF Init, SInv, PressureIsRemainder, WithinCapacity, Undisturbed
    <2> QED BY <2>1, InitAccounting
  <1>2. AInv /\ SInv /\ [Next]_vars => (AInv /\ SInv)'
    BY AccountingStep, PressureStep
  <1>3. SInv => PressureIsRemainder
    BY DEF SInv
  <1> QED BY <1>1, <1>2, <1>3, PTL DEF Spec
=============================================================================
