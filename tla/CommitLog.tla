------------------------------ MODULE CommitLog ------------------------------
(***************************************************************************)
(* What the durable contract of runtime/mod.rs promises across restarts,   *)
(* told without processes, faults or a store: sessions are opened one      *)
(* after the other; a session takes one fresh packet at a time and either  *)
(* publishes it, under the next tick number, or abandons it; a published   *)
(* packet is never published again.                                        *)
(***************************************************************************)
EXTENDS Naturals, Sequences

CONSTANT Number   \* sequence numbers: a set of naturals that contains 0

VARIABLES
  log,      \* every output ever published: << [session, tick, ingress], ... >>
  base,     \* what was committed before the log begins: [tick, ingress]
  session,  \* the session opened last
  pending   \* sequence number of the packet taken and not published, or 0

lvars == << log, base, session, pending >>

LastIngress == IF log = << >> THEN base.ingress ELSE log[Len(log)].ingress

LInit ==
  /\ log = << >>
  /\ base \in [tick : Number, ingress : Number]
  /\ session \in Number
  /\ pending = 0

(* A new session starts with nothing taken: what its predecessor left is   *)
(* abandoned, not published.                                               *)
Open ==
  /\ session' = session + 1
  /\ pending' = 0
  /\ UNCHANGED << log, base >>

Take ==
  /\ pending = 0
  /\ pending' \in Number /\ pending' > LastIngress
  /\ UNCHANGED << log, base, session >>

Output(i) ==
  [session |-> session, tick |-> base.tick + Len(log) + 1, ingress |-> i]

(* Taken and published, in one go or not. *)
Publish ==
  /\ \E i \in Number : /\ i > LastIngress
                    /\ pending \in {0, i}
                    /\ log' = Append(log, Output(i))
  /\ pending' = 0
  /\ UNCHANGED << base, session >>

LNext == Open \/ Take \/ Publish

LSpec == LInit /\ [][LNext]_lvars
=============================================================================
