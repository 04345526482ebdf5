--------------------------- MODULE IngressHistory ---------------------------
(***************************************************************************)
(* BoundedIngress with a history variable for how long packets wait: the   *)
(* calls of drain_for_tick that began after a packet was accepted and      *)
(* returned while it was still queued.                                     *)
(***************************************************************************)
EXTENDS BoundedIngress, Integers

VARIABLE waited   \* waited[c][n]: calls sat through by the queued packet n

hvars == << vars, waited >>

Held(s) == {s.items[i] : i \in 1 .. Depth(s)}

HInit == Init /\ waited = [c \in Class |-> << >>]

(* A packet accepted in the middle of a call only starts to wait with the  *)
(* next one.                                                               *)
Aged(c, n) ==
  IF n \in DOMAIN waited[c]
  THEN IF drainAt = 4 /\ drainAt' = 1 THEN waited[c][n] + 1 ELSE waited[c][n]
  ELSE IF drainAt = 1 THEN 0 ELSE -1

HNext ==
  /\ Next
  /\ waited' = [c \in Class |-> [n \in Held(q'[c]) |-> Aged(c, n)]]

HSpec == HInit /\ [][HNext]_hvars
-----------------------------------------------------------------------------
(* Bounded waiting: a control or telemetry packet never sits through a     *)
(* whole drain_for_tick, and a sensory or reward packet, served one a      *)
(* tick, through fewer of them than its queue has slots, whatever          *)
(* producers and other consumers do between two locks and also after       *)
(* shutdown: nothing overtakes a packet and every call comes by its class  *)
(* (drain_for_tick, pop from the front, push at the back).                 *)
ServedInTurn ==
  \A c \in Class : \A i \in 1 .. Depth(q[c]) :
    waited[c][q[c].items[i]] <=
      IF c \in {"control", "telemetry"} THEN 0 ELSE Cap(c) - i
=============================================================================
