--------------------------- MODULE HarnessHistory ---------------------------
(***************************************************************************)
(* RuntimeHarness with one more history variable, for what holds as long   *)
(* as a fault is recovered from by a restart only: boot is a public method *)
(* and may also be called again on an instance that has failed.            *)
(***************************************************************************)
EXTENDS RuntimeHarness

(* History: boot was called on an instance that had been booted before. *)
VARIABLE rebooted

hvars == << vars, rebooted >>

(* No call of boot or shutdown has ended in this instance yet. *)
Untouched == restart_outcome = "none" /\ health = "starting"

HInit == Init /\ rebooted = FALSE

HNext ==
  \/ Boot /\ rebooted' = (rebooted \/ ~Untouched)
  \/ /\ Restart \/ RunTick \/ Shutdown \/ PushIngress \/ PushIngressFront
     /\ UNCHANGED rebooted

HSpec == HInit /\ [][HNext]_hvars

(* With restarts as the only recovery no packet is lost: what is published *)
(* has no gap in its sequence numbers, although a fault may discard the    *)
(* packet just fetched (ingress, the high-water mark of run_tick).         *)
NoGap ==
  rebooted \/ \A i \in 1 .. Len(log) : log[i].ingress = base.ingress + i
=============================================================================
