-------------------------- MODULE MCBoundedIngress --------------------------
(* Instances of BoundedIngress for TLC.                                    *)
EXTENDS BoundedIngress

(* The default policies of IngressConfig: a blocking control class. *)
PolicyDefault == [sensory |-> "drop_oldest", reward |-> "coalesce",
                  control |-> "block_timeout", telemetry |-> "drop_oldest"]

(* A class of each policy, small enough to overflow in three calls; in the *)
(* blocking one both producers may wait for the one slot.                  *)
PolicyLive == [PolicyDefault EXCEPT !.telemetry = "reject"]
CapacityLive == [c \in Class |-> 1]
BoundLive == [sensory |-> 2, reward |-> 1, control |-> 3, telemetry |-> 2]

(* One call per class. *)
BoundRace == [c \in Class |-> 1]
=============================================================================
