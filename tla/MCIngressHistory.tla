-------------------------- MODULE MCIngressHistory --------------------------
(* Instances of IngressHistory for TLC.                                    *)
EXTENDS IngressHistory, TLC

Symmetry == Permutations(Producers)

(* Eviction from a queue in which packets wait for each other, replacement *)
(* in a coalescing queue, refusal, and a blocking class of two slots with  *)
(* two producers waiting, racing shutdown.                                 *)
PolicyMixed == [sensory |-> "drop_oldest", reward |-> "coalesce",
                control |-> "block_timeout", telemetry |-> "reject"]
CapacityMixed == [sensory |-> 2, reward |-> 3, control |-> 2, telemetry |-> 1]
BoundMixed == [sensory |-> 3, reward |-> 2, control |-> 4, telemetry |-> 2]
=============================================================================
