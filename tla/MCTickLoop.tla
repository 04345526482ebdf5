----------------------------- MODULE MCTickLoop -----------------------------
(* Instances of TickLoop for TLC.                                          *)
EXTENDS TickLoop

(* The default policies; one class of each kind. *)
PolicyDefault == [sensory |-> "drop_oldest", reward |-> "coalesce",
                  control |-> "block_timeout", telemetry |-> "drop_oldest"]
CapacityTick == [sensory |-> 2, reward |-> 1, control |-> 1, telemetry |-> 1]

(* Live and flagged packets, finite and foul. *)
SomePackets ==
  {[stimuli |-> "finite", modulators |-> "none", rejected |-> FALSE, batch |-> TRUE],
   [stimuli |-> "none", modulators |-> "foul", rejected |-> FALSE, batch |-> FALSE],
   [stimuli |-> "none", modulators |-> "foul", rejected |-> TRUE, batch |-> FALSE],
   [stimuli |-> "none", modulators |-> "finite", rejected |-> TRUE, batch |-> FALSE]}

(* A sensory queue that can keep a backlog; foul packets enqueued directly *)
(* beside the source's, and a producer in a class the pressure must not    *)
(* show.                                                                   *)
BoundTick == [sensory |-> 2, reward |-> 0, control |-> 0, telemetry |-> 1]
=============================================================================
