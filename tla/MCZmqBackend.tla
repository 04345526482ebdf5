---------------------------- MODULE MCZmqBackend ----------------------------
(* Instances of ZmqBackend for TLC.                                        *)
EXTENDS ZmqBackend

Stimuli(w, a) == [kind |-> "stimuli", finite |-> TRUE, valid |-> TRUE,
                  schema |-> TRUE, width |-> w, age |-> a]
Modulators(f) == [kind |-> "modulators", finite |-> f, valid |-> TRUE,
                  schema |-> TRUE, width |-> 4, age |-> 0]

(* A good batch that may go stale in the queue, one from the future, one   *)
(* of the wrong width, finite and non-finite modulators.                   *)
MixedFrames == {Stimuli(2, 0), Stimuli(2, -1), Stimuli(3, 0),
                Modulators(TRUE), Modulators(FALSE)}

ModulationOnly == {Modulators(TRUE)}
=============================================================================
