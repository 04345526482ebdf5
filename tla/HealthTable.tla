----------------------------- MODULE HealthTable -----------------------------
(***************************************************************************)
(* What the health machine promises a supervisor: the transition table of  *)
(* docs/health.md for a started process, over what a probe can see, the    *)
(* phase and the ready bit.  Causes (clock, ingress, queue fill) are left  *)
(* out: the table's degradations and recoveries are free to happen.        *)
(*                                                                         *)
(* The code is more permissive than the table's rows in two places, and    *)
(* this module follows it: a drain may begin in any phase that is not      *)
(* terminal, and a validated checkpoint may find the process degraded      *)
(* already.                                                                *)
(***************************************************************************)
VARIABLES phase, ready

tvars == << phase, ready >>

Booting == {"starting", "loading_checkpoint"}
Serving == {"running", "degraded"}

TInit == phase = "starting" /\ ready = FALSE

Initialize ==
  /\ phase = "starting"
  /\ phase' = "loading_checkpoint"
  /\ ready' = FALSE

(* The only way into readiness. *)
Validate ==
  /\ phase = "loading_checkpoint"
  /\ phase' \in Serving
  /\ ready' = TRUE

Degrade ==
  /\ phase = "running"
  /\ phase' = "degraded"
  /\ ready' = TRUE

Recover ==
  /\ phase = "degraded"
  /\ phase' = "running"
  /\ ready' = TRUE

Drain ==
  /\ phase \in Booting \cup Serving
  /\ phase' = "draining"
  /\ ready' = FALSE

Fail ==
  /\ phase \in Booting \cup Serving \cup {"draining"}
  /\ phase' = "fatal"
  /\ ready' = FALSE

TNext == Initialize \/ Validate \/ Degrade \/ Recover \/ Drain \/ Fail

TSpec == TInit /\ [][TNext]_tvars
=============================================================================
