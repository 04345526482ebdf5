-------------------------- MODULE MCRuntimeHarness --------------------------
(* Instances of RuntimeHarness, with its history, for TLC.                 *)
EXTENDS HarnessHistory

(* A store about to run out of tick numbers. *)
NearOverflow ==
  {[last_session_id |-> 1, committed_tick_seq |-> U64Max - 1,
    committed_ingress_seq |-> 0, inflight |-> NoInflight]}
=============================================================================
