--------------------------- MODULE MCHealthMachine ---------------------------
(* Instances of HealthMachine for TLC.                                     *)
EXTENDS HealthMachine, TLC

(* Legal, inverted, equal, out-of-range and non-finite watermarks. *)
MixedWatermarks == {NonFinite, -5, 50, 80}
DefaultWatermarks == {NonFinite}

(* Both sides of every threshold of 90/70 and of 80/50, both boundaries,   *)
(* an empty queue and none.                                                *)
BoundarySamples ==
  {<< 0, 0 >>, << 0, 10 >>, << 5, 10 >>, << 6, 10 >>, << 7, 10 >>,
   << 8, 10 >>, << 9, 10 >>}
FewSamples == {<< 0, 0 >>, << 7, 10 >>, << 8, 10 >>, << 9, 10 >>}
=============================================================================
