-------------------------- MODULE MCControlSurface --------------------------
(* Instances of ControlSurface for TLC.                                    *)
EXTENDS ControlSurface

(* A readiness probe: of the requests that are told something, the one     *)
(* whose status depends on it too.                                         *)
ReadyProbe == {[text |-> TRUE, words |-> 2, get |-> TRUE, path |-> "/readyz"]}
=============================================================================
