---------------------------- MODULE MCRunLifecycle ----------------------------
(* Instances of RunLifecycle for TLC.                                       *)
EXTENDS RunLifecycle, TLC

CONSTANTS u, v, w

Two == {u, v}
Three == {u, v, w}

Interchangeable == Permutations(Run)
================================================================================
