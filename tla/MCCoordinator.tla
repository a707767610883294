----------------------------- MODULE MCCoordinator -----------------------------
(* Instances of Coordinator for TLC.                                        *)
EXTENDS Coordinator, TLC

CONSTANTS a, b, c, d

Three == {a, b, c}
Four == {a, b, c, d}

(* Requests are interchangeable in every safety property.                   *)
Interchangeable == Permutations(Request)
================================================================================
