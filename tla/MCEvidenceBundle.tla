---------------------------- MODULE MCEvidenceBundle ----------------------------
(***************************************************************************)
(* Three commits: the first two pin the same revision of the model, and    *)
(* from the second on machine_summary reports os_name.                     *)
(***************************************************************************)
EXTENDS EvidenceBundle

MCRevisionOf == [c \in Commit |-> IF c = 3 THEN 2 ELSE 1]
MCEmitsOsName == [c \in Commit |-> c > 1]
EveryCommitEmits == [c \in Commit |-> TRUE]
=============================================================================
