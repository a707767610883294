----------------------------- MODULE InferenceGate -----------------------------
(***************************************************************************)
(* What the coordinator promises of the shared forecasting pipeline,       *)
(* without queues, locks, logs or threads: at most Capacity calls are      *)
(* inside, a call that is not known to have ended never gives its place    *)
(* back, and once a call has been given up the gate is closed until the    *)
(* process is rebooted.  Coordinator implements this module.               *)
(***************************************************************************)
EXTENDS Naturals, FiniteSets

CONSTANTS
  Request,   (* the calls                                                   *)
  Capacity   (* the number of places                                        *)

VARIABLES
  inside,    (* calls that have a place and may still give it back          *)
  kept,      (* calls whose place is never given back                       *)
  using,     (* calls whose backend execution has started and not ended     *)
  closed     (* an execution has been presumed unresponsive                 *)

gateVars == <<inside, kept, using, closed>>

Init ==
  /\ inside = {} /\ kept = {} /\ using = {}
  /\ closed = FALSE

Enter(r) ==
  /\ r \notin inside \cup kept \cup using
  /\ Cardinality(inside \cup kept) < Capacity
  /\ inside' = inside \cup {r}
  /\ UNCHANGED <<kept, using, closed>>

StartUsing(r) ==
  /\ r \in inside \ using
  /\ using' = using \cup {r}
  /\ UNCHANGED <<inside, kept, closed>>

StopUsing(r) ==
  /\ r \in using
  /\ using' = using \ {r}
  /\ UNCHANGED <<inside, kept, closed>>

(* A place is given back only by a call that uses the pipeline no more.     *)
Leave(r) ==
  /\ r \in inside \ using
  /\ inside' = inside \ {r}
  /\ UNCHANGED <<kept, using, closed>>

(* The place is kept: closing the gate on an execution that may still be    *)
(* running, or losing it with a call that never started.                    *)
Keep(r) ==
  /\ r \in inside
  /\ inside' = inside \ {r}
  /\ kept' = kept \cup {r}
  /\ closed' = TRUE \/ (closed' = closed /\ r \notin using)
  /\ UNCHANGED using

Reboot == inside' = {} /\ kept' = {} /\ using' = {} /\ closed' = FALSE

Next ==
  \/ \E r \in Request :
       Enter(r) \/ StartUsing(r) \/ StopUsing(r) \/ Leave(r) \/ Keep(r)
  \/ Reboot

Spec == Init /\ [][Next]_gateVars
================================================================================
