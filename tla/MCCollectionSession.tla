-------------------------- MODULE MCCollectionSession --------------------------
(* Instances of CollectionSession for TLC.                                  *)
EXTENDS CollectionSession

CONSTANTS p, q
One == {p}
Both == {p, q}
Interchangeable == Permutations(Browser)

(* What the theorem about the session record assumes of the sort holds for  *)
(* these lists.                                                             *)
ShortLists ==
  LET Some == [id : 1 .. 3, outcome : {"success", "CoordinatorTimeoutError"}]
  IN  UNION {[1 .. n -> Some] : n \in 0 .. 4}
ASSUME RecordsAreSorted == OrderedSorts(ShortLists)

(* Two browsers and two requests, a second collection begun at any time.    *)
TwoBrowsers == started <= 2 /\ reboots = 0 /\ bundle = None /\ ~tokenPresent

(* Or one browser alone, in the collection it was given: two requests with  *)
(* a reboot and a bundle, or more without either: a fourth for the third    *)
(* warm run, as long as nothing has poisoned the coordinator or left a      *)
(* failure to recover from, which that run does not need.                   *)
Untouched(b) ==
  /\ \A r \in Range(records) \cup Range(events) \cup Range(history) \cup running :
       r.session[1] # b
  /\ session # None => session.named \cap ({b} \X Nat) = {}
OneBrowser ==
  /\ \A b \in Browser : begins[b] = reboots
  /\ \E b \in Browser : Untouched(b)
  /\ started >= 3 => reboots = 0 /\ bundle = None /\ ~tokenPresent
  /\ started >= 4 => ~poisoned /\ Range(pendingFailure) = {None}

Scope == TwoBrowsers \/ OneBrowser
================================================================================
