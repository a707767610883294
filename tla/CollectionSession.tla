--------------------------- MODULE CollectionSession ---------------------------
(***************************************************************************)
(* How the evidence of a release test is collected: the bounded telemetry  *)
(* store shared by all browsers (RequestTelemetryStore in                  *)
(* src/src/cloud_diagnostics.py), what the Forecast page writes to it at   *)
(* the end of a run, and the collection session the Cloud Diagnostics page *)
(* begins, finalises and hands on to the lifecycle after a reboot.         *)
(*                                                                         *)
(* A request is numbered in the order in which requests start, so that     *)
(* sorting records by started_at_utc is sorting them by number; "seen" is  *)
(* the last request that had started when this one completed, which tells  *)
(* whose windows overlap.  The forecasts are of the demo data: the         *)
(* acceptance tests that depend on an uploaded file are not recorded.      *)
(***************************************************************************)
EXTENDS Naturals, Sequences, SequencesExt, Sublists

CONSTANTS
  Browser,       (* browser sessions of the app                             *)
  MaxRequests,   (* bound on the requests started                           *)
  MaxBegins,     (* bound on the collections one browser begins             *)
  MaxReboots,    (* bound on the reboots of the process                     *)
  MaxRecords,    (* maxlen of the two deques of the store                   *)
  Nobody,        (* no peer session named in the URL                        *)
  None           (* no record, no bundle, no pending recovery               *)

ASSUME CollectionAssumption ==
  /\ Nobody \notin Browser /\ None \notin Browser \X Nat
  /\ {MaxRequests, MaxBegins, MaxReboots} \subseteq Nat
  /\ MaxRecords \in Nat \ {0}

VARIABLES
  records,           (* _records of the store, oldest first                 *)
  events,            (* _acceptance_events of the store, oldest first       *)
  begins,            (* which collection each browser is in                 *)
  pendingTimeout,    (* the collection a timeout is pending for, per browser*)
  pendingFailure,    (* the same for a recoverable failure                  *)
  running,           (* requests between start and completion               *)
  started,           (* the last request that started                       *)
  loaded, poisoned,  (* the pipeline is constructed, the coordinator closed *)
  tokenPresent,      (* HF_TOKEN is set in this lifecycle of the process    *)
  session,           (* the session record the page shows after Finalise    *)
  bundle,            (* the downloaded collection bundle                    *)
  reboots,           (* bounds the lifecycles                               *)
  history            (* history: every completed request, in order          *)

store == <<records, events>>
browsers == <<begins, pendingTimeout, pendingFailure>>
process == <<loaded, poisoned, tokenPresent, reboots>>
vars == <<store, browsers, running, started, process, session, bundle, history>>

Requests == 1..MaxRequests
Collections == Browser \X (0 .. MaxBegins + MaxReboots)
Collection(b) == <<b, begins[b]>>

Outcomes == {"success", "CoordinatorTimeoutError", "AdapterError",
             "BackendExecutionUnresponsiveError", "CoordinatorPoisonedError"}
Groups == {"request_ids", "token_absent_execution_ids",
           "token_present_execution_ids", "repeated_run_ids",
           "concurrency_request_ids", "timeout_recovery_ids"}

Init ==
  /\ records = <<>> /\ events = <<>>
  /\ begins = [b \in Browser |-> 0]
  /\ pendingTimeout = [b \in Browser |-> None]
  /\ pendingFailure = [b \in Browser |-> None]
  /\ running = {} /\ started = 0
  /\ loaded = FALSE /\ poisoned = FALSE /\ tokenPresent \in BOOLEAN
  /\ session = None /\ bundle = None
  /\ reboots = 0
  /\ history = <<>>

--------------------------------------------------------------------------------
(* The store.                                                               *)

(* append to a deque of maxlen MaxRecords, one element after the other      *)
PushAll(deque, new) ==
  LET all == deque \o new
  IN SubSeq(all, Max({1, Len(all) - MaxRecords + 1}), Len(all))

InCollection(s, c) == Only(s, {e \in Range(s) : e.session = c})

(* A warm run, a success, a queue timeout, as the code tells them.          *)
Reused(r) == r.outcome = "success" /\ ~r.constructed
IsSuccess(r) == r.outcome = "success"
IsTimeout(r) == r.outcome = "CoordinatorTimeoutError"
WarmRuns(s) == Only(s, {r \in Range(s) : Reused(r)})

--------------------------------------------------------------------------------
(* The Forecast page.                                                       *)

(* A run of the page takes its collection id when the script starts.        *)
Start(b) ==
  /\ started < MaxRequests
  /\ \A f \in running : f.browser = b => f.stopped
  /\ started' = started + 1
  /\ running' = running \cup
       {[id |-> started + 1, browser |-> b, session |-> Collection(b),
         refused |-> poisoned, stopped |-> FALSE]}
  /\ session' = None
  /\ UNCHANGED <<store, browsers, process, bundle, history>>

(* Slip: the run itself is counted again, on top of the snapshot.           *)
SuccessTests_OffByOne(f, record, newRecords) ==
  IF Len(WarmRuns(InCollection(newRecords, f.session))) + 1 < 3
  THEN <<"warm_forecast">> ELSE <<"repeated_forecasts">>

(* The acceptance tests a successful run records, in the order recorded.    *)
SuccessTests(f, record, newRecords) ==
  LET warm == Len(WarmRuns(InCollection(newRecords, f.session)))
      load == IF tokenPresent THEN "token_present_load" ELSE "token_absent_load"
      If(condition, test) == IF condition THEN <<test>> ELSE <<>>
  IN If(record.constructed, "cold_forecast") \o If(record.constructed, load)
     \o If(~record.constructed /\ warm < 3, "warm_forecast")
     \o If(~record.constructed /\ warm >= 3, "repeated_forecasts")
     \o If(pendingTimeout[f.browser] = f.session, "coordinator_timeout_recovery")
     \o If(pendingFailure[f.browser] = f.session, "recoverable_failure")

EventsFor(f, tests) ==
  [i \in DOMAIN tests |->
     [test |-> tests[i], session |-> f.session, request |-> f.id]]

(* Slip: any failure leaves the recovery pending.                           *)
Pending_AnyFailure(f, outcome, flag, kind) ==
  IF f.stopped THEN flag
  ELSE IF outcome # "success" THEN [flag EXCEPT ![f.browser] = f.session]
  ELSE IF flag[f.browser] = f.session THEN [flag EXCEPT ![f.browser] = None]
  ELSE flag

(* The two session-state flags: a failure of their kind sets them, the next *)
(* success in the same collection clears them.                              *)
Pending(f, outcome, flag, kind) ==
  IF f.stopped THEN flag
  ELSE IF outcome = kind THEN [flag EXCEPT ![f.browser] = f.session]
  ELSE IF outcome = "success" /\ flag[f.browser] = f.session
       THEN [flag EXCEPT ![f.browser] = None]
  ELSE flag

(* Slip: the record is written before the result is put into the session.   *)
Written_Always(f, record) == <<record>>

Written(f, record) ==
  IF f.stopped /\ record.outcome = "success" THEN <<>> ELSE <<record>>

(* What the page does with the outcome.  A script that was stopped gets no  *)
(* further than its first access to the session state: before the record    *)
(* after a success, after it otherwise.                                     *)
Conclude(f, outcome, constructs) ==
  LET record == [id |-> f.id, session |-> f.session, outcome |-> outcome,
                 constructed |-> outcome = "success" /\ constructs,
                 seen |-> started]
      newRecords == PushAll(records, Written(f, record))
      recorded == CASE outcome = "success"  -> SuccessTests(f, record, newRecords)
                    [] outcome \in {"CoordinatorTimeoutError", "AdapterError"}
                                            -> <<"configuration_preserved">>
                    [] OTHER                -> <<>>
      tests == IF f.stopped THEN <<>> ELSE recorded
  IN /\ running' = running \ {f}
     /\ records' = newRecords
     /\ events' = PushAll(events, EventsFor(f, tests))
     /\ pendingTimeout' = Pending(f, outcome, pendingTimeout, "CoordinatorTimeoutError")
     /\ pendingFailure' = Pending(f, outcome, pendingFailure, "AdapterError")
     /\ history' = Append(history, record)

(* The run comes back from the coordinator.  Only the first execution that  *)
(* reaches the backend constructs the pipeline; one that fails or hangs may *)
(* have constructed it.                                                     *)
Finish(f, outcome) ==
  /\ (outcome = "CoordinatorPoisonedError") <=> f.refused
  /\ poisoned => outcome \in {"CoordinatorPoisonedError", "CoordinatorTimeoutError"}
  /\ Conclude(f, outcome, ~loaded)
  /\ poisoned' = (poisoned \/ outcome = "BackendExecutionUnresponsiveError")
  /\ CASE outcome = "success" -> loaded' = TRUE
       [] outcome \in {"AdapterError", "BackendExecutionUnresponsiveError"}
                              -> loaded' \in {loaded, TRUE}
       [] OTHER               -> UNCHANGED loaded
  /\ session' = None
  /\ UNCHANGED <<begins, started, tokenPresent, reboots, bundle>>

--------------------------------------------------------------------------------
(* The Cloud Diagnostics page.  Going there stops the script of a run.      *)

StopScripts(b) ==
  running' = {IF f.browser = b THEN [f EXCEPT !.stopped = TRUE] ELSE f : f \in running}

(* _record_event: an event that depends on the environment is recorded once *)
(* per collection.                                                          *)
RecordOnce(evs, c, test) ==
  IF \E e \in Range(evs) : e.test = test /\ e.session = c
  THEN evs
  ELSE PushAll(evs, <<[test |-> test, session |-> c, request |-> None]>>)

(* Every rendering of the page, with a button pressed or not, first records *)
(* what the environment shows for the collection it starts in.              *)
Rendered(b) == RecordOnce(events, Collection(b), "pip_check")

Visit(b) ==
  /\ StopScripts(b)
  /\ events' = Rendered(b)
  /\ session' = None
  /\ UNCHANGED <<records, browsers, started, process, bundle, history>>

Begin(b) ==
  /\ begins[b] < MaxBegins + reboots
  /\ StopScripts(b)
  /\ begins' = [begins EXCEPT ![b] = @ + 1]
  /\ pendingTimeout' = [pendingTimeout EXCEPT ![b] = None]
  /\ pendingFailure' = [pendingFailure EXCEPT ![b] = None]
  /\ events' = Rendered(b)
  /\ session' = None
  /\ UNCHANGED <<records, started, process, bundle, history>>

(* Slip: the snapshot of the store is taken of no collection in particular. *)
Cohort_Unfiltered(c, peer) == records

(* build_concurrency_cohort                                                 *)
Cohort(c, peer) ==
  InCollection(records, c) \o
    (IF peer = Nobody THEN <<>> ELSE InCollection(records, Collection(peer)))

(* merge_cohort_with_prior                                                  *)
Merge(current, prior) ==
  LET ids == {current[i].id : i \in DOMAIN current}
  IN current \o Only(prior, {r \in Range(prior) : r.id \notin ids})

Ids(s) == [i \in DOMAIN s |-> s[i].id]

(* Slip: the ids of the bundle are appended to the session's own.           *)
Distinct_Not(s) == s

(* dict.fromkeys: the first of equal elements stays                         *)
Distinct(s) ==
  LET firsts == Only([i \in DOMAIN s |-> i], {i \in DOMAIN s : \A j \in 1 .. (i - 1) : s[j] # s[i]})
  IN [k \in DOMAIN firsts |-> s[firsts[k]]]

Overlap(a, b) ==
  a.outcome = "success" /\ b.outcome = "success" /\
  IF a.id < b.id THEN a.seen >= b.id ELSE b.seen >= a.id

Overlapping(s) ==
  {i \in DOMAIN s : \E j \in DOMAIN s : i # j /\ Overlap(s[i], s[j])}

(* categorise_request_ids (<= : SortSeq is defined for any list then)       *)
Ordered(s) == SortSeq(s, LAMBDA a, b : a.id <= b.id)

(* What proofs take of the sort, for these lists of records.                *)
OrderedSorts(lists) ==
  \A s \in lists :
    LET ordered == Ordered(s)
    IN  /\ ordered \in Seq(Range(s)) /\ Range(ordered) = Range(s)
        /\ IsInjective(s) => IsInjective(ordered)
        /\ \A i, j \in DOMAIN ordered : i < j => ordered[i].id <= ordered[j].id

RepeatedRuns(s) ==
  LET warm == Ids(WarmRuns(Ordered(s)))
  IN IF warm = <<>> THEN <<>> ELSE Tail(warm)

ConcurrentRequests(s) ==
  SetToSeq({s[i].id : i \in Overlapping(s)})

TimeoutRecoveries(s) ==
  LET ordered == Ordered(s)
      Later(i) == Only(SubSeq(ordered, i + 1, Len(ordered)),
                    {r \in Range(ordered) : IsSuccess(r) /\ r.session = ordered[i].session})
      PairOf(i) == IF ~IsTimeout(ordered[i]) THEN <<>>
                   ELSE <<ordered[i].id>> \o Ids(SubSeq(Later(i), 1, Min({1, Len(Later(i))})))
  IN FlattenSeq([i \in DOMAIN ordered |-> PairOf(i)])

(* The executions the token events of this collection name.                 *)
TokenIds(evs, test) ==
  LET named == Only(evs, {e \in Range(evs) : e.test = test})
  IN [i \in DOMAIN named |-> named[i].request]

(* CloudCollectionSessionRecord.validate, as far as it depends on the ids.  *)
RepeatedIn(ids) == {g \in Groups : ~IsInjective(ids[g])}
OrphansIn(ids) == {g \in Groups : ~(Range(ids[g]) \subseteq Range(ids["request_ids"]))}
Valid(s) == RepeatedIn(s.ids) = {} /\ OrphansIn(s.ids) = {}

(* Finalise builds the record and its receipt whether it validates or not;  *)
(* a prior bundle is imported only when its own session record validates.   *)
(* The page shows them until its next rendering; an end of another request  *)
(* in between changes nothing about them, so the model drops them then too. *)
(* "named" and "imported" are not of the record: they tell the properties   *)
(* which collections the operator asked for.                                *)
Finalise(b, peer, import) ==
  /\ import => bundle # None /\ Valid(bundle)
  /\ StopScripts(b)
  /\ LET own == Cohort(Collection(b), peer)
         newEvents ==
           IF Overlapping(own) = {} THEN Rendered(b)
           ELSE RecordOnce(Rendered(b), Collection(b), "two_session_concurrency")
         ran == InCollection(newEvents, Collection(b))
         cohort == IF import THEN Merge(own, bundle.cohort) ELSE own
         Bound(group, test) ==
           IF import THEN Distinct(TokenIds(ran, test) \o bundle.ids[group])
                     ELSE TokenIds(ran, test)
     IN /\ events' = newEvents
        /\ session' =
             [named |-> {Collection(b)} \cup
                          (IF peer = Nobody THEN {} ELSE {Collection(peer)}),
              imported |-> import,
              cohort |-> cohort,
              ids |-> [g \in Groups |->
                CASE g = "request_ids"                 -> Ids(cohort)
                  [] g = "token_absent_execution_ids"  -> Bound(g, "token_absent_load")
                  [] g = "token_present_execution_ids" -> Bound(g, "token_present_load")
                  [] g = "repeated_run_ids"            -> RepeatedRuns(cohort)
                  [] g = "concurrency_request_ids"     -> ConcurrentRequests(cohort)
                  [] g = "timeout_recovery_ids"        -> TimeoutRecoveries(cohort)]]
  /\ UNCHANGED <<records, browsers, started, process, bundle, history>>

Download ==
  /\ session # None
  /\ bundle' = session
  /\ session' = None
  /\ UNCHANGED <<store, browsers, running, started, process, history>>

(* A reboot empties the store and gives every browser a new session; the    *)
(* operator may have changed the token.                                     *)
Reboot ==
  /\ reboots < MaxReboots
  /\ reboots' = reboots + 1
  /\ records' = <<>> /\ events' = <<>> /\ running' = {}
  /\ begins' = [b \in Browser |-> begins[b] + 1]
  /\ pendingTimeout' = [b \in Browser |-> None]
  /\ pendingFailure' = [b \in Browser |-> None]
  /\ loaded' = FALSE /\ poisoned' = FALSE /\ tokenPresent' \in BOOLEAN
  /\ session' = None
  /\ UNCHANGED <<started, bundle, history>>

Next ==
  \/ \E b \in Browser : Start(b) \/ Visit(b) \/ Begin(b)
  \/ \E f \in running, outcome \in Outcomes : Finish(f, outcome)
  \/ \E b \in Browser, peer \in Browser \cup {Nobody}, import \in BOOLEAN :
       peer # b /\ Finalise(b, peer, import)
  \/ Download
  \/ Reboot

Spec == Init /\ [][Next]_vars
--------------------------------------------------------------------------------
(* Safety.                                                                  *)

Completed(c, Test(_)) == {i \in DOMAIN history : history[i].session = c /\ Test(history[i])}

(* "Recovery tests are marked passed only after a later successful request  *)
(* in the same collection that contains the timed-out request": the         *)
(* recovery the page claims is one, and one that succeeded afterwards.      *)
RecoveryIsGenuine ==
  \A e \in Range(events) :
    e.test = "coordinator_timeout_recovery" =>
      \E t \in Completed(e.session, IsTimeout), s \in Completed(e.session, IsSuccess) :
        t < s /\ history[s].id = e.request

(* "Only after the third countable warm run" of the collection is           *)
(* repeated_forecasts passed, whoever else uses the store in the meantime.  *)
RepeatedMeansThree ==
  \A e \in Range(events) :
    e.test = "repeated_forecasts" => Cardinality(Completed(e.session, Reused)) >= 3

(* A session record binds no request twice, and none of another collection  *)
(* except that of the named peer or of an imported bundle: whatever a group *)
(* lists is a request that completed in one of the collections finalised or *)
(* one the bundle binds.  An execution it lists as a load under one token   *)
(* state is not listed under the other.                                     *)
CompletedIn(id, collections) ==
  \E i \in DOMAIN history : history[i].id = id /\ history[i].session \in collections
BoundByBundle(id) == bundle # None /\ id \in Range(bundle.ids["request_ids"])
BindsItsOwn ==
  \A g \in Groups : \A id \in Range(session.ids[g]) :
    CompletedIn(id, session.named) \/ (session.imported /\ BoundByBundle(id))
SessionIsCoherent ==
  session # None =>
    /\ IsInjective(session.ids["request_ids"])
    /\ BindsItsOwn
    /\ Range(session.ids["token_absent_execution_ids"]) \cap
         Range(session.ids["token_present_execution_ids"]) = {}

(* When the session record the page hands out would not validate, it is for *)
(* one of two reasons: several timeouts share one recovery, or the store    *)
(* dropped the record of a request while it still held the request's event. *)
SharedRecovery(cohort) ==
  \E s \in Range(cohort) : IsSuccess(s) /\
    \E t, u \in Range(cohort) :
      /\ t # u /\ {t.session, u.session} = {s.session}
      /\ IsTimeout(t) /\ IsTimeout(u) /\ t.id < s.id /\ u.id < s.id
Overrun(id) ==
  \E i \in DOMAIN history : history[i].id = id /\ Len(history) - i >= MaxRecords
InvalidOnlyIfExplained ==
  session # None =>
    /\ RepeatedIn(session.ids) # {} =>
         RepeatedIn(session.ids) = {"timeout_recovery_ids"} /\ SharedRecovery(session.cohort)
    /\ \A g \in Groups :
         \A id \in Range(session.ids[g]) \ Range(session.ids["request_ids"]) : Overrun(id)

(* Concurrency is claimed of two sessions only: when the record lists       *)
(* overlapping requests, two collections took part, although the code       *)
(* compares the windows of all requests of the cohort with each other.      *)
ConcurrencyIsOfTwoSessions ==
  session # None /\ session.ids["concurrency_request_ids"] # <<>> =>
    \E r, s \in Range(session.cohort) :
      /\ {r.id, s.id} \subseteq Range(session.ids["concurrency_request_ids"])
      /\ r.session # s.session

(* "So the producer never emits a session the schema would reject" (comment *)
(* in CloudCollectionSessionRecord.validate): no id is twice in a group.    *)
NeverEmitsRejected == session # None => RepeatedIn(session.ids) = {}
================================================================================
