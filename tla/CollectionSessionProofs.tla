------------------------ MODULE CollectionSessionProofs ------------------------
(***************************************************************************)
(* Theorems about the collection of evidence, for any number of browsers,  *)
(* requests, collections and reboots and any size of the store: what the   *)
(* page has recorded took place (a recovery, three warm runs), and what a  *)
(* session record lists fits together (its requests, the two token paths,  *)
(* concurrent requests of two collections), and why one does not validate. *)
(***************************************************************************)
EXTENDS CollectionSession, SequenceLemmas

CollectionId == Browser \X Nat
Record == [id : Nat, session : CollectionId, outcome : Outcomes, constructed : BOOLEAN,
           seen : Nat]
Test == {"cold_forecast", "token_present_load", "token_absent_load", "warm_forecast",
         "repeated_forecasts", "coordinator_timeout_recovery", "recoverable_failure",
         "configuration_preserved", "pip_check", "two_session_concurrency"}
Event == [test : Test, session : CollectionId, request : Nat \cup {None}]
PageRun == [id : Nat, browser : Browser, session : CollectionId, refused : BOOLEAN,
            stopped : BOOLEAN]

Recovery == "coordinator_timeout_recovery"
Repeats == "repeated_forecasts"

(* The tests only a run of the Forecast page can pass, as far as theorems   *)
(* are about them.                                                          *)
OfARun == {Recovery, Repeats, "token_absent_load", "token_present_load"}

TypeOK ==
  /\ history \in Seq(Record) /\ events \in Seq(Event) /\ running \subseteq PageRun
  /\ begins \in [Browser -> Nat]
  /\ pendingTimeout \in [Browser -> CollectionId \cup {None}]
  /\ started \in Nat /\ loaded \in BOOLEAN /\ poisoned \in BOOLEAN

(* What history h says: a request of collection c timed out; the request of *)
(* event e succeeded after one had.                                         *)
TimedOut(h, c) == \E t \in DOMAIN h : h[t].session = c /\ IsTimeout(h[t])
Recovered(h, e) ==
  \E t, s \in DOMAIN h : /\ t < s
                         /\ h[t].session = e.session /\ IsTimeout(h[t])
                         /\ h[s].session = e.session /\ IsSuccess(h[s])
                         /\ h[s].id = e.request

(* The flag of a browser is set for a timeout that happened.                *)
PendingIsReal ==
  \A b \in Browser : pendingTimeout[b] # None => TimedOut(history, pendingTimeout[b])
RecoveriesAreReal ==
  \A e \in Range(events) : e.test = Recovery => Recovered(history, e)

IInv == TypeOK /\ PendingIsReal /\ RecoveriesAreReal

--------------------------------------------------------------------------------
(* The store and the history.                                               *)

(* A full deque drops its oldest elements and invents none.                 *)
LEMMA PushAllKeeps ==
  ASSUME NEW S, NEW deque \in Seq(S), NEW new \in Seq(S)
  PROVE  /\ PushAll(deque, new) \in Seq(S)
         /\ Range(PushAll(deque, new)) \subseteq Range(deque) \cup Range(new)
<1> DEFINE all == deque \o new
<1>1. all \in Seq(S) /\ Range(all) = Range(deque) \cup Range(new)
  BY ConcatProperties, RangeConcatenation
<1>2. PushAll(deque, new) = LastElements(all, MaxRecords) /\ MaxRecords \in Nat \ {0}
  BY CollectionAssumption DEF PushAll, LastElements
<1> HIDE DEF all
<1> DEFINE kept == LastElements(all, MaxRecords)
<1>3. /\ kept \in Seq(S)
      /\ \E d \in Nat : \A i \in DOMAIN kept : i + d \in DOMAIN all /\ kept[i] = all[i + d]
  BY <1>1, <1>2, LastOf
<1> HIDE DEF kept
<1>4. Range(kept) \subseteq Range(all)
  BY <1>3 DEF Range
<1>5. QED
  BY <1>1, <1>2, <1>3, <1>4 DEF kept

(* What has happened stays so.                                              *)
LEMMA HistoryGrows ==
  ASSUME NEW h \in Seq(Record), NEW r \in Record
  PROVE  /\ \A c : TimedOut(h, c) => TimedOut(Append(h, r), c)
         /\ \A e : Recovered(h, e) => Recovered(Append(h, r), e)
<1> DEFINE g == Append(h, r)
<1>1. /\ g \in Seq(Record) /\ Len(g) = Len(h) + 1
      /\ \A i \in 1 .. Len(h) : g[i] = h[i]
  BY AppendProperties
<1>2. /\ DOMAIN h = 1 .. Len(h) /\ DOMAIN g = 1 .. Len(g) /\ Len(h) \in Nat
  BY <1>1, LenProperties
<1> HIDE DEF g
<1>3. \A i \in DOMAIN h : i \in DOMAIN g /\ g[i] = h[i]
  BY <1>1, <1>2
<1>4. QED
  BY <1>3 DEF TimedOut, Recovered, g

(* A success records a test only when it has earned it.                     *)
Earned(f, newRecords, test) ==
  /\ test = Recovery => pendingTimeout[f.browser] = f.session
  /\ test = "token_absent_load" => ~tokenPresent
  /\ test = "token_present_load" => tokenPresent
  /\ test = Repeats => Len(WarmRuns(InCollection(newRecords, f.session))) >= 3

LEMMA OneOrNone ==
  ASSUME NEW S, NEW condition, NEW test, condition => test \in S
  PROVE  (IF condition THEN <<test>> ELSE <<>>) \in Seq(S)
<1>1. <<>> \in Seq(S) /\ (test \in S => <<test>> \in Seq(S))
  BY EmptySeq
<1>2. QED
  BY <1>1

LEMMA SuccessTestsAreEarned ==
  ASSUME NEW f, NEW record, NEW newRecords
  PROVE  SuccessTests(f, record, newRecords)
           \in Seq({test \in Test : Earned(f, newRecords, test)})
<1> DEFINE warm == Len(WarmRuns(InCollection(newRecords, f.session)))
           load == IF tokenPresent THEN "token_present_load" ELSE "token_absent_load"
           If(condition, test) == IF condition THEN <<test>> ELSE <<>>
           a == If(record.constructed, "cold_forecast")
           b == If(record.constructed, load)
           c == If(~record.constructed /\ warm < 3, "warm_forecast")
           d == If(~record.constructed /\ warm >= 3, Repeats)
           e == If(pendingTimeout[f.browser] = f.session, Recovery)
           g == If(pendingFailure[f.browser] = f.session, "recoverable_failure")
           S == {test \in Test : Earned(f, newRecords, test)}
<1>1. SuccessTests(f, record, newRecords) = a \o b \o c \o d \o e \o g
  BY DEF SuccessTests, Recovery, Repeats
<1>2. {"cold_forecast", "warm_forecast", "recoverable_failure", load} \subseteq S
  BY DEF Earned, Recovery, Repeats, Test
<1>3. warm >= 3 => Repeats \in S
  BY DEF Earned, Recovery, Repeats, Test
<1>4. pendingTimeout[f.browser] = f.session => Recovery \in S
  BY DEF Earned, Recovery, Repeats, Test
<1> HIDE DEF load, warm, S
<1>5. a \in Seq(S) /\ b \in Seq(S) /\ c \in Seq(S) /\ g \in Seq(S)
  BY <1>2, OneOrNone
<1>6. d \in Seq(S) /\ e \in Seq(S)
  BY <1>3, <1>4, OneOrNone
<1> HIDE DEF a, b, c, d, e, g
<1>7. a \o b \o c \o d \o e \o g \in Seq(S)
  BY <1>5, <1>6, ConcatProperties
<1>8. QED
  BY <1>1, <1>7 DEF S

LEMMA EventsForTests ==
  ASSUME NEW f \in PageRun, NEW tests \in Seq(Test)
  PROVE  /\ EventsFor(f, tests) \in Seq(Event)
         /\ \A x \in Range(EventsFor(f, tests)) :
              x.session = f.session /\ x.request = f.id /\ x.test \in Range(tests)
<1> DEFINE ev == EventsFor(f, tests)
<1>1. DOMAIN tests = 1 .. Len(tests) /\ Len(tests) \in Nat
      /\ \A i \in DOMAIN tests : tests[i] \in Test
  BY LenProperties, ElementOfSeq
<1>2. DOMAIN ev = 1 .. Len(tests)
      /\ \A i \in DOMAIN tests :
           ev[i] = [test |-> tests[i], session |-> f.session, request |-> f.id]
  BY <1>1 DEF EventsFor
<1>3. \A i \in 1 .. Len(tests) : ev[i] \in Event
  BY <1>1, <1>2 DEF Event, PageRun
<1>4. ev \in [1 .. Len(tests) -> Event]
  BY <1>1, <1>2, <1>3 DEF EventsFor
<1>5. ev \in Seq(Event)
  BY <1>1, <1>4, SeqDef
<1>6. \A x \in Range(ev) :
        x.session = f.session /\ x.request = f.id /\ x.test \in Range(tests)
  BY <1>1, <1>2 DEF Range
<1>7. QED
  BY <1>5, <1>6

(* One more event, of the environment.                                      *)
LEMMA RecordOnceClaimsNothing ==
  ASSUME NEW evs \in Seq(Event), NEW c \in CollectionId, NEW test \in Test,
         test \notin OfARun
  PROVE  /\ RecordOnce(evs, c, test) \in Seq(Event)
         /\ \A e \in Range(RecordOnce(evs, c, test)) : e.test \in OfARun => e \in Range(evs)
<1> DEFINE new == [test |-> test, session |-> c, request |-> None]
<1>1. new \in Event /\ new.test = test
  BY DEF Event
<1> HIDE DEF new
<1>2. <<new>> \in Seq(Event) /\ Range(<<new>>) = {new}
  BY <1>1 DEF Range
<1>3. /\ PushAll(evs, <<new>>) \in Seq(Event)
      /\ Range(PushAll(evs, <<new>>)) \subseteq Range(evs) \cup {new}
  BY <1>2, PushAllKeeps
<1>4. RecordOnce(evs, c, test) = evs \/ RecordOnce(evs, c, test) = PushAll(evs, <<new>>)
  BY DEF RecordOnce, new
<1>5. QED
  BY <1>1, <1>3, <1>4

--------------------------------------------------------------------------------
(* The steps.                                                               *)

(* The Cloud Diagnostics page records no recovery.                          *)
LEMMA PageStep ==
  ASSUME IInv, NEW b \in Browser, running' \subseteq PageRun,
         begins' \in [Browser -> Nat],
         \/ pendingTimeout' = pendingTimeout
         \/ pendingTimeout' = [pendingTimeout EXCEPT ![b] = None],
         events' \in Seq(Event),
         \A e \in Range(events') : e.test \in OfARun => e \in Range(events),
         UNCHANGED <<started, loaded, poisoned, history>>
  PROVE  IInv'
<1>1. pendingTimeout' \in [Browser -> CollectionId \cup {None}]
  BY DEF IInv, TypeOK
<1>2. \A x \in Browser : pendingTimeout'[x] # None => pendingTimeout'[x] = pendingTimeout[x]
  BY DEF IInv, TypeOK
<1>3. TypeOK'
  BY <1>1 DEF IInv, TypeOK
<1>4. PendingIsReal'
  BY <1>2 DEF IInv, PendingIsReal
<1>5. RecoveriesAreReal'
  BY DEF IInv, RecoveriesAreReal, OfARun
<1>6. QED
  BY <1>3, <1>4, <1>5 DEF IInv

LEMMA StoppedRuns ==
  ASSUME TypeOK, NEW b, StopScripts(b)
  PROVE  running' \subseteq PageRun
<1>1. \A f \in PageRun : [f EXCEPT !.stopped = TRUE] \in PageRun
  BY DEF PageRun
<1>2. QED
  BY <1>1 DEF StopScripts, TypeOK

LEMMA RenderedClaimsNothing ==
  ASSUME TypeOK, NEW b \in Browser
  PROVE  /\ Collection(b) \in CollectionId /\ Rendered(b) \in Seq(Event)
         /\ \A e \in Range(Rendered(b)) : e.test \in OfARun => e \in Range(events)
<1>1. Collection(b) \in CollectionId
  BY DEF TypeOK, Collection, CollectionId
<1>2. "pip_check" \in Test /\ "pip_check" \notin OfARun
  BY DEF Test, Recovery, Repeats, OfARun
<1>3. QED
  BY <1>1, <1>2, RecordOnceClaimsNothing DEF TypeOK, Rendered

LEMMA StartStep ==
  ASSUME IInv, NEW b \in Browser, Start(b)
  PROVE  IInv'
<1> DEFINE new == [id |-> started + 1, browser |-> b, session |-> Collection(b),
                   refused |-> poisoned, stopped |-> FALSE]
<1>1. /\ running' = running \cup {new} /\ started' = started + 1
      /\ UNCHANGED <<events, begins, pendingTimeout, loaded, poisoned, history>>
  BY DEF Start, store, browsers, process
<1>2. new \in PageRun
  BY RenderedClaimsNothing DEF IInv, TypeOK, PageRun
<1> HIDE DEF new
<1>3. QED
  BY <1>1, <1>2 DEF IInv, TypeOK, PendingIsReal, RecoveriesAreReal

LEMMA VisitStep ==
  ASSUME IInv, NEW b \in Browser, Visit(b)
  PROVE  IInv'
<1>1. /\ StopScripts(b) /\ events' = Rendered(b)
      /\ UNCHANGED <<begins, pendingTimeout, started, loaded, poisoned, history>>
  BY DEF Visit, browsers, process
<1>2. TypeOK /\ begins' \in [Browser -> Nat]
  BY <1>1 DEF IInv, TypeOK
<1>3. QED
  BY <1>1, <1>2, StoppedRuns, RenderedClaimsNothing, PageStep

LEMMA BeginStep ==
  ASSUME IInv, NEW b \in Browser, Begin(b)
  PROVE  IInv'
<1>1. /\ StopScripts(b) /\ events' = Rendered(b)
      /\ begins' = [begins EXCEPT ![b] = @ + 1]
      /\ pendingTimeout' = [pendingTimeout EXCEPT ![b] = None]
      /\ UNCHANGED <<started, loaded, poisoned, history>>
  BY DEF Begin, process
<1>2. TypeOK /\ begins' \in [Browser -> Nat]
  BY <1>1 DEF IInv, TypeOK
<1>3. QED
  BY <1>1, <1>2, StoppedRuns, RenderedClaimsNothing, PageStep

LEMMA FinaliseStep ==
  ASSUME IInv, NEW b \in Browser, NEW peer, NEW import, Finalise(b, peer, import)
  PROVE  IInv'
<1>1. /\ StopScripts(b)
      /\ \/ events' = Rendered(b)
         \/ events' = RecordOnce(Rendered(b), Collection(b), "two_session_concurrency")
      /\ UNCHANGED <<begins, pendingTimeout, started, loaded, poisoned, history>>
  BY DEF Finalise, browsers, process
<1>2. TypeOK /\ begins' \in [Browser -> Nat]
  BY <1>1 DEF IInv, TypeOK
<1>3. "two_session_concurrency" \in Test /\ "two_session_concurrency" \notin OfARun
  BY DEF Test, Recovery, Repeats, OfARun
<1>4. /\ events' \in Seq(Event)
      /\ \A e \in Range(events') : e.test \in OfARun => e \in Range(events)
  BY <1>1, <1>2, <1>3, RenderedClaimsNothing, RecordOnceClaimsNothing
<1>5. QED
  BY <1>1, <1>2, <1>4, StoppedRuns, PageStep

LEMMA RebootStep ==
  ASSUME IInv, Reboot
  PROVE  IInv'
<1>1. /\ events' = <<>> /\ running' = {} /\ begins' = [b \in Browser |-> begins[b] + 1]
      /\ pendingTimeout' = [b \in Browser |-> None]
      /\ loaded' = FALSE /\ poisoned' = FALSE /\ UNCHANGED <<started, history>>
  BY DEF Reboot
<1>2. events' \in Seq(Event) /\ Range(events') = {}
  BY <1>1, EmptySeq DEF Range
<1>3. /\ begins' \in [Browser -> Nat] /\ \A b \in Browser : pendingTimeout'[b] = None
      /\ pendingTimeout' \in [Browser -> CollectionId \cup {None}]
  BY <1>1 DEF IInv, TypeOK
<1>4. TypeOK'
  BY <1>1, <1>2, <1>3 DEF IInv, TypeOK
<1>5. PendingIsReal' /\ RecoveriesAreReal'
  BY <1>2, <1>3 DEF PendingIsReal, RecoveriesAreReal
<1>6. QED
  BY <1>4, <1>5 DEF IInv

(* What the end of a run adds: a record to the history and, unless the      *)
(* script of a success was stopped, to the store; events of tests that were *)
(* earned, and of the tests OfARun by a success only.                       *)
RecordOf(f, outcome) ==
  [id |-> f.id, session |-> f.session, outcome |-> outcome,
   constructed |-> outcome = "success" /\ ~loaded, seen |-> started]

LEMMA FinishAdds ==
  ASSUME TypeOK, NEW f \in running, NEW outcome \in Outcomes, Finish(f, outcome)
  PROVE  /\ RecordOf(f, outcome) \in Record
         /\ running' = running \ {f} /\ history' = Append(history, RecordOf(f, outcome))
         /\ records' = PushAll(records, Written(f, RecordOf(f, outcome)))
         /\ pendingTimeout' = Pending(f, outcome, pendingTimeout, "CoordinatorTimeoutError")
         /\ events' \in Seq(Event)
         /\ \A e \in Range(events') :
              \/ e \in Range(events)
              \/ /\ e.session = f.session /\ e.request = f.id
                 /\ e.test \in OfARun => outcome = "success" /\ Earned(f, records', e.test)
         /\ session' = None /\ UNCHANGED <<begins, started, bundle>>
<1> DEFINE record == [id |-> f.id, session |-> f.session, outcome |-> outcome,
                      constructed |-> outcome = "success" /\ ~loaded, seen |-> started]
           newRecords == PushAll(records, Written(f, record))
           recorded == CASE outcome = "success" -> SuccessTests(f, record, newRecords)
                         [] outcome \in {"CoordinatorTimeoutError", "AdapterError"}
                                                -> <<"configuration_preserved">>
                         [] OTHER               -> <<>>
           tests == IF f.stopped THEN <<>> ELSE recorded
           Fair(test) == test \in OfARun => outcome = "success" /\ Earned(f, newRecords, test)
           S == {test \in Test : Fair(test)}
<1>1. /\ running' = running \ {f} /\ records' = newRecords
      /\ events' = PushAll(events, EventsFor(f, tests))
      /\ pendingTimeout' = Pending(f, outcome, pendingTimeout, "CoordinatorTimeoutError")
      /\ history' = Append(history, record)
      /\ session' = None /\ UNCHANGED <<begins, started, bundle>>
  BY DEF Finish, Conclude
<1>2. record = RecordOf(f, outcome)
  BY DEF RecordOf
<1>3. f \in PageRun
  BY DEF TypeOK
<1>4. record \in Record
  <2>1. /\ f.id \in Nat /\ f.session \in CollectionId /\ started \in Nat
        /\ (outcome = "success" /\ ~loaded) \in BOOLEAN
    BY <1>3 DEF TypeOK, PageRun
  <2>2. QED
    BY <2>1 DEF Record
<1> HIDE DEF record, newRecords
<1>5. tests \in Seq(S)
  <2>1. ASSUME outcome = "success" PROVE recorded \in Seq(S)
    <3> DEFINE E == {test \in Test : Earned(f, newRecords, test)}
    <3>1. recorded \in Seq(E) /\ E \subseteq S
      BY <2>1, SuccessTestsAreEarned
    <3> HIDE DEF recorded, E, S
    <3>2. QED
      BY <3>1, SeqDef
  <2>2. ASSUME outcome \in {"CoordinatorTimeoutError", "AdapterError"}
        PROVE  recorded \in Seq(S)
    <3>1. recorded = <<"configuration_preserved">>
      BY <2>2
    <3>2. "configuration_preserved" \in S
      BY DEF Test, Recovery, Repeats, OfARun
    <3> HIDE DEF recorded, S
    <3>3. QED
      BY <3>1, <3>2
  <2>3. <<>> \in Seq(S)
    BY EmptySeq
  <2>4. ASSUME outcome # "success",
               outcome \notin {"CoordinatorTimeoutError", "AdapterError"}
        PROVE  recorded = <<>>
    BY <2>4
  <2> HIDE DEF recorded, S
  <2>5. QED
    BY <2>1, <2>2, <2>3, <2>4
<1> HIDE DEF tests, recorded
<1>6. tests \in Seq(Test) /\ \A test \in Range(tests) : Fair(test)
  <2>1. S \subseteq Test /\ \A test \in S : Fair(test)
    OBVIOUS
  <2> HIDE DEF S, Fair
  <2>2. tests \in Seq(Test) /\ Range(tests) \subseteq S
    BY <1>5, <2>1, SeqDef DEF Range
  <2>3. QED
    BY <2>1, <2>2
<1> HIDE DEF S
<1>7. /\ EventsFor(f, tests) \in Seq(Event)
      /\ \A x \in Range(EventsFor(f, tests)) :
           x.session = f.session /\ x.request = f.id /\ x.test \in Range(tests)
  BY <1>3, <1>6, EventsForTests
<1>8. /\ events' \in Seq(Event)
      /\ Range(events') \subseteq Range(events) \cup Range(EventsFor(f, tests))
  BY <1>1, <1>7, PushAllKeeps DEF TypeOK
<1>9. \A e \in Range(events') :
        \/ e \in Range(events)
        \/ e.session = f.session /\ e.request = f.id /\ Fair(e.test)
  BY <1>6, <1>7, <1>8
<1>10. QED
  BY <1>1, <1>2, <1>4, <1>8, <1>9 DEF newRecords

(* A run comes back.  The flag it meets tells of an earlier timeout of its  *)
(* collection; only then is its success a recovery.                         *)
LEMMA FinishStep ==
  ASSUME IInv, NEW f \in running, NEW outcome \in Outcomes, Finish(f, outcome)
  PROVE  IInv'
<1> DEFINE record == RecordOf(f, outcome)
<1>1. /\ running' = running \ {f} /\ history' = Append(history, record)
      /\ pendingTimeout' = Pending(f, outcome, pendingTimeout, "CoordinatorTimeoutError")
      /\ UNCHANGED <<begins, started>>
  BY FinishAdds DEF IInv
<1>2. f \in PageRun /\ f.session \in CollectionId /\ f.browser \in Browser /\ f.session # None
  BY CollectionAssumption DEF IInv, TypeOK, PageRun, CollectionId
<1>3. /\ record \in Record /\ record.session = f.session /\ record.id = f.id
      /\ record.outcome = outcome
  BY FinishAdds DEF IInv, RecordOf
<1>4. /\ events' \in Seq(Event)
      /\ \A e \in Range(events') :
           \/ e \in Range(events)
           \/ /\ e.session = f.session /\ e.request = f.id
              /\ e.test = Recovery =>
                   outcome = "success" /\ pendingTimeout[f.browser] = f.session
  BY FinishAdds DEF IInv, OfARun, Earned
<1> HIDE DEF record
<1>5. history' \in Seq(Record)
  BY <1>1, <1>3, AppendProperties DEF IInv, TypeOK
<1>6. /\ pendingTimeout' \in [Browser -> CollectionId \cup {None}]
      /\ \A b \in Browser : \/ pendingTimeout'[b] \in {pendingTimeout[b], None}
                            \/ pendingTimeout'[b] = f.session /\ IsTimeout(record)
  BY <1>1, <1>2, <1>3 DEF IInv, TypeOK, Pending, IsTimeout
<1>7. loaded' \in BOOLEAN /\ poisoned' \in BOOLEAN
  BY DEF Finish, IInv, TypeOK, Outcomes
<1>8. TypeOK'
  BY <1>1, <1>4, <1>5, <1>6, <1>7 DEF IInv, TypeOK
<1>9. /\ Len(history') = Len(history) + 1 /\ history'[Len(history) + 1] = record
       /\ \A i \in 1 .. Len(history) : history'[i] = history[i]
       /\ DOMAIN history = 1 .. Len(history) /\ Len(history) \in Nat
       /\ DOMAIN history' = 1 .. (Len(history) + 1)
  BY <1>1, <1>3, <1>5, AppendProperties, LenProperties DEF IInv, TypeOK
<1>10. PendingIsReal'
  <2>1. ASSUME NEW b \in Browser, pendingTimeout'[b] # None
        PROVE  TimedOut(history', pendingTimeout'[b])
    <3>1. CASE pendingTimeout'[b] = pendingTimeout[b]
      BY <1>1, <1>3, <2>1, <3>1, HistoryGrows DEF IInv, TypeOK, PendingIsReal
    <3>2. CASE pendingTimeout'[b] = f.session /\ IsTimeout(record)
      BY <1>3, <1>9, <3>2 DEF TimedOut
    <3>3. QED
      BY <1>6, <2>1, <3>1, <3>2
  <2>2. QED
    BY <2>1 DEF PendingIsReal
<1>11. RecoveriesAreReal'
  <2>1. ASSUME NEW e \in Range(events'), e.test = Recovery
        PROVE  Recovered(history', e)
    <3>1. CASE e \in Range(events)
      BY <1>1, <1>3, <2>1, <3>1, HistoryGrows DEF IInv, TypeOK, RecoveriesAreReal
    <3>2. CASE /\ e.session = f.session /\ e.request = f.id
               /\ outcome = "success" /\ pendingTimeout[f.browser] = f.session
      <4>1. pendingTimeout[f.browser] # None
        BY <1>2, <3>2
      <4>2. PICK t \in DOMAIN history :
              history[t].session = f.session /\ IsTimeout(history[t])
        BY <1>2, <3>2, <4>1 DEF IInv, PendingIsReal, TimedOut
      <4> DEFINE s == Len(history) + 1
      <4>3. /\ t \in DOMAIN history' /\ s \in DOMAIN history' /\ t < s
            /\ history'[t] = history[t] /\ history'[s] = record
        BY <1>9
      <4>4. IsSuccess(record)
        BY <1>3, <3>2 DEF IsSuccess
      <4> HIDE DEF s
      <4>5. QED
        BY <1>3, <3>2, <4>2, <4>3, <4>4 DEF Recovered
    <3>3. QED
      BY <1>4, <2>1, <3>1, <3>2
  <2>2. QED
    BY <2>1 DEF RecoveriesAreReal
<1>12. QED
  BY <1>8, <1>10, <1>11 DEF IInv

--------------------------------------------------------------------------------
(* IInv holds in every state: a flag never outlives the proof of its        *)
(* timeout, because the history keeps what the store may have dropped.      *)
THEOREM InductiveInvariant == Spec => []IInv
<1>1. Init => IInv
  <2> SUFFICES ASSUME Init PROVE IInv
    OBVIOUS
  <2>1. history = <<>> /\ events = <<>> /\ Range(events) = {}
    BY DEF Init, Range
  <2>2. QED
    BY <2>1, EmptySeq DEF Init, IInv, TypeOK, PendingIsReal, RecoveriesAreReal
<1>2. IInv /\ [Next]_vars => IInv'
  <2> SUFFICES ASSUME IInv, [Next]_vars PROVE IInv'
    OBVIOUS
  <2>1. CASE \E b \in Browser : Start(b) \/ Visit(b) \/ Begin(b)
    BY <2>1, StartStep, VisitStep, BeginStep
  <2>2. CASE \E f \in running, outcome \in Outcomes : Finish(f, outcome)
    BY <2>2, FinishStep
  <2>3. CASE \E b \in Browser, peer \in Browser \cup {Nobody}, import \in BOOLEAN :
               peer # b /\ Finalise(b, peer, import)
    BY <2>3, FinaliseStep
  <2>4. CASE Download
    BY <2>4 DEF Download, store, browsers, process, IInv, TypeOK, PendingIsReal,
       RecoveriesAreReal
  <2>5. CASE Reboot
    BY <2>5, RebootStep
  <2>6. CASE UNCHANGED vars
    BY <2>6 DEF vars, store, browsers, process, IInv, TypeOK, PendingIsReal,
       RecoveriesAreReal
  <2>7. QED
    BY <2>1, <2>2, <2>3, <2>4, <2>5, <2>6 DEF Next
<1>3. QED
  BY <1>1, <1>2, PTL DEF Spec

(* A coordinator_timeout_recovery event names a request that succeeded      *)
(* after another of its collection had timed out, however the browsers, the *)
(* stopped scripts, new collections and reboots interleave, and even when   *)
(* the store has dropped the record of the timeout (1_Forecast.py's         *)
(* coordinator_timeout_pending flag).                                       *)
THEOREM RecoveriesTookPlace == Spec => []RecoveryIsGenuine
<1>1. ASSUME IInv PROVE RecoveryIsGenuine
  <2>1. ASSUME NEW e \in Range(events), e.test = Recovery
        PROVE  \E t \in Completed(e.session, IsTimeout),
                  s \in Completed(e.session, IsSuccess) : t < s /\ history[s].id = e.request
    <3>1. PICK t \in DOMAIN history, s \in DOMAIN history :
            /\ t < s
            /\ history[t].session = e.session /\ IsTimeout(history[t])
            /\ history[s].session = e.session /\ IsSuccess(history[s])
            /\ history[s].id = e.request
      BY <1>1, <2>1 DEF IInv, RecoveriesAreReal, Recovered
    <3>2. t \in Completed(e.session, IsTimeout) /\ s \in Completed(e.session, IsSuccess)
      BY <3>1 DEF Completed
    <3>3. QED
      BY <3>1, <3>2
  <2>2. QED
    BY <2>1 DEF RecoveryIsGenuine, Recovery
<1>2. QED
  BY <1>1, InductiveInvariant, PTL
--------------------------------------------------------------------------------
(* What is kept of the requests, by the store, by the session the page      *)
(* shows and by the downloaded bundle.                                      *)

(* What the page shows, and what the downloaded bundle keeps.               *)
CohortOf(x) == IF x = None THEN {} ELSE Range(x.cohort)
BoundBy(x, g) == IF x = None THEN {} ELSE Range(x.ids[g])

(* Every record that has been written and is still held somewhere.          *)
Kept == Range(records) \cup CohortOf(session) \cup CohortOf(bundle)
IdsOnce(s) == \A i, j \in DOMAIN s : s[i].id = s[j].id => i = j
Known(h) == {r.id : r \in Range(h)}

(* The requests that are bound to one token state, wherever they are.       *)
Naming(evs, test) == {e.request : e \in {e \in Range(evs) : e.test = test}}
Absent == Naming(events, "token_absent_load")
            \cup BoundBy(session, "token_absent_execution_ids")
            \cup BoundBy(bundle, "token_absent_execution_ids")
Present == Naming(events, "token_present_load")
             \cup BoundBy(session, "token_present_execution_ids")
             \cup BoundBy(bundle, "token_present_execution_ids")

ThreeReused(h, c) ==
  \E i, j, k \in DOMAIN h :
    /\ i # j /\ j # k /\ i # k
    /\ \A n \in {i, j, k} : h[n].session = c /\ Reused(h[n])

Executions == Seq(Nat \cup {None})
Shown(x) ==
  x # None =>
    /\ x.cohort \in Seq(Record) /\ IdsOnce(x.cohort)
    /\ x.ids["request_ids"] = Ids(x.cohort)
    /\ x.ids["concurrency_request_ids"] = ConcurrentRequests(x.cohort)
    /\ x.ids["token_absent_execution_ids"] \in Executions
    /\ x.ids["token_present_execution_ids"] \in Executions

(* What is kept are requests of the history, each once.                     *)
KeptIsOfHistory ==
  /\ records \in Seq(Record) /\ IdsOnce(records) /\ Shown(session) /\ Shown(bundle)
  /\ Kept \subseteq Range(history)

(* A running request has not been seen yet, and a browser has one at most   *)
(* that is not stopped.                                                     *)
RunningAreNew ==
  /\ \A r \in Range(history) : r.id <= r.seen /\ r.seen <= started
  /\ \A f \in running : /\ f.id <= started /\ f.id \notin Known(history)
                        /\ f.session[1] = f.browser
  /\ \A f, g \in running :
       (f.id = g.id \/ (~f.stopped /\ ~g.stopped /\ f.browser = g.browser)) => f = g

(* The requests of a collection that succeed and are written run one after  *)
(* the other.                                                               *)
OneAfterTheOther ==
  /\ \A r, s \in Kept : (/\ IsSuccess(r) /\ IsSuccess(s) /\ r.session = s.session
                         /\ r.id < s.id) => r.seen < s.id
  /\ \A r \in Kept, f \in running :
       (IsSuccess(r) /\ r.session = f.session /\ ~f.stopped) => r.seen < f.id

TokensApart == Absent \cap Present = {} /\ Absent \cup Present \subseteq Known(history)
RepeatsAreReal ==
  \A e \in Range(events) : e.test = "repeated_forecasts" => ThreeReused(history, e.session)

EvidenceInv ==
  KeptIsOfHistory /\ RunningAreNew /\ OneAfterTheOther /\ TokensApart /\ RepeatsAreReal

--------------------------------------------------------------------------------
(* Sequences of records.                                                    *)

LEMMA OnlyRecords ==
  ASSUME NEW s \in Seq(Record), NEW S
  PROVE  /\ Only(s, S) \in Seq(Record) /\ Range(Only(s, S)) = Range(s) \cap S
         /\ IdsOnce(s) => IdsOnce(Only(s, S))
<1> DEFINE t == Only(s, S)
<1>1. t \in Seq(Record) /\ Range(t) = Range(s) \cap S
  BY OnlyPicks, OnlyRange
<1>2. PICK g \in [DOMAIN t -> DOMAIN s] :
        IsInjective(g) /\ \A i \in DOMAIN t : t[i] = s[g[i]]
  BY OnlyFrom
<1> HIDE DEF t
<1>3. ASSUME IdsOnce(s), NEW i \in DOMAIN t, NEW j \in DOMAIN t, t[i].id = t[j].id
      PROVE  i = j
  <2>1. g[i] \in DOMAIN s /\ g[j] \in DOMAIN s /\ s[g[i]].id = s[g[j]].id
    BY <1>2, <1>3
  <2>2. g[i] = g[j]
    BY <1>3, <2>1 DEF IdsOnce
  <2>3. QED
    BY <1>2, <2>2 DEF IsInjective
<1>4. QED
  BY <1>1, <1>3 DEF IdsOnce, t

LEMMA JoinedRecords ==
  ASSUME NEW s \in Seq(Record), NEW t \in Seq(Record)
  PROVE  /\ s \o t \in Seq(Record) /\ Range(s \o t) = Range(s) \cup Range(t)
         /\ IdsOnce(s) /\ IdsOnce(t) /\ Known(s) \cap Known(t) = {} => IdsOnce(s \o t)
<1> DEFINE u == s \o t
           m == Len(s)
           n == Len(t)
<1>1. /\ u \in Seq(Record) /\ Range(u) = Range(s) \cup Range(t) /\ Len(u) = m + n
      /\ \A i \in 1 .. m : u[i] = s[i]
      /\ \A i \in 1 .. n : u[m + i] = t[i]
  BY ConcatProperties, RangeConcatenation
<1> HIDE DEF u
<1>2. /\ DOMAIN s = 1 .. m /\ DOMAIN t = 1 .. n /\ DOMAIN u = 1 .. (m + n)
      /\ m \in Nat /\ n \in Nat
  BY <1>1, LenProperties
<1>3. \A i \in DOMAIN s : s[i].id \in Known(s)
  BY DEF Known, Range
<1>4. \A i \in DOMAIN t : t[i].id \in Known(t)
  BY DEF Known, Range
<1> HIDE DEF m, n
<1>5. \A i \in DOMAIN u : \/ i \in 1 .. m /\ u[i] = s[i]
                          \/ \E k \in 1 .. n : i = m + k /\ u[i] = t[k]
  <2>1. \A i \in DOMAIN u : i \in 1 .. m \/ \E k \in 1 .. n : i = m + k
    <3>1. ASSUME NEW i \in 1 .. (m + n), i \notin 1 .. m PROVE i - m \in 1 .. n /\ i = m + (i - m)
      BY <1>2, <3>1
    <3>2. QED
      BY <1>2, <3>1
  <2>2. QED
    BY <1>1, <2>1
<1>6. ASSUME IdsOnce(s), IdsOnce(t), Known(s) \cap Known(t) = {},
             NEW i \in DOMAIN u, NEW j \in DOMAIN u, u[i].id = u[j].id
      PROVE  i = j
  <2>1. CASE i \in 1 .. m /\ u[i] = s[i]
    <3>1. ~ \E k \in 1 .. n : j = m + k /\ u[j] = t[k]
      BY <1>2, <1>3, <1>4, <1>6, <2>1
    <3>2. j \in 1 .. m /\ u[j] = s[j]
      BY <1>5, <3>1
    <3>3. QED
      BY <1>2, <1>6, <2>1, <3>2 DEF IdsOnce
  <2>2. CASE \E k \in 1 .. n : i = m + k /\ u[i] = t[k]
    <3>1. PICK k \in 1 .. n : i = m + k /\ u[i] = t[k]
      BY <2>2
    <3>2. ~(j \in 1 .. m /\ u[j] = s[j])
      BY <1>2, <1>3, <1>4, <1>6, <3>1
    <3>3. PICK l \in 1 .. n : j = m + l /\ u[j] = t[l]
      BY <1>5, <3>2
    <3>4. k = l
      BY <1>2, <1>6, <3>1, <3>3 DEF IdsOnce
    <3>5. QED
      BY <3>1, <3>3, <3>4
  <2>3. QED
    BY <1>5, <2>1, <2>2
<1>7. QED
  BY <1>1, <1>6 DEF IdsOnce, u

(* The deque keeps what it keeps once.                                      *)
LEMMA PushedOnce ==
  ASSUME NEW s \in Seq(Record), NEW new \in Seq(Record), IdsOnce(s \o new)
  PROVE  IdsOnce(PushAll(s, new))
<1> DEFINE all == s \o new
           kept == LastElements(all, MaxRecords)
<1>1. all \in Seq(Record) /\ MaxRecords \in Nat \ {0} /\ PushAll(s, new) = kept
  BY CollectionAssumption, ConcatProperties DEF PushAll, LastElements
<1> HIDE DEF all
<1>2. /\ kept \in Seq(Record)
      /\ \E d \in Nat : \A i \in DOMAIN kept : i + d \in DOMAIN all /\ kept[i] = all[i + d]
  BY <1>1, LastOf
<1> HIDE DEF kept
<1>3. PICK d \in Nat : \A i \in DOMAIN kept : i + d \in DOMAIN all /\ kept[i] = all[i + d]
  BY <1>2
<1>4. \A i \in DOMAIN kept : i \in Nat
  BY <1>2, LenProperties
<1>5. ASSUME NEW i \in DOMAIN kept, NEW j \in DOMAIN kept, kept[i].id = kept[j].id PROVE i = j
  <2>1. i + d = j + d
    BY <1>3, <1>5 DEF IdsOnce, all
  <2>2. QED
    BY <1>4, <2>1
<1>6. QED
  BY <1>1, <1>5 DEF IdsOnce

(* Three warm runs in the store are three of the history.                   *)
LEMMA ThreeInStore ==
  ASSUME NEW s \in Seq(Record), IdsOnce(s), NEW h \in Seq(Record), Range(s) \subseteq Range(h),
         NEW c, Len(WarmRuns(InCollection(s, c))) >= 3
  PROVE  ThreeReused(h, c)
<1> DEFINE of == InCollection(s, c)
           warm == WarmRuns(of)
<1>1. of \in Seq(Record) /\ IdsOnce(of) /\ \A r \in Range(of) : r \in Range(s) /\ r.session = c
  BY OnlyRecords DEF InCollection
<1> HIDE DEF of
<1>2. /\ warm \in Seq(Record) /\ IdsOnce(warm)
      /\ \A r \in Range(warm) : r \in Range(s) /\ r.session = c /\ Reused(r)
  BY <1>1, OnlyRecords DEF WarmRuns
<1> HIDE DEF warm
<1>3. 1 \in DOMAIN warm /\ 2 \in DOMAIN warm /\ 3 \in DOMAIN warm
  <2>1. DOMAIN warm = 1 .. Len(warm) /\ Len(warm) \in Nat /\ Len(warm) >= 3
    BY <1>2, LenProperties DEF warm, of
  <2>2. QED
    BY <2>1
<1>4. \A n \in {1, 2, 3} :
        warm[n].session = c /\ Reused(warm[n]) /\ \E i \in DOMAIN h : h[i] = warm[n]
  BY <1>2, <1>3 DEF Range
<1>5. PICK i \in DOMAIN h : h[i] = warm[1]
  BY <1>4
<1>6. PICK j \in DOMAIN h : h[j] = warm[2]
  BY <1>4
<1>7. PICK k \in DOMAIN h : h[k] = warm[3]
  BY <1>4
<1>8. warm[1] # warm[2] /\ warm[2] # warm[3] /\ warm[1] # warm[3]
  BY <1>2, <1>3 DEF IdsOnce
<1>9. i # j /\ j # k /\ i # k
  BY <1>5, <1>6, <1>7, <1>8
<1>10. \A n \in {i, j, k} : h[n].session = c /\ Reused(h[n])
  BY <1>4, <1>5, <1>6, <1>7
<1>11. QED
  BY <1>9, <1>10 DEF ThreeReused

--------------------------------------------------------------------------------
(* What Finalise builds.                                                    *)

LEMMA TokenIdsOf ==
  ASSUME NEW evs \in Seq(Event), NEW c, NEW test
  PROVE  LET ids == TokenIds(InCollection(evs, c), test)
         IN  /\ ids \in Executions /\ Range(ids) \subseteq Naming(evs, test)
             /\ \A id \in Range(ids) :
                  \E e \in Range(evs) : e.test = test /\ e.session = c /\ e.request = id
             /\ OnceIn(evs, {e \in Event : e.test = test}) => IsInjective(ids)
<1> DEFINE ran == InCollection(evs, c)
           named == Only(ran, {e \in Range(ran) : e.test = test})
           ids == TokenIds(ran, test)
           OfTest == {e \in Event : e.test = test}
<1>1. /\ ran \in Seq(Event) /\ \A e \in Range(ran) : e \in Range(evs) /\ e.session = c
      /\ OnceIn(evs, OfTest) => OnceIn(ran, OfTest)
  BY OnlyPicks, OnlyRange, OnceOnly DEF InCollection
<1> HIDE DEF ran
<1>2. /\ named \in Seq(Event)
      /\ \A e \in Range(named) : e \in Range(evs) /\ e.test = test /\ e.session = c
      /\ OnceIn(evs, OfTest) => OnceIn(named, OfTest)
  BY <1>1, OnlyPicks, OnlyRange, OnceOnly
<1>3. ids = [i \in DOMAIN named |-> named[i].request]
  BY DEF TokenIds
<1> HIDE DEF named
<1>4. /\ DOMAIN named = 1 .. Len(named) /\ Len(named) \in Nat
      /\ \A i \in DOMAIN named : named[i] \in Event /\ named[i] \in Range(named)
  BY <1>2, LenProperties, ElementOfSeq DEF Range
<1>5. \A i \in DOMAIN named : named[i].request \in Nat \cup {None}
  BY <1>4 DEF Event
<1>6. ids \in [1 .. Len(named) -> Nat \cup {None}]
  BY <1>3, <1>4, <1>5
<1>7. ids \in Executions
  BY <1>4, <1>6, SeqDef DEF Executions
<1>8. Range(ids) \subseteq Naming(evs, test)
  BY <1>2, <1>3, <1>4 DEF Naming, Range
<1>9. ASSUME NEW id \in Range(ids)
      PROVE  \E e \in Range(evs) : e.test = test /\ e.session = c /\ e.request = id
  BY <1>2, <1>3, <1>4 DEF Range
<1>10. ASSUME OnceIn(evs, OfTest) PROVE IsInjective(ids)
  <2>1. ASSUME NEW i \in DOMAIN named, NEW j \in DOMAIN named,
               named[i].request = named[j].request
        PROVE  i = j
    <3>1. /\ named[i].test = test /\ named[i].session = c
          /\ named[j].test = test /\ named[j].session = c
      BY <1>2, <1>4
    <3>2. named[i] = named[j]
      BY <1>4, <2>1, <3>1 DEF Event
    <3>3. named[i] \in OfTest
      BY <1>4, <3>1
    <3> HIDE DEF OfTest
    <3>4. QED
      BY <1>2, <1>10, <3>2, <3>3 DEF OnceIn
  <2>2. \A i \in DOMAIN ids : i \in DOMAIN named /\ ids[i] = named[i].request
    BY <1>3
  <2> HIDE DEF ids
  <2>3. QED
    BY <2>1, <2>2 DEF IsInjective
<1>11. QED
  BY <1>7, <1>8, <1>9, <1>10 DEF ran

LEMMA DistinctOf ==
  ASSUME NEW s \in Executions
  PROVE  /\ Distinct(s) \in Executions /\ Range(Distinct(s)) \subseteq Range(s)
         /\ IsInjective(Distinct(s))
<1> DEFINE places == [i \in DOMAIN s |-> i]
           S == {i \in DOMAIN s : \A j \in 1 .. (i - 1) : s[j] # s[i]}
           firsts == Only(places, S)
           ids == Distinct(s)
<1>1. /\ DOMAIN s = 1 .. Len(s) /\ Len(s) \in Nat
      /\ \A i \in DOMAIN s : s[i] \in Nat \cup {None}
  BY LenProperties, ElementOfSeq DEF Executions
<1>2. places \in Seq(DOMAIN s)
  BY <1>1, SeqDef
<1>3. ids = [k \in DOMAIN firsts |-> s[firsts[k]]]
  BY DEF Distinct
<1>4. firsts \in Seq(DOMAIN s) /\ IsInjective(firsts) /\ Range(firsts) \subseteq S
  <2>1. IsInjective(places)
    BY DEF IsInjective
  <2> HIDE DEF places, S
  <2>2. QED
    BY <1>2, <2>1, OnlyPicks, OnlyRange, OnlyOnce
<1> HIDE DEF places, firsts
<1>5. /\ DOMAIN firsts = 1 .. Len(firsts) /\ Len(firsts) \in Nat
      /\ \A k \in DOMAIN firsts : firsts[k] \in DOMAIN s
  BY <1>4, LenProperties, ElementOfSeq
<1>6. ids \in [1 .. Len(firsts) -> Nat \cup {None}]
  BY <1>1, <1>3, <1>5
<1>7. ids \in Executions
  BY <1>5, <1>6, SeqDef DEF Executions
<1>8. Range(ids) \subseteq Range(s)
  BY <1>3, <1>5 DEF Range
<1>9. ASSUME NEW k \in DOMAIN firsts, NEW l \in DOMAIN firsts, s[firsts[k]] = s[firsts[l]]
      PROVE  k = l
  <2>1. firsts[k] \in S /\ firsts[l] \in S /\ firsts[k] \in Nat /\ firsts[l] \in Nat
    BY <1>1, <1>4, <1>5 DEF Range
  <2>2. ~(firsts[k] < firsts[l]) /\ ~(firsts[l] < firsts[k])
    <3>1. ASSUME NEW m \in S, NEW n \in S, m \in Nat, n \in Nat, m < n PROVE s[m] # s[n]
      BY <1>1, <3>1
    <3>2. QED
      BY <1>9, <2>1, <3>1
  <2>3. firsts[k] = firsts[l]
    BY <2>1, <2>2
  <2>4. QED
    BY <1>4, <2>3 DEF IsInjective
<1>10. IsInjective(ids)
  <2>1. \A k \in DOMAIN ids : k \in DOMAIN firsts /\ ids[k] = s[firsts[k]]
    BY <1>3
  <2> HIDE DEF ids
  <2>2. QED
    BY <1>9, <2>1 DEF IsInjective
<1>11. QED
  BY <1>7, <1>8, <1>10

(* The collections whose requests Finalise looks for.                       *)
NamedBy(b, peer) ==
  {Collection(b)} \cup (IF peer = Nobody THEN {} ELSE {Collection(peer)})

(* The records of two different collections of the store, or of one.        *)
LEMMA CohortIsKept ==
  ASSUME TypeOK, records \in Seq(Record), IdsOnce(records), NEW b \in Browser,
         NEW peer \in Browser \cup {Nobody}, peer # b
  PROVE  LET own == Cohort(Collection(b), peer)
         IN  /\ own \in Seq(Record) /\ IdsOnce(own) /\ Range(own) \subseteq Range(records)
             /\ \A r \in Range(records) : r.session = Collection(b) => r \in Range(own)
             /\ \A r \in Range(own) : r.session \in NamedBy(b, peer)
<1> DEFINE mine == InCollection(records, Collection(b))
           theirs == IF peer = Nobody THEN <<>> ELSE InCollection(records, Collection(peer))
<1>1. /\ mine \in Seq(Record) /\ IdsOnce(mine)
      /\ \A r : r \in Range(mine) <=> r \in Range(records) /\ r.session = Collection(b)
  BY OnlyRecords DEF InCollection
<1>2. /\ theirs \in Seq(Record) /\ IdsOnce(theirs)
      /\ \A r \in Range(theirs) : /\ r \in Range(records) /\ r.session # Collection(b)
                                  /\ r.session \in NamedBy(b, peer)
  <2>1. CASE peer = Nobody
    <3>1. theirs = <<>> /\ <<>> \in Seq(Record) /\ DOMAIN <<>> = {} /\ Range(<<>>) = {}
      BY <2>1, EmptySeq DEF Range
    <3> HIDE DEF theirs
    <3>2. QED
      BY <3>1 DEF IdsOnce
  <2>2. CASE peer # Nobody
    <3>1. Collection(peer) # Collection(b)
      BY DEF Collection
    <3>2. /\ InCollection(records, Collection(peer)) \in Seq(Record)
          /\ IdsOnce(InCollection(records, Collection(peer)))
          /\ \A r \in Range(InCollection(records, Collection(peer))) :
               r \in Range(records) /\ r.session = Collection(peer)
      BY OnlyRecords DEF InCollection
    <3>3. Collection(peer) \in NamedBy(b, peer)
      BY <2>2 DEF NamedBy
    <3>4. QED
      BY <2>2, <3>1, <3>2, <3>3
  <2>3. QED
    BY <2>1, <2>2
<1>3. Cohort(Collection(b), peer) = mine \o theirs
  BY DEF Cohort
<1> HIDE DEF mine, theirs
<1>4. \A r, s \in Range(records) : r.id = s.id => r = s
  BY DEF IdsOnce, Range
<1>5. Known(mine) \cap Known(theirs) = {}
  BY <1>1, <1>2, <1>4 DEF Known
<1>6. Collection(b) \in NamedBy(b, peer)
  BY DEF NamedBy
<1>7. QED
  BY <1>1, <1>2, <1>3, <1>5, <1>6, JoinedRecords

LEMMA MergeIsOnce ==
  ASSUME NEW current \in Seq(Record), NEW prior \in Seq(Record), IdsOnce(current), IdsOnce(prior)
  PROVE  /\ Merge(current, prior) \in Seq(Record) /\ IdsOnce(Merge(current, prior))
         /\ Range(Merge(current, prior)) \subseteq Range(current) \cup Range(prior)
         /\ Known(Merge(current, prior)) = Known(current) \cup Known(prior)
<1> DEFINE ids == {current[i].id : i \in DOMAIN current}
           S == {r \in Range(prior) : r.id \notin ids}
           added == Only(prior, S)
<1>1. Merge(current, prior) = current \o added
  BY DEF Merge
<1>2. added \in Seq(Record) /\ IdsOnce(added) /\ Range(added) = Range(prior) \cap S
  BY OnlyRecords
<1> HIDE DEF added
<1>3. Known(current) \cap Known(added) = {}
  BY <1>2 DEF Known, Range
<1>4. /\ Merge(current, prior) \in Seq(Record) /\ IdsOnce(Merge(current, prior))
      /\ Range(Merge(current, prior)) = Range(current) \cup Range(added)
  BY <1>1, <1>2, <1>3, JoinedRecords
<1>5. \A r \in Range(prior) : r \in Range(added) \/ r.id \in Known(current)
  BY <1>2 DEF Known, Range
<1>6. Known(Merge(current, prior)) = Known(current) \cup Known(prior)
  BY <1>2, <1>4, <1>5 DEF Known
<1>7. QED
  BY <1>2, <1>4, <1>6

(* What Finalise shows, by its parts: the records, the events the page has   *)
(* recorded by then, and the token executions, with what is imported.       *)
OwnCohort(b, peer) == Cohort(Collection(b), peer)
EventsAfter(b, peer) ==
  IF Overlapping(OwnCohort(b, peer)) = {} THEN Rendered(b)
  ELSE RecordOnce(Rendered(b), Collection(b), "two_session_concurrency")
CohortShown(b, peer, import) ==
  IF import THEN Merge(OwnCohort(b, peer), bundle.cohort) ELSE OwnCohort(b, peer)
OwnTokens(b, peer, test) == TokenIds(InCollection(EventsAfter(b, peer), Collection(b)), test)
TokensShown(b, peer, import, group, test) ==
  IF import THEN Distinct(OwnTokens(b, peer, test) \o bundle.ids[group])
            ELSE OwnTokens(b, peer, test)

(* Finalise, by its parts.                                                  *)
LEMMA FinaliseShows ==
  ASSUME NEW b, NEW peer, NEW import, Finalise(b, peer, import)
  PROVE  LET cohort == CohortShown(b, peer, import)
             Tokens(group, test) == TokensShown(b, peer, import, group, test)
         IN  /\ import => bundle # None /\ Valid(bundle)
             /\ StopScripts(b) /\ events' = EventsAfter(b, peer)
             /\ UNCHANGED <<records, started, bundle, history>>
             /\ session'.cohort = cohort
             /\ session'.named = NamedBy(b, peer) /\ session'.imported = import
             /\ session'.ids["request_ids"] = Ids(cohort)
             /\ session'.ids["token_absent_execution_ids"]
                  = Tokens("token_absent_execution_ids", "token_absent_load")
             /\ session'.ids["token_present_execution_ids"]
                  = Tokens("token_present_execution_ids", "token_present_load")
             /\ session'.ids["repeated_run_ids"] = RepeatedRuns(cohort)
             /\ session'.ids["concurrency_request_ids"] = ConcurrentRequests(cohort)
             /\ session'.ids["timeout_recovery_ids"] = TimeoutRecoveries(cohort)
<1> DEFINE cohort == CohortShown(b, peer, import)
           Tokens(group, test) == TokensShown(b, peer, import, group, test)
<1>1. /\ import => bundle # None /\ Valid(bundle)
      /\ StopScripts(b) /\ events' = EventsAfter(b, peer)
      /\ UNCHANGED <<records, started, bundle, history>>
  BY DEF Finalise, EventsAfter, OwnCohort
<1>2. session' = [named |-> NamedBy(b, peer),
              imported |-> import,
              cohort |-> cohort,
              ids |-> [g \in Groups |->
                CASE g = "request_ids"                 -> Ids(cohort)
                  [] g = "token_absent_execution_ids"  -> Tokens(g, "token_absent_load")
                  [] g = "token_present_execution_ids" -> Tokens(g, "token_present_load")
                  [] g = "repeated_run_ids"            -> RepeatedRuns(cohort)
                  [] g = "concurrency_request_ids"     -> ConcurrentRequests(cohort)
                  [] g = "timeout_recovery_ids"        -> TimeoutRecoveries(cohort)]]
  BY DEF Finalise, NamedBy, CohortShown, OwnCohort, TokensShown, OwnTokens, EventsAfter
<1> HIDE DEF cohort, Tokens
<1>3. /\ session'.cohort = cohort
      /\ session'.named = NamedBy(b, peer) /\ session'.imported = import
      /\ session'.ids["request_ids"] = Ids(cohort)
      /\ session'.ids["token_absent_execution_ids"]
           = Tokens("token_absent_execution_ids", "token_absent_load")
      /\ session'.ids["token_present_execution_ids"]
           = Tokens("token_present_execution_ids", "token_present_load")
      /\ session'.ids["repeated_run_ids"] = RepeatedRuns(cohort)
      /\ session'.ids["concurrency_request_ids"] = ConcurrentRequests(cohort)
      /\ session'.ids["timeout_recovery_ids"] = TimeoutRecoveries(cohort)
  BY <1>2 DEF Groups
<1>4. QED
  BY <1>1, <1>3 DEF cohort, Tokens

--------------------------------------------------------------------------------
(* The steps keep EvidenceInv.                                              *)

(* A step that completes and starts no request and only loses evidence.     *)
LEMMA NothingNew ==
  ASSUME TypeOK, EvidenceInv, NEW b, StopScripts(b) \/ running' \subseteq running,
         UNCHANGED <<started, history>>,
         records' \in Seq(Record), IdsOnce(records'), Shown(session)', Shown(bundle)',
         Kept' \subseteq Kept, Absent' \subseteq Absent, Present' \subseteq Present,
         \A e \in Range(events') : e.test = Repeats => e \in Range(events)
  PROVE  EvidenceInv'
<1>1. KeptIsOfHistory'
  BY DEF EvidenceInv, KeptIsOfHistory
<1> DEFINE Was(f, g) == /\ f.id = g.id /\ f.browser = g.browser /\ f.session = g.session
                        /\ ~f.stopped => ~g.stopped /\ f = g
<1>2. ASSUME NEW f \in running' PROVE \E g \in running : Was(f, g)
  <2>1. CASE StopScripts(b)
    <3>1. PICK g \in running : f = IF g.browser = b THEN [g EXCEPT !.stopped = TRUE] ELSE g
      BY <2>1 DEF StopScripts
    <3>2. g \in PageRun
      BY DEF TypeOK
    <3>3. CASE g.browser = b
      <4>1. f = [g EXCEPT !.stopped = TRUE]
        BY <3>1, <3>3
      <4>2. Was(f, g)
        BY <3>2, <4>1 DEF PageRun
      <4>3. QED
        BY <4>2
    <3>4. CASE g.browser # b
      BY <3>1, <3>4
    <3>5. QED
      BY <3>3, <3>4
  <2>2. CASE running' \subseteq running
    BY <2>2
  <2> HIDE DEF Was
  <2>3. QED
    BY <2>1, <2>2
<1>3. \A f, g \in running' : f.id = g.id => f = g
  <2>1. CASE StopScripts(b)
    <3>1. SUFFICES ASSUME NEW f \in running', NEW g \in running', f.id = g.id PROVE f = g
      OBVIOUS
    <3>2. PICK x \in running :
            /\ f = IF x.browser = b THEN [x EXCEPT !.stopped = TRUE] ELSE x
            /\ f.id = x.id
      BY <2>1 DEF StopScripts, TypeOK, PageRun
    <3>3. PICK y \in running :
            /\ g = IF y.browser = b THEN [y EXCEPT !.stopped = TRUE] ELSE y
            /\ g.id = y.id
      BY <2>1 DEF StopScripts, TypeOK, PageRun
    <3>4. x = y
      BY <3>1, <3>2, <3>3 DEF EvidenceInv, RunningAreNew
    <3>5. QED
      BY <3>2, <3>3, <3>4
  <2>2. CASE running' \subseteq running
    BY <2>2 DEF EvidenceInv, RunningAreNew
  <2>3. QED
    BY <2>1, <2>2
<1>4. RunningAreNew'
  <2>1. \A f \in running' : /\ f.id <= started /\ f.id \notin Known(history)
                            /\ f.session[1] = f.browser
    BY <1>2 DEF EvidenceInv, RunningAreNew
  <2>2. \A f \in running' : ~f.stopped => f \in running
    BY <1>2
  <2>3. \A f, g \in running' : (~f.stopped /\ ~g.stopped /\ f.browser = g.browser) => f = g
    BY <2>2 DEF EvidenceInv, RunningAreNew
  <2>4. QED
    BY <1>3, <2>1, <2>3 DEF EvidenceInv, RunningAreNew
<1>5. OneAfterTheOther'
  <2>1. \A r, s \in Kept' : (/\ IsSuccess(r) /\ IsSuccess(s) /\ r.session = s.session
                             /\ r.id < s.id) => r.seen < s.id
    BY DEF EvidenceInv, OneAfterTheOther
  <2>2. \A r \in Kept', f \in running' :
          (IsSuccess(r) /\ r.session = f.session /\ ~f.stopped) => r.seen < f.id
    BY <1>2 DEF EvidenceInv, OneAfterTheOther
  <2>3. QED
    BY <2>1, <2>2 DEF OneAfterTheOther
<1>6. TokensApart'
  BY DEF EvidenceInv, TokensApart
<1>7. RepeatsAreReal'
  BY DEF EvidenceInv, RepeatsAreReal, Repeats
<1>8. QED
  BY <1>1, <1>4, <1>5, <1>6, <1>7 DEF EvidenceInv

(* Most steps drop the session record the page shows and keep the rest.     *)
LEMMA SessionDropped ==
  ASSUME TypeOK, EvidenceInv, session' = None, bundle' = bundle,
         records' = records \/ records' = <<>>,
         \A e \in Range(events') : e.test \in OfARun => e \in Range(events)
  PROVE  /\ records' \in Seq(Record) /\ IdsOnce(records')
         /\ Shown(session)' /\ Shown(bundle)'
         /\ Kept' \subseteq Kept /\ Absent' \subseteq Absent /\ Present' \subseteq Present
         /\ \A e \in Range(events') : e.test = Repeats => e \in Range(events)
<1>1. records' \in Seq(Record) /\ IdsOnce(records') /\ Range(records') \subseteq Range(records)
  <2>1. <<>> \in Seq(Record) /\ DOMAIN <<>> = {} /\ Range(<<>>) = {}
    BY EmptySeq DEF Range
  <2>2. IdsOnce(<<>>)
    BY <2>1 DEF IdsOnce
  <2>3. QED
    BY <2>1, <2>2 DEF EvidenceInv, KeptIsOfHistory
<1>2. Shown(session)' /\ Shown(bundle)'
  BY DEF EvidenceInv, KeptIsOfHistory, Shown
<1>3. CohortOf(session)' = {} /\ CohortOf(bundle)' = CohortOf(bundle)
  BY DEF CohortOf
<1>4. \A g : BoundBy(session, g)' = {} /\ BoundBy(bundle, g)' = BoundBy(bundle, g)
  BY DEF BoundBy
<1>5. \A test \in OfARun : Naming(events, test)' \subseteq Naming(events, test)
  BY DEF Naming
<1>6. Kept' \subseteq Kept
  BY <1>1, <1>3 DEF Kept
<1>7. Absent' \subseteq Absent /\ Present' \subseteq Present
  BY <1>4, <1>5 DEF Absent, Present, OfARun
<1>8. QED
  BY <1>1, <1>2, <1>6, <1>7 DEF OfARun

LEMMA VisitEvidence ==
  ASSUME TypeOK, EvidenceInv, NEW b \in Browser, Visit(b) \/ Begin(b)
  PROVE  EvidenceInv'
<1>1. /\ StopScripts(b) /\ events' = Rendered(b) /\ session' = None
      /\ UNCHANGED <<records, started, bundle, history>>
  BY DEF Visit, Begin, browsers, process
<1>2. \A e \in Range(events') : e.test \in OfARun => e \in Range(events)
  BY <1>1, RenderedClaimsNothing
<1>3. QED
  BY <1>1, <1>2, SessionDropped, NothingNew

LEMMA RebootEvidence ==
  ASSUME TypeOK, EvidenceInv, Reboot
  PROVE  EvidenceInv'
<1>1. /\ running' \subseteq running /\ events' = <<>> /\ records' = <<>> /\ session' = None
      /\ UNCHANGED <<started, bundle, history>>
  BY DEF Reboot
<1>2. \A e \in Range(events') : e.test \in OfARun => e \in Range(events)
  BY <1>1 DEF Range
<1>3. QED
  BY <1>1, <1>2, SessionDropped, NothingNew

LEMMA DownloadEvidence ==
  ASSUME TypeOK, EvidenceInv, Download
  PROVE  EvidenceInv'
<1>1. /\ bundle' = session /\ session' = None
      /\ UNCHANGED <<records, events, running, started, history>>
  BY DEF Download, store
<1>2. Shown(session)' /\ Shown(bundle)' /\ records' \in Seq(Record) /\ IdsOnce(records')
  BY <1>1 DEF EvidenceInv, KeptIsOfHistory, Shown
<1>3. CohortOf(session)' = {} /\ CohortOf(bundle)' = CohortOf(session)
  BY <1>1 DEF CohortOf
<1>4. \A g : BoundBy(session, g)' = {} /\ BoundBy(bundle, g)' = BoundBy(session, g)
  BY <1>1 DEF BoundBy
<1>5. Kept' \subseteq Kept
  BY <1>1, <1>3 DEF Kept
<1>6. Absent' \subseteq Absent /\ Present' \subseteq Present
  BY <1>1, <1>4 DEF Absent, Present, Naming
<1>7. running' \subseteq running
  BY <1>1
<1>8. QED
  BY <1>1, <1>2, <1>5, <1>6, <1>7, NothingNew

(* A new request is later than everything kept, and its browser has no      *)
(* other that is not stopped.                                               *)
LEMMA StartEvidence ==
  ASSUME TypeOK, EvidenceInv, NEW b \in Browser, Start(b)
  PROVE  EvidenceInv'
<1> DEFINE new == [id |-> started + 1, browser |-> b, session |-> Collection(b),
                   refused |-> poisoned, stopped |-> FALSE]
<1>1. /\ running' = running \cup {new} /\ started' = started + 1 /\ session' = None
      /\ UNCHANGED <<records, events, bundle, history>>
      /\ \A f \in running : f.browser = b => f.stopped
  BY DEF Start, store
<1>2. /\ new.id = started + 1 /\ new.browser = b /\ new.session[1] = b
  BY DEF Collection
<1> HIDE DEF new
<1>3. /\ records' \in Seq(Record) /\ IdsOnce(records') /\ Shown(session)' /\ Shown(bundle)'
      /\ Kept' \subseteq Kept /\ Absent' \subseteq Absent /\ Present' \subseteq Present
  BY <1>1, SessionDropped
<1>4. KeptIsOfHistory' /\ TokensApart' /\ RepeatsAreReal'
  BY <1>1, <1>3 DEF EvidenceInv, KeptIsOfHistory, TokensApart, RepeatsAreReal
<1>5. /\ started \in Nat /\ \A f \in running : f.id \in Nat
      /\ \A r \in Range(history) : r.id \in Nat /\ r.seen \in Nat
      /\ Kept \subseteq Range(history)
  <2>1. \A r \in Range(history) : r \in Record
    BY ElementOfSeq, LenProperties DEF TypeOK, Range
  <2>2. QED
    BY <2>1 DEF TypeOK, PageRun, Record, EvidenceInv, KeptIsOfHistory
<1>6. \A r \in Range(history) : r.id <= r.seen /\ r.seen <= started
  BY DEF EvidenceInv, RunningAreNew
<1>7. RunningAreNew'
  <2>1. \A r \in Range(history)' : r.id <= r.seen /\ r.seen <= started'
    BY <1>1, <1>5, <1>6
  <2>2. new.id \notin Known(history)
    BY <1>2, <1>5, <1>6 DEF Known
  <2>3. \A f \in running : /\ f.id <= started' /\ f.id \notin Known(history)
                           /\ f.session[1] = f.browser /\ f.id # new.id
    BY <1>1, <1>2, <1>5 DEF EvidenceInv, RunningAreNew
  <2>4. new.id <= started'
    BY <1>1, <1>2, <1>5
  <2>5. \A f, g \in running' :
          (f.id = g.id \/ (~f.stopped /\ ~g.stopped /\ f.browser = g.browser)) => f = g
    BY <1>1, <1>2, <2>3 DEF EvidenceInv, RunningAreNew
  <2>6. QED
    BY <1>1, <1>2, <2>1, <2>2, <2>3, <2>4, <2>5 DEF RunningAreNew
<1>8. OneAfterTheOther'
  <2>1. \A r \in Kept : r.seen < new.id
    BY <1>2, <1>5, <1>6
  <2>2. QED
    BY <1>1, <1>3, <2>1 DEF EvidenceInv, OneAfterTheOther
<1>9. QED
  BY <1>4, <1>7, <1>8 DEF EvidenceInv

(* Finalise binds what the store and the bundle hold, and adds nothing.     *)
LEMMA FinaliseEvidence ==
  ASSUME TypeOK, EvidenceInv, NEW b \in Browser, NEW peer \in Browser \cup {Nobody},
         NEW import \in BOOLEAN, peer # b, Finalise(b, peer, import)
  PROVE  EvidenceInv'
<1> DEFINE own == OwnCohort(b, peer)
           newEvents == EventsAfter(b, peer)
           cohort == CohortShown(b, peer, import)
           Bound(group, test) == TokensShown(b, peer, import, group, test)
           absent == Bound("token_absent_execution_ids", "token_absent_load")
           present == Bound("token_present_execution_ids", "token_present_load")
<1>1. /\ import => bundle # None
      /\ StopScripts(b) /\ events' = newEvents
      /\ UNCHANGED <<records, started, bundle, history>>
  BY FinaliseShows
<1>2. /\ session'.cohort = cohort
      /\ session'.ids["request_ids"] = Ids(cohort)
      /\ session'.ids["concurrency_request_ids"] = ConcurrentRequests(cohort)
      /\ session'.ids["token_absent_execution_ids"] = absent
      /\ session'.ids["token_present_execution_ids"] = present
  BY FinaliseShows
<1>3. /\ newEvents \in Seq(Event)
      /\ \A e \in Range(newEvents) : e.test \in OfARun => e \in Range(events)
  <2>1. "two_session_concurrency" \in Test /\ "two_session_concurrency" \notin OfARun
    BY DEF Test, Recovery, Repeats, OfARun
  <2> HIDE DEF own
  <2>2. newEvents = Rendered(b)
          \/ newEvents = RecordOnce(Rendered(b), Collection(b), "two_session_concurrency")
    BY DEF EventsAfter
  <2> HIDE DEF newEvents
  <2>3. QED
    BY <2>1, <2>2, RenderedClaimsNothing, RecordOnceClaimsNothing
<1> HIDE DEF newEvents
<1>4. /\ records \in Seq(Record) /\ IdsOnce(records)
      /\ own \in Seq(Record) /\ IdsOnce(own) /\ Range(own) \subseteq Range(records)
  BY CohortIsKept DEF EvidenceInv, KeptIsOfHistory, OwnCohort
<1> HIDE DEF own
<1>5. /\ cohort \in Seq(Record) /\ IdsOnce(cohort)
      /\ Range(cohort) \subseteq Range(records) \cup CohortOf(bundle)
  <2>1. CASE import
    <3>1. bundle # None /\ cohort = Merge(own, bundle.cohort)
      BY <1>1, <2>1 DEF CohortShown, own
    <3>2. bundle.cohort \in Seq(Record) /\ IdsOnce(bundle.cohort)
      BY <3>1 DEF EvidenceInv, KeptIsOfHistory, Shown
    <3>3. CohortOf(bundle) = Range(bundle.cohort)
      BY <3>1 DEF CohortOf
    <3> HIDE DEF cohort
    <3>4. QED
      BY <1>4, <3>1, <3>2, <3>3, MergeIsOnce
  <2>2. CASE ~import
    BY <1>4, <2>2 DEF CohortShown, own
  <2>3. QED
    BY <2>1, <2>2
<1>6. ASSUME NEW group \in {"token_absent_execution_ids", "token_present_execution_ids"},
             NEW test \in {"token_absent_load", "token_present_load"}
      PROVE  /\ Bound(group, test) \in Executions
             /\ Range(Bound(group, test)) \subseteq Naming(events, test) \cup BoundBy(bundle, group)
  <2> DEFINE ids == OwnTokens(b, peer, test)
  <2>1. ids \in Executions /\ Range(ids) \subseteq Naming(newEvents, test)
    BY <1>3, TokenIdsOf DEF OwnTokens, newEvents
  <2>2. Naming(newEvents, test) \subseteq Naming(events, test)
    BY <1>3 DEF Naming, OfARun
  <2> HIDE DEF ids
  <2>3. CASE import
    <3>1. bundle # None /\ Bound(group, test) = Distinct(ids \o bundle.ids[group])
      BY <1>1, <2>3 DEF TokensShown, ids
    <3>2. bundle.ids[group] \in Executions /\ BoundBy(bundle, group) = Range(bundle.ids[group])
      BY <3>1 DEF EvidenceInv, KeptIsOfHistory, Shown, BoundBy
    <3>3. /\ ids \o bundle.ids[group] \in Executions
          /\ Range(ids \o bundle.ids[group]) = Range(ids) \cup Range(bundle.ids[group])
      BY <2>1, <3>2, ConcatProperties, RangeConcatenation DEF Executions
    <3> HIDE DEF Bound
    <3>4. QED
      BY <2>1, <2>2, <3>1, <3>2, <3>3, DistinctOf
  <2>4. CASE ~import
    <3>1. Bound(group, test) = ids
      BY <2>4 DEF TokensShown, ids
    <3> HIDE DEF Bound
    <3>2. QED
      BY <2>1, <2>2, <3>1
  <2>5. QED
    BY <2>3, <2>4
<1>7. /\ absent \in Executions /\ present \in Executions
      /\ Range(absent) \subseteq Naming(events, "token_absent_load")
                                   \cup BoundBy(bundle, "token_absent_execution_ids")
      /\ Range(present) \subseteq Naming(events, "token_present_load")
                                    \cup BoundBy(bundle, "token_present_execution_ids")
  <2> HIDE DEF Bound
  <2>1. QED
    BY <1>6
<1> HIDE DEF cohort, Bound, absent, present
<1>8. Shown(session)' /\ Shown(bundle)'
  BY <1>1, <1>2, <1>5, <1>7 DEF EvidenceInv, KeptIsOfHistory, Shown
<1>9. Kept' \subseteq Kept
  <2>1. CohortOf(session)' \subseteq Range(cohort) /\ CohortOf(bundle)' = CohortOf(bundle)
    BY <1>1, <1>2 DEF CohortOf
  <2>2. QED
    BY <1>1, <1>5, <2>1 DEF Kept
<1>10. Absent' \subseteq Absent /\ Present' \subseteq Present
  <2>1. /\ BoundBy(session, "token_absent_execution_ids")' \subseteq Range(absent)
        /\ BoundBy(session, "token_present_execution_ids")' \subseteq Range(present)
        /\ \A g : BoundBy(bundle, g)' = BoundBy(bundle, g)
    BY <1>1, <1>2 DEF BoundBy
  <2>2. /\ Naming(events, "token_absent_load")' \subseteq Naming(events, "token_absent_load")
        /\ Naming(events, "token_present_load")' \subseteq Naming(events, "token_present_load")
    BY <1>1, <1>3 DEF Naming, OfARun
  <2>3. QED
    BY <1>7, <2>1, <2>2 DEF Absent, Present
<1>11. \A e \in Range(events') : e.test = Repeats => e \in Range(events)
  BY <1>1, <1>3 DEF OfARun
<1>12. records' \in Seq(Record) /\ IdsOnce(records')
  BY <1>1, <1>4
<1>13. QED
  BY <1>1, <1>8, <1>9, <1>10, <1>11, <1>12, NothingNew

LEMMA Appended ==
  ASSUME NEW h \in Seq(Record), NEW r \in Record
  PROVE  Append(h, r) \in Seq(Record) /\ Range(Append(h, r)) = Range(h) \cup {r}
<1>1. <<r>> \in Seq(Record) /\ Range(<<r>>) = {r}
  BY DEF Range
<1>2. Append(h, r) = h \o <<r>>
  BY AppendIsConcat
<1>3. h \o <<r>> \in Seq(Record)
  BY <1>1, ConcatProperties
<1>4. Range(h \o <<r>>) = Range(h) \cup Range(<<r>>)
  BY <1>1, RangeConcatenation
<1>5. QED
  BY <1>1, <1>2, <1>3, <1>4

LEMMA ThreeStay ==
  ASSUME NEW h \in Seq(Record), NEW r \in Record, NEW c, ThreeReused(h, c)
  PROVE  ThreeReused(Append(h, r), c)
<1>1. /\ Len(Append(h, r)) = Len(h) + 1 /\ Append(h, r) \in Seq(Record)
      /\ \A i \in 1 .. Len(h) : Append(h, r)[i] = h[i]
  BY AppendProperties
<1>2. /\ DOMAIN h = 1 .. Len(h) /\ Len(h) \in Nat
      /\ DOMAIN Append(h, r) = 1 .. (Len(h) + 1)
  BY <1>1, LenProperties
<1>3. \A i \in DOMAIN h : i \in DOMAIN Append(h, r) /\ Append(h, r)[i] = h[i]
  BY <1>1, <1>2
<1>4. QED
  BY <1>3 DEF ThreeReused

(* The end of a run adds its record and, once, its id to those of one token *)
(* state.  If it succeeds and its script was not stopped, no other run of   *)
(* its collection that did so overlaps with it.                             *)
LEMMA FinishEvidence ==
  ASSUME TypeOK, EvidenceInv, NEW f \in running, NEW outcome \in Outcomes, Finish(f, outcome)
  PROVE  EvidenceInv'
<1> DEFINE record == RecordOf(f, outcome)
           written == Written(f, record)
<1>1. /\ record \in Record /\ running' = running \ {f} /\ history' = Append(history, record)
      /\ records' = PushAll(records, written) /\ events' \in Seq(Event)
      /\ session' = None /\ UNCHANGED <<started, bundle>>
  BY FinishAdds
<1>2. \A e \in Range(events') :
        \/ e \in Range(events)
        \/ /\ e.session = f.session /\ e.request = f.id
           /\ e.test \in OfARun => Earned(f, records', e.test)
  BY FinishAdds
<1>3. /\ record.id = f.id /\ record.seen = started /\ record.session = f.session
      /\ written = <<record>> \/ written = <<>>
      /\ f.stopped /\ IsSuccess(record) => written = <<>>
  BY DEF RecordOf, Written, IsSuccess
<1> HIDE DEF record, written
<1>4. /\ started \in Nat /\ f \in PageRun /\ f.id \in Nat
      /\ f.id <= started /\ f.id \notin Known(history)
  BY DEF TypeOK, PageRun, EvidenceInv, RunningAreNew
<1>5. history' \in Seq(Record) /\ Range(history') = Range(history) \cup {record}
  BY <1>1, Appended DEF TypeOK
<1>6. /\ written \in Seq(Record) /\ IdsOnce(written)
      /\ Range(written) \subseteq {record}
      /\ f.stopped /\ IsSuccess(record) => Range(written) = {}
  <2>1. /\ <<record>> \in Seq(Record) /\ <<>> \in Seq(Record)
        /\ DOMAIN <<record>> = {1} /\ DOMAIN <<>> = {}
    BY <1>1, EmptySeq
  <2>2. IdsOnce(<<record>>) /\ IdsOnce(<<>>)
    BY <2>1 DEF IdsOnce
  <2>3. Range(<<record>>) = {record} /\ Range(<<>>) = {}
    BY <2>1 DEF Range
  <2>4. QED
    BY <1>3, <2>1, <2>2, <2>3
<1>7. /\ records \in Seq(Record) /\ IdsOnce(records) /\ Kept \subseteq Range(history)
      /\ Range(records) \subseteq Range(history)
  BY DEF EvidenceInv, KeptIsOfHistory, Kept
<1>8. /\ records' \in Seq(Record) /\ IdsOnce(records')
      /\ Range(records') \subseteq Range(records) \cup Range(written)
  <2>1. Known(records) \cap Known(written) = {}
    BY <1>3, <1>4, <1>6, <1>7 DEF Known
  <2>2. IdsOnce(records \o written)
    BY <1>6, <1>7, <2>1, JoinedRecords
  <2>3. QED
    BY <1>1, <1>6, <1>7, <2>2, PushedOnce, PushAllKeeps
<1>9. Kept' \subseteq Kept \cup Range(written)
  <2>1. CohortOf(session)' = {} /\ CohortOf(bundle)' = CohortOf(bundle)
    BY <1>1 DEF CohortOf
  <2>2. QED
    BY <1>8, <2>1 DEF Kept
<1>10. KeptIsOfHistory'
  <2>1. Shown(session)' /\ Shown(bundle)'
    BY <1>1 DEF EvidenceInv, KeptIsOfHistory, Shown
  <2>2. QED
    BY <1>5, <1>6, <1>7, <1>8, <1>9, <2>1 DEF KeptIsOfHistory
<1>11. Known(history') = Known(history) \cup {f.id}
  BY <1>3, <1>5 DEF Known
<1>12. RunningAreNew'
  <2>1. \A r \in Range(history)' : r.id <= r.seen /\ r.seen <= started'
    BY <1>1, <1>3, <1>4, <1>5 DEF EvidenceInv, RunningAreNew
  <2>2. \A g \in running' : g.id # f.id
    BY <1>1 DEF EvidenceInv, RunningAreNew
  <2>3. QED
    BY <1>1, <1>11, <2>1, <2>2 DEF EvidenceInv, RunningAreNew
<1>13. OneAfterTheOther'
  <2>1. \A r \in Range(history) : r.id \in Nat /\ r.seen \in Nat /\ r.id <= r.seen
    <3>1. \A r \in Range(history) : r \in Record
      BY ElementOfSeq, LenProperties DEF TypeOK, Range
    <3>2. QED
      BY <3>1 DEF Record, EvidenceInv, RunningAreNew
  <2>2. ASSUME NEW r \in Kept', NEW s \in Kept', IsSuccess(r), IsSuccess(s),
               r.session = s.session, r.id < s.id
        PROVE  r.seen < s.id
    <3>1. CASE r \in Kept /\ s \in Kept
      BY <2>2, <3>1 DEF EvidenceInv, OneAfterTheOther
    <3>2. CASE r \in Kept /\ s \in Range(written)
      <4>1. s = record /\ ~f.stopped
        BY <1>6, <2>2, <3>2
      <4>2. QED
        BY <1>3, <2>2, <3>2, <4>1 DEF EvidenceInv, OneAfterTheOther
    <3>3. CASE r \in Range(written) /\ s \in Kept
      <4>1. r = record /\ ~f.stopped
        BY <1>6, <2>2, <3>3
      <4>2. s.seen < f.id
        BY <1>3, <2>2, <3>3, <4>1 DEF EvidenceInv, OneAfterTheOther
      <4>3. s.id \in Nat /\ s.seen \in Nat /\ s.id <= s.seen
        BY <1>7, <2>1, <3>3
      <4>4. QED
        BY <1>3, <1>4, <2>2, <4>1, <4>2, <4>3
    <3>4. CASE r \in Range(written) /\ s \in Range(written)
      <4>1. r.id = f.id /\ s.id = f.id
        BY <1>3, <1>6, <3>4
      <4>2. QED
        BY <1>4, <2>2, <4>1
    <3>5. QED
      BY <1>9, <3>1, <3>2, <3>3, <3>4
  <2>3. ASSUME NEW r \in Kept', NEW g \in running', IsSuccess(r), r.session = g.session,
               ~g.stopped
        PROVE  r.seen < g.id
    <3>1. g \in running /\ g # f
      BY <1>1
    <3>2. r \notin Range(written)
      <4>1. SUFFICES ASSUME r \in Range(written) PROVE FALSE
        OBVIOUS
      <4>2. r = record /\ ~f.stopped
        BY <1>6, <2>3, <4>1
      <4>3. f.browser = g.browser
        BY <1>3, <2>3, <3>1, <4>2 DEF EvidenceInv, RunningAreNew
      <4>4. QED
        BY <2>3, <3>1, <4>2, <4>3 DEF EvidenceInv, RunningAreNew
    <3>3. r \in Kept
      BY <1>9, <3>2
    <3>4. QED
      BY <2>3, <3>1, <3>3 DEF EvidenceInv, OneAfterTheOther
  <2>4. QED
    BY <2>2, <2>3 DEF OneAfterTheOther
<1>14. TokensApart'
  <2>1. \A g : BoundBy(session, g)' = {} /\ BoundBy(bundle, g)' = BoundBy(bundle, g)
    BY <1>1 DEF BoundBy
  <2>2. Naming(events, "token_absent_load")' \subseteq
          Naming(events, "token_absent_load") \cup (IF tokenPresent THEN {} ELSE {f.id})
    BY <1>2 DEF Naming, Earned, OfARun
  <2>3. Naming(events, "token_present_load")' \subseteq
          Naming(events, "token_present_load") \cup (IF tokenPresent THEN {f.id} ELSE {})
    BY <1>2 DEF Naming, Earned, OfARun
  <2>4. Absent' \subseteq Absent \cup (IF tokenPresent THEN {} ELSE {f.id})
    BY <2>1, <2>2 DEF Absent
  <2>5. Present' \subseteq Present \cup (IF tokenPresent THEN {f.id} ELSE {})
    BY <2>1, <2>3 DEF Present
  <2>6. Absent \cap Present = {} /\ f.id \notin Absent \cup Present
        /\ Absent \cup Present \subseteq Known(history)
    BY <1>4 DEF EvidenceInv, TokensApart
  <2>7. QED
    BY <1>11, <2>4, <2>5, <2>6 DEF TokensApart
<1>15. RepeatsAreReal'
  <2>1. ASSUME NEW e \in Range(events'), e.test = Repeats
        PROVE  ThreeReused(history', e.session)
    <3>1. CASE e \in Range(events)
      <4>1. ThreeReused(history, e.session)
        BY <2>1, <3>1 DEF EvidenceInv, RepeatsAreReal, Repeats
      <4>2. QED
        BY <1>1, <4>1, ThreeStay DEF TypeOK
    <3>2. CASE e.session = f.session /\ Earned(f, records', e.test)
      <4>1. Len(WarmRuns(InCollection(records', e.session))) >= 3
        BY <2>1, <3>2 DEF Earned
      <4>2. Range(records') \subseteq Range(history')
        BY <1>5, <1>6, <1>7, <1>8
      <4>3. QED
        BY <1>5, <1>8, <4>1, <4>2, ThreeInStore
    <3>3. QED
      BY <1>2, <2>1, <3>1, <3>2 DEF OfARun
  <2>2. QED
    BY <2>1 DEF RepeatsAreReal, Repeats
<1>16. QED
  BY <1>10, <1>12, <1>13, <1>14, <1>15 DEF EvidenceInv

--------------------------------------------------------------------------------
(* EvidenceInv holds in every state.  It speaks of everything that is kept  *)
(* at once, because evidence travels: from the store to the session that    *)
(* is shown, on to the bundle and, imported, back into a session.           *)
THEOREM EvidenceInvariant == Spec => []EvidenceInv
<1>1. Init => EvidenceInv
  <2> SUFFICES ASSUME Init PROVE EvidenceInv
    OBVIOUS
  <2>1. /\ history = <<>> /\ events = <<>> /\ records = <<>> /\ running = {}
        /\ session = None /\ bundle = None
    BY DEF Init
  <2>2. <<>> \in Seq(Record) /\ DOMAIN <<>> = {} /\ Range(<<>>) = {}
    BY EmptySeq DEF Range
  <2>3. IdsOnce(<<>>)
    BY <2>2 DEF IdsOnce
  <2>4. Kept = {} /\ Absent = {} /\ Present = {}
    BY <2>1, <2>2 DEF Kept, CohortOf, BoundBy, Absent, Present, Naming
  <2>5. KeptIsOfHistory
    BY <2>1, <2>2, <2>3, <2>4 DEF KeptIsOfHistory, Shown
  <2>6. RunningAreNew /\ OneAfterTheOther
    BY <2>1, <2>2, <2>4 DEF RunningAreNew, OneAfterTheOther
  <2>7. TokensApart /\ RepeatsAreReal
    BY <2>1, <2>2, <2>4 DEF TokensApart, RepeatsAreReal
  <2>8. QED
    BY <2>5, <2>6, <2>7 DEF EvidenceInv
<1>2. IInv /\ EvidenceInv /\ [Next]_vars => EvidenceInv'
  <2> SUFFICES ASSUME IInv, EvidenceInv, [Next]_vars PROVE EvidenceInv'
    OBVIOUS
  <2>1. TypeOK
    BY DEF IInv
  <2>2. CASE \E b \in Browser : Start(b) \/ Visit(b) \/ Begin(b)
    BY <2>1, <2>2, StartEvidence, VisitEvidence
  <2>3. CASE \E f \in running, outcome \in Outcomes : Finish(f, outcome)
    BY <2>1, <2>3, FinishEvidence
  <2>4. CASE \E b \in Browser, peer \in Browser \cup {Nobody}, import \in BOOLEAN :
               peer # b /\ Finalise(b, peer, import)
    BY <2>1, <2>4, FinaliseEvidence
  <2>5. CASE Download
    BY <2>1, <2>5, DownloadEvidence
  <2>6. CASE Reboot
    BY <2>1, <2>6, RebootEvidence
  <2>7. CASE UNCHANGED vars
    <3>1. UNCHANGED <<records, events, running, started, session, bundle, history>>
      BY <2>7 DEF vars, store
    <3>2. KeptIsOfHistory' /\ RunningAreNew'
      BY <3>1 DEF EvidenceInv, KeptIsOfHistory, RunningAreNew, Shown, Kept, CohortOf
    <3>3. OneAfterTheOther'
      BY <3>1 DEF EvidenceInv, OneAfterTheOther, Kept, CohortOf
    <3>4. TokensApart' /\ RepeatsAreReal'
      BY <3>1 DEF EvidenceInv, TokensApart, RepeatsAreReal, Absent, Present, BoundBy, Naming
    <3>5. QED
      BY <3>2, <3>3, <3>4 DEF EvidenceInv
  <2>8. QED
    BY <2>2, <2>3, <2>4, <2>5, <2>6, <2>7 DEF Next
<1>3. QED
  BY <1>1, <1>2, InductiveInvariant, PTL DEF Spec

(* The page records repeated_forecasts only for a collection of which three *)
(* runs have succeeded on the pipeline another had constructed, whoever     *)
(* else writes to the bounded store (1_Forecast.py's warm_so_far).          *)
THEOREM RepeatsTookPlace == Spec => []RepeatedMeansThree
<1>1. ASSUME IInv, EvidenceInv PROVE RepeatedMeansThree
  <2>1. ASSUME NEW e \in Range(events), e.test = Repeats
        PROVE  Cardinality(Completed(e.session, Reused)) >= 3
    <3> DEFINE C == Completed(e.session, Reused)
    <3>1. PICK i \in DOMAIN history, j \in DOMAIN history, k \in DOMAIN history :
            /\ i # j /\ j # k /\ i # k
            /\ \A n \in {i, j, k} : history[n].session = e.session /\ Reused(history[n])
      BY <1>1, <2>1 DEF EvidenceInv, RepeatsAreReal, Repeats, ThreeReused
    <3>2. {i, j, k} \subseteq C /\ C \subseteq DOMAIN history
      BY <3>1 DEF Completed
    <3>3. DOMAIN history = 1 .. Len(history) /\ Len(history) \in Nat
      BY <1>1, LenProperties DEF IInv, TypeOK
    <3> HIDE DEF C
    <3>4. IsFiniteSet(C)
      <4>1. IsFiniteSet(DOMAIN history)
        BY <3>3, FS_Interval
      <4>2. C \in SUBSET DOMAIN history
        BY <3>2
      <4>3. QED
        BY <4>1, <4>2, FS_Subset
    <3>5. Cardinality({i, j, k}) = 3
      <4>1. IsFiniteSet({}) /\ Cardinality({}) = 0
        BY FS_EmptySet
      <4>2. IsFiniteSet({i}) /\ Cardinality({i}) = 1
        BY FS_Singleton
      <4>3. {i, j} = {i} \cup {j} /\ j \notin {i}
        BY <3>1
      <4>4. IsFiniteSet({i, j}) /\ Cardinality({i, j}) = 2
        BY <4>2, <4>3, FS_AddElement
      <4>5. {i, j, k} = {i, j} \cup {k} /\ k \notin {i, j}
        BY <3>1
      <4>6. QED
        BY <4>4, <4>5, FS_AddElement
    <3>6. Cardinality({i, j, k}) <= Cardinality(C)
      BY <3>2, <3>4, FS_Subset
    <3>7. QED
      BY <3>4, <3>5, <3>6, FS_CardinalityType DEF C
  <2>2. QED
    BY <2>1 DEF RepeatedMeansThree, Repeats
<1>2. QED
  BY <1>1, InductiveInvariant, EvidenceInvariant, PTL

LEMMA ConcurrentRequestsAre ==
  ASSUME NEW s \in Seq(Record)
  PROVE  /\ Range(ConcurrentRequests(s)) = {s[i].id : i \in Overlapping(s)}
         /\ IsInjective(ConcurrentRequests(s))
<1> DEFINE ids == {s[i].id : i \in Overlapping(s)}
<1>1. DOMAIN s = 1 .. Len(s) /\ Len(s) \in Nat /\ Overlapping(s) \subseteq DOMAIN s
  BY LenProperties DEF Overlapping
<1> DEFINE places == DOMAIN s
           o == Overlapping(s)
           f == [i \in o |-> s[i].id]
<1>2. IsFiniteSet(o)
  <2>1. IsFiniteSet(places)
    BY <1>1, FS_Interval
  <2>2. o \in SUBSET places
    BY <1>1
  <2> HIDE DEF o, places
  <2>3. QED
    BY <2>1, <2>2, FS_Subset
<1>3. IsFiniteSet(ids)
  <2>1. f \in Surjection(o, ids)
    BY DEF Surjection
  <2> HIDE DEF f, o, ids
  <2>2. QED
    BY <1>2, <2>1, FS_Surjection
<1> HIDE DEF ids
<1>4. Range(SetToSeq(ids)) = ids /\ IsInjective(SetToSeq(ids))
  BY <1>3, SetToSeqRange
<1>5. QED
  BY <1>4 DEF ConcurrentRequests, ids

(* When the session record lists overlapping requests, two collections took *)
(* part: the runs of one that end with a record never overlap, for a        *)
(* browser's next run starts only when the script of the last has stopped,  *)
(* and a stopped success writes none.                                       *)
THEOREM ConcurrencyTookTwo == Spec => []ConcurrencyIsOfTwoSessions
<1>1. ASSUME IInv, EvidenceInv PROVE ConcurrencyIsOfTwoSessions
  <2>1. SUFFICES ASSUME session # None, session.ids["concurrency_request_ids"] # <<>>
                 PROVE  \E r, s \in Range(session.cohort) :
                          /\ {r.id, s.id} \subseteq
                               Range(session.ids["concurrency_request_ids"])
                          /\ r.session # s.session
    BY DEF ConcurrencyIsOfTwoSessions
  <2> DEFINE c == session.cohort
             ids == session.ids["concurrency_request_ids"]
  <2>2. c \in Seq(Record) /\ IdsOnce(c) /\ ids = ConcurrentRequests(c)
    BY <1>1, <2>1 DEF EvidenceInv, KeptIsOfHistory, Shown
  <2>3. Range(c) \subseteq Kept
    BY <2>1 DEF Kept, CohortOf
  <2> HIDE DEF c, ids
  <2>4. Range(ids) = {c[i].id : i \in Overlapping(c)}
    BY <2>2, ConcurrentRequestsAre
  <2>5. Overlapping(c) # {}
    <3>1. SUFFICES ASSUME Overlapping(c) = {} PROVE FALSE
      OBVIOUS
    <3>2. SetToSeq({}) \in Seq({})
      BY FS_EmptySet, SetToSeqRange
    <3>3. ids = SetToSeq({})
      BY <2>2, <3>1 DEF ConcurrentRequests
    <3>4. ids = <<>>
      <4>1. ids \in Seq({}) /\ ids # <<>> => ids[1] \in {}
        BY <3>2, <3>3, ElementOfSeq, EmptySeq, LenProperties
      <4>2. QED
        BY <3>2, <3>3, <4>1
    <3>5. QED
      BY <2>1, <3>4 DEF ids
  <2>6. PICK i \in DOMAIN c, j \in DOMAIN c : i # j /\ Overlap(c[i], c[j])
    BY <2>5 DEF Overlapping
  <2>7. c[i] \in Record /\ c[j] \in Record /\ c[i] \in Range(c) /\ c[j] \in Range(c)
    BY <2>2, ElementOfSeq, LenProperties DEF Range
  <2>8. c[i].id # c[j].id /\ c[i].id \in Nat /\ c[j].id \in Nat
    BY <2>2, <2>6, <2>7 DEF IdsOnce, Record
  <2>9. Overlap(c[j], c[i])
    BY <2>6, <2>8 DEF Overlap
  <2>10. i \in Overlapping(c) /\ j \in Overlapping(c)
    BY <2>6, <2>9 DEF Overlapping
  <2>11. c[i].session # c[j].session
    <3>1. SUFFICES ASSUME c[i].session = c[j].session PROVE FALSE
      OBVIOUS
    <3>2. /\ c[i].id < c[j].id => c[i].seen < c[j].id
          /\ c[j].id < c[i].id => c[j].seen < c[i].id
      BY <1>1, <2>3, <2>6, <2>7, <3>1 DEF EvidenceInv, OneAfterTheOther, Overlap, IsSuccess
    <3>3. c[i].seen \in Nat /\ c[j].seen \in Nat
      BY <2>7 DEF Record
    <3>4. QED
      BY <2>6, <2>8, <3>2, <3>3 DEF Overlap
  <2>12. QED
    BY <2>4, <2>7, <2>10, <2>11 DEF c, ids
<1>2. QED
  BY <1>1, InductiveInvariant, EvidenceInvariant, PTL
--------------------------------------------------------------------------------
(* The lists of a session record that are computed from its cohort.         *)

LEMMA SortedRecords ==
  ASSUME OrderedSorts(Seq(Record)), NEW s \in Seq(Record), IdsOnce(s)
  PROVE  LET o == Ordered(s)
         IN  /\ o \in Seq(Record) /\ IdsOnce(o) /\ Range(o) = Range(s)
             /\ \A i, j \in DOMAIN o : i < j => o[i].id < o[j].id
<1> DEFINE o == Ordered(s)
<1>1. /\ o \in Seq(Range(s)) /\ Range(o) = Range(s)
      /\ IsInjective(s) => IsInjective(o)
      /\ \A i, j \in DOMAIN o : i < j => o[i].id <= o[j].id
  BY DEF OrderedSorts
<1> HIDE DEF o
<1>2. \A i \in DOMAIN s : s[i] \in Record
  BY ElementOfSeq, LenProperties
<1>3. Range(s) \subseteq Record
  BY <1>2 DEF Range
<1>4. o \in Seq(Record)
  BY <1>1, <1>3, SeqDef
<1>5. IsInjective(o)
  BY <1>1 DEF IdsOnce, IsInjective
<1>6. \A i \in DOMAIN o : \E k \in DOMAIN s : o[i] = s[k]
  BY <1>1 DEF Range
<1>7. \A i, j \in DOMAIN o : o[i].id = o[j].id => o[i] = o[j]
  BY <1>6 DEF IdsOnce
<1>8. IdsOnce(o)
  BY <1>5, <1>7 DEF IdsOnce, IsInjective
<1>9. \A i \in DOMAIN o : o[i].id \in Nat /\ i \in Nat
  <2>1. DOMAIN o = 1 .. Len(o) /\ \A i \in DOMAIN o : o[i] \in Record
    BY <1>4, ElementOfSeq, LenProperties
  <2>2. QED
    BY <2>1 DEF Record
<1>10. \A i, j \in DOMAIN o : i < j => o[i].id < o[j].id
  BY <1>1, <1>8, <1>9 DEF IdsOnce
<1>11. QED
  BY <1>1, <1>4, <1>8, <1>10 DEF o

(* A timeout and the first success of its collection after it.              *)
LaterThan(o, i) ==
  Only(SubSeq(o, i + 1, Len(o)), {r \in Range(o) : IsSuccess(r) /\ r.session = o[i].session})
PairAt(o, i) ==
  IF ~IsTimeout(o[i]) THEN <<>>
  ELSE <<o[i].id>> \o Ids(SubSeq(LaterThan(o, i), 1, Min({1, Len(LaterThan(o, i))})))

LEMMA PairIs ==
  ASSUME NEW o \in Seq(Record), NEW i \in DOMAIN o
  PROVE  LET pair == PairAt(o, i)
         IN  /\ pair \in Seq(Nat) /\ DOMAIN pair \subseteq {1, 2}
             /\ pair # <<>> => IsTimeout(o[i]) /\ pair[1] = o[i].id
             /\ 2 \in DOMAIN pair =>
                  \E k \in DOMAIN o : /\ i < k /\ IsSuccess(o[k]) /\ pair[2] = o[k].id
                                      /\ o[k].session = o[i].session
<1> DEFINE rest == SubSeq(o, i + 1, Len(o))
           S == {r \in Range(o) : IsSuccess(r) /\ r.session = o[i].session}
           later == Only(rest, S)
           first == SubSeq(later, 1, Min({1, Len(later)}))
           pair == PairAt(o, i)
<1>1. /\ DOMAIN o = 1 .. Len(o) /\ Len(o) \in Nat /\ i \in Nat
      /\ \A k \in DOMAIN o : o[k] \in Record
  BY LenProperties, ElementOfSeq
<1>2. /\ rest \in Seq(Record)
      /\ \A r \in Range(rest) : \E k \in DOMAIN o : i < k /\ r = o[k]
  <2>1. /\ rest \in Seq(Record)
        /\ Len(rest) = IF i + 1 <= Len(o) THEN Len(o) - (i + 1) + 1 ELSE 0
        /\ \A x \in 1 .. Len(o) - (i + 1) + 1 : rest[x] = o[(i + 1) + x - 1]
    <3>1. i + 1 \in Int /\ Len(o) \in Int
      BY <1>1
    <3>2. \A x \in (i + 1) .. Len(o) : o[x] \in Record
      BY <1>1
    <3>3. i + 1 \in 1 .. Len(o) + 1
      BY <1>1
    <3>4. Len(o) \in i .. Len(o)
      BY <1>1
    <3>5. QED
      BY <1>1, <3>3, <3>4, SubSeqProperties
  <2> HIDE DEF rest
  <2>2. DOMAIN rest = 1 .. Len(rest)
    BY <2>1, LenProperties
  <2>3. \A x \in DOMAIN rest : i + x \in DOMAIN o /\ rest[x] = o[i + x] /\ i < i + x
    <3>1. ASSUME NEW x \in DOMAIN rest
          PROVE  /\ x \in 1 .. Len(o) - (i + 1) + 1 /\ (i + 1) + x - 1 = i + x
                 /\ i + x \in 1 .. Len(o) /\ i < i + x
      BY <1>1, <2>1, <2>2
    <3>2. QED
      BY <1>1, <2>1, <3>1
  <2>4. QED
    BY <2>1, <2>3 DEF Range
<1> HIDE DEF rest
<1>3. later \in Seq(Record) /\ Range(later) = Range(rest) \cap S
  BY <1>2, OnlyRecords
<1> HIDE DEF later
<1>4. Len(later) \in Nat /\ DOMAIN later = 1 .. Len(later)
  BY <1>3, LenProperties
<1>5. /\ first \in Seq(Record) /\ Len(first) \in {0, 1}
      /\ Len(first) = 1 => 1 \in DOMAIN later /\ first[1] = later[1]
  <2>1. Min({1, Len(later)}) = IF 1 <= Len(later) THEN 1 ELSE Len(later)
    BY <1>4, TwoOfThem
  <2>2. CASE Len(later) = 0
    <3>1. first = SubSeq(later, 1, 0)
      BY <2>1, <2>2
    <3>2. SubSeq(later, 1, 0) \in Seq(Record) /\ Len(SubSeq(later, 1, 0)) = 0
      <4>1. 1 \in 1 .. Len(later) + 1 /\ 0 \in 1 - 1 .. Len(later)
        BY <1>4
      <4>2. QED
        BY <1>3, <4>1, SubSeqProperties
    <3> HIDE DEF first
    <3>3. QED
      BY <3>1, <3>2
  <2>3. CASE Len(later) # 0
    <3>1. first = SubSeq(later, 1, 1) /\ 1 <= Len(later)
      BY <1>4, <2>1, <2>3
    <3>2. /\ SubSeq(later, 1, 1) \in Seq(Record) /\ Len(SubSeq(later, 1, 1)) = 1
          /\ SubSeq(later, 1, 1)[1] = later[1]
      <4>1. 1 \in 1 .. Len(later) + 1 /\ 1 \in 1 - 1 .. Len(later)
        BY <1>4, <3>1
      <4>2. QED
        BY <1>3, <4>1, SubSeqProperties
    <3>3. 1 \in DOMAIN later
      BY <1>4, <3>1
    <3>4. QED
      BY <3>1, <3>2, <3>3
  <2>4. QED
    BY <2>2, <2>3
<1>6. pair = IF ~IsTimeout(o[i]) THEN <<>> ELSE <<o[i].id>> \o Ids(first)
  BY DEF PairAt, LaterThan, later, rest
<1> HIDE DEF first, pair
<1>7. CASE ~IsTimeout(o[i])
  <2>1. pair = <<>> /\ <<>> \in Seq(Nat) /\ DOMAIN <<>> = {}
    BY <1>6, <1>7, EmptySeq
  <2>2. QED
    BY <2>1 DEF pair
<1>8. CASE IsTimeout(o[i])
  <2> DEFINE head == <<o[i].id>>
             ids == Ids(first)
  <2>1. head \in Seq(Nat) /\ Len(head) = 1 /\ head[1] = o[i].id
    BY <1>1 DEF Record
  <2>2. /\ DOMAIN first = 1 .. Len(first) /\ \A k \in DOMAIN first : first[k] \in Record
    BY <1>5, LenProperties, ElementOfSeq
  <2>3. /\ ids \in Seq(Nat) /\ Len(ids) = Len(first)
        /\ Len(first) = 1 => ids[1] = first[1].id
    <3>1. ids \in [1 .. Len(first) -> Nat]
      BY <2>2 DEF Ids, Record
    <3>2. Len(first) = 1 => ids[1] = first[1].id
      BY <2>2 DEF Ids
    <3> HIDE DEF ids
    <3>3. ids \in Seq(Nat)
      BY <1>5, <3>1, SeqDef
    <3>4. DOMAIN ids = 1 .. Len(ids) /\ Len(ids) \in Nat /\ Len(first) \in Nat
      BY <1>5, <3>3, LenProperties
    <3>5. QED
      BY <3>1, <3>2, <3>3, <3>4
  <2> HIDE DEF head, ids
  <2>4. pair = head \o ids
    BY <1>6, <1>8 DEF head, ids
  <2>5. /\ pair \in Seq(Nat) /\ Len(pair) = 1 + Len(ids)
        /\ pair[1] = o[i].id
        /\ Len(first) = 1 => pair[2] = first[1].id
    <3>1. /\ pair \in Seq(Nat) /\ Len(pair) = Len(head) + Len(ids)
          /\ \A x \in 1 .. Len(head) : pair[x] = head[x]
          /\ \A x \in 1 .. Len(ids) : pair[Len(head) + x] = ids[x]
      <4>1. pair = head \o ids
        BY <2>4
      <4> HIDE DEF pair
      <4>2. head \in Seq(Nat) /\ ids \in Seq(Nat)
        BY <2>1, <2>3
      <4>3. /\ head \o ids \in Seq(Nat) /\ Len(head \o ids) = Len(head) + Len(ids)
            /\ \A x \in 1 .. Len(head) : (head \o ids)[x] = head[x]
            /\ \A x \in 1 .. Len(ids) : (head \o ids)[Len(head) + x] = ids[x]
        BY <4>2, ConcatProperties
      <4>4. QED
        BY <4>1, <4>3
    <3>2. \A x \in 1 .. Len(ids) : pair[1 + x] = ids[x]
      BY <2>1, <3>1
    <3>3. Len(first) = 1 => 1 \in 1 .. Len(ids) /\ pair[1 + 1] = ids[1]
      BY <2>3, <3>2
    <3>4. QED
      BY <2>1, <2>3, <3>1, <3>3
  <2>6. DOMAIN pair = 1 .. Len(pair)
    BY <2>5, LenProperties
  <2>7. DOMAIN pair \subseteq {1, 2} /\ (2 \in DOMAIN pair => Len(first) = 1)
    <3>1. Len(first) \in {0, 1} /\ Len(ids) = Len(first) /\ Len(pair) = 1 + Len(ids)
      BY <1>5, <2>3, <2>5
    <3>2. Len(pair) \in {1, 2} /\ (Len(pair) = 2 => Len(first) = 1)
      BY <3>1
    <3>3. QED
      BY <2>6, <3>2
  <2>8. ASSUME 2 \in DOMAIN pair
        PROVE  \E k \in DOMAIN o : /\ i < k /\ IsSuccess(o[k]) /\ pair[2] = o[k].id
                                   /\ o[k].session = o[i].session
    <3>1. Len(first) = 1 /\ pair[2] = first[1].id /\ first[1] \in Range(later)
      BY <1>5, <2>5, <2>7, <2>8 DEF Range
    <3>2. PICK k \in DOMAIN o : i < k /\ first[1] = o[k]
      BY <1>2, <1>3, <3>1
    <3>3. QED
      BY <1>3, <3>1, <3>2
  <2>9. QED
    BY <1>8, <2>5, <2>7, <2>8 DEF pair
<1>9. QED
  BY <1>7, <1>8

(* A request is twice in the list only when several timeouts share one      *)
(* recovery.                                                                *)
LEMMA TimeoutRecoveriesAre ==
  ASSUME OrderedSorts(Seq(Record)), NEW s \in Seq(Record), IdsOnce(s)
  PROVE  /\ Range(TimeoutRecoveries(s)) \subseteq Known(s)
         /\ IsInjective(TimeoutRecoveries(s)) \/ SharedRecovery(s)
<1> DEFINE o == Ordered(s)
           ss == [i \in DOMAIN o |-> PairAt(o, i)]
           t == FlattenSeq(ss)
<1>1. /\ o \in Seq(Record) /\ IdsOnce(o) /\ Range(o) = Range(s)
      /\ \A i, j \in DOMAIN o : i < j => o[i].id < o[j].id
  BY SortedRecords
<1>2. TimeoutRecoveries(s) = t
  BY DEF TimeoutRecoveries, PairAt, LaterThan
<1> HIDE DEF o
<1>3. DOMAIN o = 1 .. Len(o) /\ Len(o) \in Nat
  BY <1>1, LenProperties
<1>4. \A i \in DOMAIN o :
        /\ PairAt(o, i) \in Seq(Nat) /\ DOMAIN PairAt(o, i) \subseteq {1, 2}
        /\ PairAt(o, i) # <<>> => IsTimeout(o[i]) /\ PairAt(o, i)[1] = o[i].id
        /\ 2 \in DOMAIN PairAt(o, i) =>
             \E k \in DOMAIN o : /\ i < k /\ IsSuccess(o[k]) /\ PairAt(o, i)[2] = o[k].id
                                 /\ o[k].session = o[i].session
  BY <1>1, PairIs
<1>5. ss \in Seq(Seq(Nat)) /\ Len(ss) = Len(o) /\ \A i \in 1 .. Len(o) : ss[i] = PairAt(o, i)
  <2>1. ss \in [1 .. Len(o) -> Seq(Nat)]
    BY <1>3, <1>4
  <2>2. \A i \in 1 .. Len(o) : ss[i] = PairAt(o, i)
    BY <1>3
  <2> HIDE DEF ss
  <2>3. ss \in Seq(Seq(Nat))
    BY <1>3, <2>1, SeqDef
  <2>4. DOMAIN ss = 1 .. Len(ss) /\ Len(ss) \in Nat
    BY <2>3, LenProperties
  <2>5. QED
    BY <1>3, <2>1, <2>2, <2>3, <2>4
<1> HIDE DEF ss
<1>6. t \in Seq(Nat) /\ \E g, h : ComesFrom(t, g, h, ss, Len(o))
  BY <1>5, Flattened
<1> HIDE DEF t
<1>7. PICK g, h : ComesFrom(t, g, h, ss, Len(o))
  BY <1>6
<1>8. DOMAIN t = 1 .. Len(t)
  BY <1>6, LenProperties
<1>9. /\ \A p \in DOMAIN t : /\ g[p] \in DOMAIN o /\ h[p] \in DOMAIN PairAt(o, g[p])
                             /\ t[p] = PairAt(o, g[p])[h[p]]
      /\ \A p, q \in DOMAIN t : g[p] = g[q] /\ h[p] = h[q] => p = q
  BY <1>3, <1>5, <1>7, <1>8 DEF ComesFrom
<1> DEFINE Second(p, k) == /\ h[p] = 2 /\ k \in DOMAIN o /\ g[p] < k /\ IsSuccess(o[k])
                           /\ t[p] = o[k].id /\ o[k].session = o[g[p]].session
<1>10. \A p \in DOMAIN t :
         /\ IsTimeout(o[g[p]])
         /\ (h[p] = 1 /\ t[p] = o[g[p]].id) \/ \E k : Second(p, k)
  <2>1. SUFFICES ASSUME NEW p \in DOMAIN t
                 PROVE  /\ IsTimeout(o[g[p]])
                        /\ (h[p] = 1 /\ t[p] = o[g[p]].id) \/ \E k : Second(p, k)
    OBVIOUS
  <2>2. g[p] \in DOMAIN o /\ h[p] \in {1, 2} /\ h[p] \in DOMAIN PairAt(o, g[p])
    BY <1>4, <1>9
  <2>3. PairAt(o, g[p]) # <<>>
    BY <2>2, EmptySeq
  <2>4. IsTimeout(o[g[p]]) /\ PairAt(o, g[p])[1] = o[g[p]].id
    BY <1>4, <2>2, <2>3
  <2>5. CASE h[p] = 1
    BY <1>9, <2>4, <2>5
  <2>6. CASE h[p] = 2
    <3>1. PICK k \in DOMAIN o :
            /\ g[p] < k /\ IsSuccess(o[k]) /\ PairAt(o, g[p])[2] = o[k].id
            /\ o[k].session = o[g[p]].session
      BY <1>4, <2>2, <2>6
    <3>2. Second(p, k)
      BY <1>9, <2>6, <3>1
    <3> HIDE DEF Second
    <3>3. QED
      BY <2>4, <3>2
  <2>7. QED
    BY <2>2, <2>5, <2>6
<1>11. \A i \in DOMAIN o : o[i].id \in Known(s) /\ o[i] \in Range(s)
  BY <1>1 DEF Known, Range
<1>12. Range(t) \subseteq Known(s)
  <2>1. \A p \in DOMAIN t : t[p] \in Known(s)
    BY <1>9, <1>10, <1>11
  <2>2. QED
    BY <2>1 DEF Range
<1>13. ASSUME NEW p \in DOMAIN t, NEW q \in DOMAIN t, p # q, t[p] = t[q]
       PROVE  SharedRecovery(s)
  <2>1. g[p] \in DOMAIN o /\ g[q] \in DOMAIN o
    BY <1>9
  <2>2. \A r : ~(IsTimeout(r) /\ IsSuccess(r))
    BY DEF IsTimeout, IsSuccess
  <2>3. PICK k : Second(p, k)
    <3>1. SUFFICES ASSUME h[p] = 1, t[p] = o[g[p]].id PROVE FALSE
      BY <1>10
    <3>2. CASE h[q] = 1 /\ t[q] = o[g[q]].id
      <4>1. g[p] = g[q]
        BY <1>1, <1>13, <2>1, <3>1, <3>2 DEF IdsOnce
      <4>2. QED
        BY <1>9, <1>13, <3>1, <3>2, <4>1
    <3>3. CASE \E k : Second(q, k)
      <4>1. PICK k : Second(q, k)
        BY <3>3
      <4>2. g[p] = k
        BY <1>1, <1>13, <2>1, <3>1, <4>1 DEF IdsOnce
      <4>3. QED
        BY <1>10, <2>2, <4>1, <4>2
    <3>4. QED
      BY <1>10, <3>2, <3>3
  <2>4. PICK l : Second(q, l)
    <3>1. SUFFICES ASSUME h[q] = 1, t[q] = o[g[q]].id PROVE FALSE
      BY <1>10
    <3>2. g[q] = k
      BY <1>1, <1>13, <2>1, <2>3, <3>1 DEF IdsOnce
    <3>3. QED
      BY <1>10, <2>2, <2>3, <3>2
  <2>5. k = l
    BY <1>1, <1>13, <2>3, <2>4 DEF IdsOnce
  <2>6. g[p] # g[q]
    BY <1>9, <1>13, <2>3, <2>4
  <2>7. o[g[p]] # o[g[q]]
    BY <1>1, <2>1, <2>6 DEF IdsOnce
  <2>8. o[g[p]].id < o[k].id /\ o[g[q]].id < o[k].id
    BY <1>1, <2>1, <2>3, <2>4, <2>5
  <2>9. QED
    BY <1>10, <1>11, <2>1, <2>3, <2>4, <2>5, <2>7, <2>8 DEF SharedRecovery
<1>14. IsInjective(t) \/ SharedRecovery(s)
  BY <1>13 DEF IsInjective
<1>15. QED
  BY <1>2, <1>12, <1>14

LEMMA IdsOf ==
  ASSUME NEW s \in Seq(Record)
  PROVE  /\ Ids(s) \in Seq(Nat) /\ Range(Ids(s)) = Known(s)
         /\ IdsOnce(s) => IsInjective(Ids(s))
<1>1. /\ DOMAIN s = 1 .. Len(s) /\ Len(s) \in Nat
      /\ \A i \in DOMAIN s : s[i] \in Record
  BY LenProperties, ElementOfSeq
<1>2. Ids(s) \in [1 .. Len(s) -> Nat]
  BY <1>1 DEF Ids, Record
<1>3. Ids(s) \in Seq(Nat)
  BY <1>1, <1>2, SeqDef
<1>4. Range(Ids(s)) = Known(s)
  BY DEF Ids, Range, Known
<1>5. IdsOnce(s) => IsInjective(Ids(s))
  BY DEF Ids, IsInjective, IdsOnce
<1>6. QED
  BY <1>3, <1>4, <1>5

LEMMA RepeatedRunsAre ==
  ASSUME OrderedSorts(Seq(Record)), NEW s \in Seq(Record), IdsOnce(s)
  PROVE  Range(RepeatedRuns(s)) \subseteq Known(s) /\ IsInjective(RepeatedRuns(s))
<1> DEFINE o == Ordered(s)
           w == WarmRuns(o)
           warm == Ids(w)
<1>1. o \in Seq(Record) /\ IdsOnce(o) /\ Range(o) = Range(s)
  BY SortedRecords
<1> HIDE DEF o
<1>2. w \in Seq(Record) /\ IdsOnce(w) /\ Range(w) \subseteq Range(s)
  BY <1>1, OnlyRecords DEF WarmRuns
<1> HIDE DEF w
<1>3. warm \in Seq(Nat) /\ Range(warm) \subseteq Known(s) /\ IsInjective(warm)
  BY <1>2, IdsOf DEF Known
<1>4. RepeatedRuns(s) = IF warm = <<>> THEN <<>> ELSE Tail(warm)
  BY DEF RepeatedRuns, w, o
<1> HIDE DEF warm
<1>5. CASE warm = <<>>
  <2>1. RepeatedRuns(s) = <<>> /\ DOMAIN <<>> = {}
    BY <1>4, <1>5
  <2>2. QED
    BY <2>1 DEF Range, IsInjective
<1>6. CASE warm # <<>>
  <2> DEFINE t == Tail(warm)
  <2>1. /\ t \in Seq(Nat) /\ Len(t) = Len(warm) - 1
        /\ \A i \in 1 .. Len(t) : t[i] = warm[i + 1]
    BY <1>3, <1>6, HeadTailProperties
  <2>2. RepeatedRuns(s) = t
    BY <1>4, <1>6
  <2> HIDE DEF t
  <2>3. DOMAIN t = 1 .. Len(t) /\ DOMAIN warm = 1 .. Len(warm) /\ Len(warm) \in Nat
    BY <1>3, <2>1, LenProperties
  <2>4. \A i \in DOMAIN t : i \in Nat /\ i + 1 \in DOMAIN warm /\ t[i] = warm[i + 1]
    BY <2>1, <2>3
  <2>5. Range(t) \subseteq Range(warm)
    BY <2>4 DEF Range
  <2>6. ASSUME NEW i \in DOMAIN t, NEW j \in DOMAIN t, t[i] = t[j] PROVE i = j
    <3>1. i + 1 = j + 1
      BY <1>3, <2>4, <2>6 DEF IsInjective
    <3>2. QED
      BY <2>4, <3>1
  <2>7. QED
    BY <1>3, <2>2, <2>5, <2>6 DEF IsInjective
<1>7. QED
  BY <1>5, <1>6

--------------------------------------------------------------------------------
(* The store and the token events.                                          *)

TokenTest == {"token_absent_load", "token_present_load"}
TokenEvents == {e \in Event : e.test \in TokenTest}

(* The request of event e completed in the collection of e; its record is   *)
(* held by the store, no further from its end than the request is from the  *)
(* end of the history, or that is too far.                                  *)
HeldBy(h, recs, e) ==
  \E i \in DOMAIN h :
    /\ h[i].id = e.request /\ h[i].session = e.session
    /\ \/ Len(h) - i >= MaxRecords
       \/ \E k \in DOMAIN recs : /\ recs[k].id = e.request /\ recs[k].session = e.session
                                 /\ Len(recs) - k <= Len(h) - i

TokensOnce == OnceIn(events, TokenEvents)
TokensAreHeld == \A e \in Range(events) : e.test \in TokenTest => HeldBy(history, records, e)
StoreInv ==
  /\ TokensOnce /\ TokensAreHeld
  /\ session # None => BindsItsOwn
  /\ InvalidOnlyIfExplained

(* A push moves every record of the store at most as far from the end as    *)
(* the end of the run moves its request in the history.                     *)
LEMMA HeldOn ==
  ASSUME NEW h \in Seq(Record), NEW recs \in Seq(Record), NEW r \in Record,
         NEW written \in {<<>>, <<r>>}, NEW e, HeldBy(h, recs, e)
  PROVE  HeldBy(Append(h, r), PushAll(recs, written), e)
<1> DEFINE g == Append(h, r)
           all == recs \o written
           kept == LastElements(all, MaxRecords)
<1>1. /\ g \in Seq(Record) /\ Len(g) = Len(h) + 1
      /\ \A i \in 1 .. Len(h) : g[i] = h[i]
  BY AppendProperties
<1>2. /\ DOMAIN h = 1 .. Len(h) /\ DOMAIN g = 1 .. Len(g) /\ Len(h) \in Nat
      /\ DOMAIN recs = 1 .. Len(recs) /\ Len(recs) \in Nat
  BY <1>1, LenProperties
<1> HIDE DEF g
<1>3. /\ all \in Seq(Record) /\ Len(recs) <= Len(all) /\ Len(all) <= Len(recs) + 1
      /\ \A k \in DOMAIN recs : all[k] = recs[k]
  <2>1. written \in Seq(Record) /\ Len(written) \in {0, 1}
    <3>1. <<>> \in Seq(Record) /\ Len(<<>>) = 0
      BY EmptySeq
    <3>2. <<r>> \in Seq(Record) /\ Len(<<r>>) = 1
      OBVIOUS
    <3>3. QED
      BY <3>1, <3>2
  <2>2. /\ all \in Seq(Record) /\ Len(all) = Len(recs) + Len(written)
        /\ \A k \in 1 .. Len(recs) + Len(written) :
             all[k] = IF k <= Len(recs) THEN recs[k] ELSE written[k - Len(recs)]
    BY <2>1, ConcatProperties
  <2> HIDE DEF all
  <2>3. QED
    BY <1>2, <2>1, <2>2
<1> HIDE DEF all
<1>4. PushAll(recs, written) = kept /\ MaxRecords \in Nat \ {0}
  BY CollectionAssumption DEF PushAll, LastElements, all
<1>5. /\ kept \in Seq(Record)
      /\ \E d \in Nat : /\ Len(kept) + d = Len(all) /\ (d # 0 => Len(kept) = MaxRecords)
                        /\ \A i \in DOMAIN kept : i + d \in DOMAIN all /\ kept[i] = all[i + d]
  <2>1. kept \in Seq(Record)
    BY <1>3, <1>4, LastOf
  <2>2. QED
    BY <1>3, <1>4, <2>1, LastAre
<1> HIDE DEF kept
<1>6. PICK d \in Nat : /\ Len(kept) + d = Len(all) /\ (d # 0 => Len(kept) = MaxRecords)
                       /\ \A i \in DOMAIN kept : i + d \in DOMAIN all /\ kept[i] = all[i + d]
  BY <1>5
<1>7. DOMAIN kept = 1 .. Len(kept) /\ Len(kept) \in Nat
  BY <1>5, LenProperties
<1>8. PICK i \in DOMAIN h :
        /\ h[i].id = e.request /\ h[i].session = e.session
        /\ \/ Len(h) - i >= MaxRecords
           \/ \E k \in DOMAIN recs : /\ recs[k].id = e.request /\ recs[k].session = e.session
                                     /\ Len(recs) - k <= Len(h) - i
  BY DEF HeldBy
<1>9. i \in DOMAIN g /\ g[i].id = e.request /\ g[i].session = e.session /\ i \in Nat
  BY <1>1, <1>2, <1>8
<1>10. ASSUME NEW k \in DOMAIN recs, recs[k].id = e.request, recs[k].session = e.session,
              Len(recs) - k <= Len(h) - i
       PROVE  \/ Len(g) - i >= MaxRecords
              \/ \E l \in DOMAIN kept : /\ kept[l].id = e.request
                                        /\ kept[l].session = e.session
                                        /\ Len(kept) - l <= Len(g) - i
  <2>1. k \in Nat /\ 1 <= k /\ k <= Len(recs) /\ all[k] = recs[k]
    BY <1>2, <1>3, <1>10
  <2>2. CASE d < k
    <3> DEFINE l == k - d
    <3>1. l \in DOMAIN kept /\ l + d = k
      BY <1>3, <1>6, <1>7, <2>1, <2>2
    <3>2. Len(kept) - l <= Len(g) - i
      BY <1>1, <1>2, <1>3, <1>6, <1>7, <1>9, <1>10, <2>1, <2>2
    <3> HIDE DEF l
    <3>3. kept[l] = recs[k]
      BY <1>6, <2>1, <3>1
    <3>4. QED
      BY <1>10, <3>1, <3>2, <3>3
  <2>3. CASE ~(d < k)
    <3>1. Len(kept) = MaxRecords
      BY <1>6, <2>1, <2>3
    <3>2. QED
      BY <1>1, <1>2, <1>3, <1>4, <1>6, <1>7, <1>9, <1>10, <2>1, <2>3, <3>1
  <2>4. QED
    BY <2>2, <2>3
<1>11. Len(h) - i >= MaxRecords => Len(g) - i >= MaxRecords
  BY <1>1, <1>2, <1>4, <1>9
<1>12. HeldBy(g, kept, e)
  <2>1. \/ Len(g) - i >= MaxRecords
        \/ \E l \in DOMAIN kept : /\ kept[l].id = e.request
                                  /\ kept[l].session = e.session
                                  /\ Len(kept) - l <= Len(g) - i
    BY <1>8, <1>10, <1>11
  <2>2. QED
    BY <1>9, <2>1 DEF HeldBy
<1>13. QED
  BY <1>4, <1>12 DEF g

(* A success records the load of the pipeline at most once.                 *)
LEMMA LoadsOnce ==
  ASSUME NEW f, NEW record, NEW newRecords
  PROVE  /\ SuccessTests(f, record, newRecords) \in Seq(Test)
         /\ OnceIn(SuccessTests(f, record, newRecords), TokenTest)
<1> DEFINE warm == Len(WarmRuns(InCollection(newRecords, f.session)))
           load == IF tokenPresent THEN "token_present_load" ELSE "token_absent_load"
           If(condition, test) == IF condition THEN <<test>> ELSE <<>>
           Few(s) == s \in Seq(Test) /\ OnceIn(s, TokenTest)
           Other(s) == Few(s) /\ TokenTest \cap Range(s) = {}
           a == If(record.constructed, "cold_forecast")
           b == If(record.constructed, load)
           c == If(~record.constructed /\ warm < 3, "warm_forecast")
           d == If(~record.constructed /\ warm >= 3, Repeats)
           e == If(pendingTimeout[f.browser] = f.session, Recovery)
           g == If(pendingFailure[f.browser] = f.session, "recoverable_failure")
<1>1. SuccessTests(f, record, newRecords) = a \o b \o c \o d \o e \o g
  BY DEF SuccessTests, Recovery, Repeats
<1>2. load \in Test
  BY DEF Test
<1>3. {"cold_forecast", "warm_forecast", Repeats, Recovery, "recoverable_failure"}
        \subseteq Test \ TokenTest
  BY DEF Test, TokenTest, Repeats, Recovery
<1> HIDE DEF load, warm
<1>4. ASSUME NEW condition, NEW test \in Test
      PROVE  /\ Few(If(condition, test))
             /\ test \notin TokenTest => Other(If(condition, test))
  <2> DEFINE s == If(condition, test)
  <2>1. s \in Seq(Test) /\ OnceIn(s, TokenTest) /\ Range(s) \subseteq {test}
    BY OnceAtMost
  <2> HIDE DEF s
  <2>2. Few(s) /\ (test \notin TokenTest => Other(s))
    BY <2>1
  <2>3. QED
    BY <2>2 DEF s
<1>5. Few(b)
  BY <1>2, <1>4
<1>6. Other(a) /\ Other(c) /\ Other(d) /\ Other(e) /\ Other(g)
  BY <1>3, <1>4
<1>7. ASSUME NEW s, NEW t, Few(s), Few(t), Other(s) \/ Other(t)
      PROVE  Few(s \o t)
  <2>1. TokenTest \cap Range(s) \cap Range(t) = {}
    BY <1>7
  <2>2. s \o t \in Seq(Test)
    BY <1>7, ConcatProperties
  <2>3. OnceIn(s \o t, TokenTest)
    BY <1>7, <2>1, OnceJoined
  <2>4. QED
    BY <2>2, <2>3
<1> HIDE DEF a, b, c, d, e, g, Other
<1>8. Few(a) /\ Few(c) /\ Few(d) /\ Few(e) /\ Few(g)
  BY <1>6 DEF Other
<1> HIDE DEF Few
<1>9. Few(a \o b)
  BY <1>5, <1>6, <1>7, <1>8
<1>10. Few(a \o b \o c)
  BY <1>6, <1>7, <1>8, <1>9
<1>11. Few(a \o b \o c \o d)
  BY <1>6, <1>7, <1>8, <1>10
<1>12. Few(a \o b \o c \o d \o e)
  BY <1>6, <1>7, <1>8, <1>11
<1>13. Few(a \o b \o c \o d \o e \o g)
  BY <1>6, <1>7, <1>8, <1>12
<1>14. QED
  BY <1>1, <1>13 DEF Few

(* What a run that ends pushes onto the events of the store.                *)
LEMMA FinishPushes ==
  ASSUME NEW f \in PageRun, NEW outcome, Finish(f, outcome)
  PROVE  \E new \in Seq(Event) :
           /\ events' = PushAll(events, new) /\ OnceIn(new, TokenEvents)
           /\ \A e \in Range(new) : e.request = f.id /\ ~f.stopped
<1> DEFINE record == [id |-> f.id, session |-> f.session, outcome |-> outcome,
                      constructed |-> outcome = "success" /\ ~loaded, seen |-> started]
           newRecords == PushAll(records, Written(f, record))
           recorded == CASE outcome = "success" -> SuccessTests(f, record, newRecords)
                         [] outcome \in {"CoordinatorTimeoutError", "AdapterError"}
                                                -> <<"configuration_preserved">>
                         [] OTHER               -> <<>>
           tests == IF f.stopped THEN <<>> ELSE recorded
           new == EventsFor(f, tests)
           Few(s) == s \in Seq(Test) /\ OnceIn(s, TokenTest)
<1>1. events' = PushAll(events, new)
  BY DEF Finish, Conclude
<1> HIDE DEF record, newRecords
<1>2. Few(<<>>) /\ Few(<<"configuration_preserved">>)
  <2>1. <<>> \in Seq(Test) /\ DOMAIN <<>> = {}
    BY EmptySeq
  <2>2. /\ <<"configuration_preserved">> \in Seq(Test)
        /\ DOMAIN <<"configuration_preserved">> = {1}
    BY DEF Test
  <2>3. QED
    BY <2>1, <2>2 DEF OnceIn
<1>3. Few(SuccessTests(f, record, newRecords))
  BY LoadsOnce
<1>4. Few(recorded)
  <2> HIDE DEF Few
  <2>1. CASE outcome = "success"
    BY <1>3, <2>1
  <2>2. CASE outcome \in {"CoordinatorTimeoutError", "AdapterError"}
    <3>1. recorded = <<"configuration_preserved">>
      BY <2>2
    <3> HIDE DEF recorded
    <3>2. QED
      BY <1>2, <3>1
  <2>3. CASE outcome # "success" /\ outcome \notin {"CoordinatorTimeoutError", "AdapterError"}
    <3>1. recorded = <<>>
      BY <2>3
    <3> HIDE DEF recorded
    <3>2. QED
      BY <1>2, <3>1
  <2>4. QED
    BY <2>1, <2>2, <2>3
<1> HIDE DEF recorded
<1>5. Few(tests) /\ (f.stopped => tests = <<>>)
  BY <1>2, <1>4
<1> HIDE DEF tests
<1>6. DOMAIN tests = 1 .. Len(tests) /\ DOMAIN new = DOMAIN tests
      /\ \A i \in DOMAIN tests :
           new[i] = [test |-> tests[i], session |-> f.session, request |-> f.id]
  BY <1>5, LenProperties DEF EventsFor
<1>7. new \in Seq(Event)
  BY <1>5, EventsForTests
<1> HIDE DEF new
<1>8. OnceIn(new, TokenEvents)
  <2>1. ASSUME NEW i \in DOMAIN new, NEW j \in DOMAIN new, new[i] \in TokenEvents,
               new[i] = new[j]
        PROVE  i = j
    <3>1. tests[i] \in TokenTest /\ tests[i] = tests[j]
      BY <1>6, <2>1 DEF TokenEvents
    <3>2. QED
      BY <1>5, <1>6, <2>1, <3>1 DEF OnceIn
  <2>2. QED
    BY <2>1 DEF OnceIn
<1>9. \A e \in Range(new) : e.request = f.id /\ ~f.stopped
  <2>1. ASSUME NEW e \in Range(new) PROVE e.request = f.id /\ ~f.stopped
    <3>1. PICK i \in DOMAIN new : e = new[i]
      BY <2>1 DEF Range
    <3>2. tests # <<>>
      BY <1>6, <3>1, EmptySeq
    <3>3. QED
      BY <1>5, <1>6, <3>1, <3>2
  <2>2. QED
    BY <2>1
<1>10. QED
  BY <1>1, <1>7, <1>8, <1>9

LEMMA PushesKeepOnce ==
  ASSUME NEW evs \in Seq(Event), NEW new \in Seq(Event), OnceIn(evs, TokenEvents),
         OnceIn(new, TokenEvents), TokenEvents \cap Range(evs) \cap Range(new) = {}
  PROVE  OnceIn(PushAll(evs, new), TokenEvents)
<1> DEFINE all == evs \o new
<1>1. all \in Seq(Event) /\ OnceIn(all, TokenEvents)
  BY OnceJoined, ConcatProperties
<1>2. PushAll(evs, new) = LastElements(all, MaxRecords) /\ MaxRecords \in Nat \ {0}
  BY CollectionAssumption DEF PushAll, LastElements
<1> HIDE DEF all
<1>3. QED
  BY <1>1, <1>2, OnceLast

(* An event of the environment is no token event.                           *)
LEMMA RecordOnceKeepsOnce ==
  ASSUME NEW evs \in Seq(Event), OnceIn(evs, TokenEvents), NEW c \in CollectionId,
         NEW test \in Test, test \notin TokenTest
  PROVE  OnceIn(RecordOnce(evs, c, test), TokenEvents)
<1> DEFINE new == [test |-> test, session |-> c, request |-> None]
<1>1. new \in Event /\ new \notin TokenEvents
  BY DEF Event, TokenEvents
<1>2. RecordOnce(evs, c, test) = evs \/ RecordOnce(evs, c, test) = PushAll(evs, <<new>>)
  BY DEF RecordOnce
<1> HIDE DEF new
<1>3. <<new>> \in Seq(Event) /\ Range(<<new>>) = {new} /\ DOMAIN <<new>> = {1}
  BY <1>1 DEF Range
<1>4. OnceIn(<<new>>, TokenEvents)
  BY <1>3 DEF OnceIn
<1>5. QED
  BY <1>1, <1>2, <1>3, <1>4, PushesKeepOnce

(* A step that completes no request and loses no record, or everything.     *)
LEMMA StoreStays ==
  ASSUME StoreInv, UNCHANGED <<records, history>>,
         OnceIn(events', TokenEvents),
         \A e \in Range(events') : e.test \in OfARun => e \in Range(events)
  PROVE  TokensOnce' /\ TokensAreHeld'
BY DEF StoreInv, TokensOnce, TokensAreHeld, TokenTest, OfARun

LEMMA RenderedKeepsOnce ==
  ASSUME TypeOK, TokensOnce, NEW b \in Browser
  PROVE  /\ OnceIn(Rendered(b), TokenEvents)
         /\ OnceIn(RecordOnce(Rendered(b), Collection(b), "two_session_concurrency"),
                   TokenEvents)
<1>1. Collection(b) \in CollectionId /\ Rendered(b) \in Seq(Event)
  BY RenderedClaimsNothing
<1>2. {"pip_check", "two_session_concurrency"} \subseteq Test \ TokenTest
  BY DEF Test, TokenTest
<1>3. OnceIn(Rendered(b), TokenEvents)
  BY <1>1, <1>2, RecordOnceKeepsOnce DEF TypeOK, TokensOnce, Rendered
<1>4. QED
  BY <1>1, <1>2, <1>3, RecordOnceKeepsOnce

LEMMA FinishStore ==
  ASSUME TypeOK, EvidenceInv, StoreInv, NEW f \in running, NEW outcome \in Outcomes,
         Finish(f, outcome)
  PROVE  TokensOnce' /\ TokensAreHeld'
<1> DEFINE record == RecordOf(f, outcome)
           written == Written(f, record)
<1>1. /\ record \in Record /\ history' = Append(history, record)
      /\ records' = PushAll(records, written) /\ events' \in Seq(Event)
      /\ \A e \in Range(events') :
           \/ e \in Range(events)
           \/ /\ e.session = f.session /\ e.request = f.id
              /\ e.test \in OfARun => outcome = "success" /\ Earned(f, records', e.test)
  BY FinishAdds
<1>2. f \in PageRun /\ f.id \notin Known(history)
  BY DEF TypeOK, EvidenceInv, RunningAreNew
<1>3. PICK new \in Seq(Event) :
        /\ events' = PushAll(events, new) /\ OnceIn(new, TokenEvents)
        /\ \A e \in Range(new) : e.request = f.id /\ ~f.stopped
  BY <1>2, FinishPushes
<1>4. /\ record.id = f.id /\ record.session = f.session /\ record.outcome = outcome
      /\ written \in {<<>>, <<record>>}
      /\ ~f.stopped => written = <<record>>
  BY DEF RecordOf, Written
<1> HIDE DEF record, written
<1>5. TokenEvents \cap Range(events) \cap Range(new) = {}
  <2>1. \A e \in Range(events) : e.test \in TokenTest => e.request \in Absent \cup Present
    BY DEF TokenTest, Absent, Present, Naming
  <2>2. \A e \in TokenEvents \cap Range(events) : e.request \in Known(history)
    BY <2>1 DEF EvidenceInv, TokensApart, TokenEvents
  <2>3. QED
    BY <1>2, <1>3, <2>2
<1>6. TokensOnce'
  BY <1>3, <1>5, PushesKeepOnce DEF TypeOK, StoreInv, TokensOnce
<1>7. Range(events') \subseteq Range(events) \cup Range(new)
  BY <1>3, PushAllKeeps DEF TypeOK
<1>8. ASSUME NEW e \in Range(events'), e.test \in TokenTest
      PROVE  HeldBy(history', records', e)
  <2>1. CASE e \in Range(events)
    <3>1. HeldBy(history, records, e)
      BY <1>8, <2>1 DEF StoreInv, TokensAreHeld
    <3>2. history \in Seq(Record) /\ records \in Seq(Record)
      BY DEF TypeOK, EvidenceInv, KeptIsOfHistory
    <3>3. QED
      BY <1>1, <1>4, <3>1, <3>2, HeldOn
  <2>2. CASE e \notin Range(events)
    <3>1. e.session = f.session /\ e.request = f.id /\ ~f.stopped
      BY <1>1, <1>3, <1>7, <2>2
    <3>2. written = <<record>>
      BY <1>4, <3>1
    <3> DEFINE all == records \o <<record>>
               kept == LastElements(all, MaxRecords)
               i == Len(history')
               k == Len(kept)
    <3>3. /\ i \in DOMAIN history' /\ history'[i] = record /\ i \in Nat
      <4>1. /\ history' \in Seq(Record) /\ Len(history') = Len(history) + 1
            /\ history'[Len(history) + 1] = record
        BY <1>1, AppendProperties DEF TypeOK
      <4>2. DOMAIN history' = 1 .. Len(history') /\ Len(history) \in Nat
        BY <4>1, LenProperties DEF TypeOK
      <4>3. QED
        BY <4>1, <4>2
    <3>4. /\ all \in Seq(Record) /\ Len(all) \in Nat \ {0} /\ all[Len(all)] = record
      <4>1. records \in Seq(Record)
        BY DEF EvidenceInv, KeptIsOfHistory
      <4>2. all = Append(records, record)
        BY <4>1, AppendIsConcat
      <4>3. /\ Append(records, record) \in Seq(Record)
            /\ Len(Append(records, record)) = Len(records) + 1
            /\ Append(records, record)[Len(records) + 1] = record
        BY <1>1, <4>1, AppendProperties
      <4>4. Len(records) \in Nat
        BY <4>1, LenProperties
      <4> HIDE DEF all
      <4>5. QED
        BY <4>2, <4>3, <4>4
    <3>5. records' = kept /\ MaxRecords \in Nat \ {0}
      BY <1>1, <3>2, CollectionAssumption DEF PushAll, LastElements
    <3> HIDE DEF all
    <3>6. all # <<>>
      BY <3>4, EmptySeq
    <3>7. kept \in Seq(Record) /\ k \in Nat \ {0} /\ kept[k] = record
      <4>1. kept \in Seq(Record) /\ Len(kept) \in Nat \ {0}
            /\ kept[Len(kept)] = all[Len(all)]
        BY <3>4, <3>5, <3>6, LastOf
      <4> HIDE DEF kept
      <4>2. QED
        BY <3>4, <4>1
    <3> HIDE DEF kept
    <3>8. k \in DOMAIN kept /\ Len(kept) - k <= i - i
      <4>1. DOMAIN kept = 1 .. Len(kept)
        BY <3>7, LenProperties
      <4>2. QED
        BY <3>3, <3>7, <4>1
    <3>9. \E j \in DOMAIN records' :
            /\ records'[j].id = e.request /\ records'[j].session = e.session
            /\ Len(records') - j <= Len(history') - i
      BY <1>4, <3>1, <3>5, <3>7, <3>8
    <3> HIDE DEF i, k
    <3>10. QED
      BY <1>4, <3>1, <3>3, <3>9 DEF HeldBy
  <2>3. QED
    BY <2>1, <2>2
<1>9. QED
  BY <1>6, <1>8 DEF TokensAreHeld

(* Finalise keeps the store and binds what it was asked for; what it lists  *)
(* twice, or lists without a record, is explained.                          *)
LEMMA FinaliseStore ==
  ASSUME OrderedSorts(Seq(Record)), TypeOK, EvidenceInv, EvidenceInv', StoreInv,
         NEW b \in Browser, NEW peer \in Browser \cup {Nobody}, NEW import \in BOOLEAN,
         peer # b, Finalise(b, peer, import)
  PROVE  StoreInv'
<1> DEFINE cohort == CohortShown(b, peer, import)
           Tokens(group, test) == TokensShown(b, peer, import, group, test)
           ids == session'.ids
<1>1. /\ import => bundle # None /\ Valid(bundle)
      /\ events' = EventsAfter(b, peer)
      /\ UNCHANGED <<records, bundle, history>>
      /\ session'.cohort = cohort
      /\ session'.named = NamedBy(b, peer) /\ session'.imported = import
  BY FinaliseShows
<1>2. /\ ids["request_ids"] = Ids(cohort)
      /\ ids["token_absent_execution_ids"]
           = Tokens("token_absent_execution_ids", "token_absent_load")
      /\ ids["token_present_execution_ids"]
           = Tokens("token_present_execution_ids", "token_present_load")
      /\ ids["repeated_run_ids"] = RepeatedRuns(cohort)
      /\ ids["concurrency_request_ids"] = ConcurrentRequests(cohort)
      /\ ids["timeout_recovery_ids"] = TimeoutRecoveries(cohort)
  BY FinaliseShows
<1>3. TypeOK /\ TokensOnce /\ records \in Seq(Record) /\ IdsOnce(records)
  BY DEF StoreInv, EvidenceInv, KeptIsOfHistory
<1>4. /\ Collection(b) \in CollectionId /\ events' \in Seq(Event)
      /\ OnceIn(events', TokenEvents)
      /\ \A e \in Range(events') : e.test \in OfARun => e \in Range(events)
  <2>1. "two_session_concurrency" \in Test /\ "two_session_concurrency" \notin OfARun
    BY DEF Test, Recovery, Repeats, OfARun
  <2>2. \/ events' = Rendered(b)
        \/ events' = RecordOnce(Rendered(b), Collection(b), "two_session_concurrency")
    BY <1>1 DEF EventsAfter
  <2>3. QED
    BY <1>3, <2>1, <2>2, RenderedClaimsNothing, RecordOnceClaimsNothing, RenderedKeepsOnce
<1>5. TokensOnce' /\ TokensAreHeld'
  BY <1>1, <1>4, StoreStays
<1>6. /\ OwnCohort(b, peer) \in Seq(Record) /\ IdsOnce(OwnCohort(b, peer))
      /\ \A r \in Range(records) :
           r.session = Collection(b) => r.id \in Known(OwnCohort(b, peer))
      /\ \A r \in Range(OwnCohort(b, peer)) :
           r \in Range(records) /\ r.session \in NamedBy(b, peer)
  BY <1>3, CohortIsKept DEF OwnCohort, Known
<1>7. /\ cohort \in Seq(Record) /\ IdsOnce(cohort)
      /\ import => Known(cohort) = Known(OwnCohort(b, peer)) \cup Known(bundle.cohort)
      /\ ~import => Known(cohort) = Known(OwnCohort(b, peer))
  <2>1. CASE import
    <3>1. bundle # None /\ cohort = Merge(OwnCohort(b, peer), bundle.cohort)
      BY <1>1, <2>1 DEF CohortShown
    <3>2. bundle.cohort \in Seq(Record) /\ IdsOnce(bundle.cohort)
      BY <3>1 DEF EvidenceInv, KeptIsOfHistory, Shown
    <3> HIDE DEF cohort
    <3>3. /\ cohort \in Seq(Record) /\ IdsOnce(cohort)
          /\ Known(cohort) = Known(OwnCohort(b, peer)) \cup Known(bundle.cohort)
      BY <1>6, <3>1, <3>2, MergeIsOnce
    <3>4. QED
      BY <2>1, <3>3
  <2>2. CASE ~import
    <3>1. cohort = OwnCohort(b, peer)
      BY <2>2 DEF CohortShown
    <3> HIDE DEF cohort
    <3>2. QED
      BY <1>6, <2>2, <3>1
  <2>3. QED
    BY <2>1, <2>2
<1> DEFINE Bindable(id) == \/ CompletedIn(id, NamedBy(b, peer))
                           \/ import /\ BoundByBundle(id)
<1> HIDE DEF cohort, ids
<1>8. ASSUME NEW id \in Known(cohort) PROVE Bindable(id)
  <2>1. ASSUME id \in Known(OwnCohort(b, peer)) PROVE CompletedIn(id, NamedBy(b, peer))
    <3>1. PICK r \in Range(OwnCohort(b, peer)) : r.id = id
      BY <2>1 DEF Known
    <3>2. r \in Range(history) /\ r.session \in NamedBy(b, peer)
      BY <1>6 DEF EvidenceInv, KeptIsOfHistory, Kept
    <3>3. QED
      BY <3>1, <3>2 DEF CompletedIn, Range
  <2>2. ASSUME import, id \in Known(bundle.cohort) PROVE BoundByBundle(id)
    <3>1. /\ bundle # None /\ bundle.cohort \in Seq(Record) /\ IdsOnce(bundle.cohort)
          /\ bundle.ids["request_ids"] = Ids(bundle.cohort)
      BY <1>1, <2>2 DEF EvidenceInv, KeptIsOfHistory, Shown
    <3>2. QED
      BY <2>2, <3>1, IdsOf DEF BoundByBundle
  <2>3. QED
    BY <1>7, <1>8, <2>1, <2>2
<1>9. /\ IsInjective(ids["request_ids"]) /\ Range(ids["request_ids"]) = Known(cohort)
      /\ Range(ids["repeated_run_ids"]) \subseteq Known(cohort)
      /\ IsInjective(ids["repeated_run_ids"])
      /\ Range(ids["timeout_recovery_ids"]) \subseteq Known(cohort)
      /\ IsInjective(ids["timeout_recovery_ids"]) \/ SharedRecovery(cohort)
  BY <1>2, <1>7, IdsOf, RepeatedRunsAre, TimeoutRecoveriesAre
<1>10. /\ IsInjective(ids["concurrency_request_ids"])
      /\ Range(ids["concurrency_request_ids"]) \subseteq Known(cohort)
  <2>1. Overlapping(cohort) \subseteq DOMAIN cohort
    BY DEF Overlapping
  <2>2. QED
    BY <1>2, <1>7, <2>1, ConcurrentRequestsAre DEF Known, Range
<1>11. ASSUME NEW group \in {"token_absent_execution_ids", "token_present_execution_ids"},
              NEW test \in TokenTest, ids[group] = Tokens(group, test)
       PROVE  /\ IsInjective(ids[group])
              /\ \A id \in Range(ids[group]) : Bindable(id)
              /\ \A id \in Range(ids[group]) \ Known(cohort) : Overrun(id)
  <2> DEFINE own == OwnTokens(b, peer, test)
             OfTest == {e \in Event : e.test = test}
  <2>1. OnceIn(events', OfTest)
    <3>1. OfTest \subseteq TokenEvents
      BY DEF TokenEvents
    <3>2. QED
      BY <1>4, <3>1 DEF OnceIn
  <2>2. /\ own \in Executions /\ IsInjective(own)
        /\ \A id \in Range(own) :
             \E e \in Range(events') :
               e.test = test /\ e.session = Collection(b) /\ e.request = id
    <3>1. own = TokenIds(InCollection(events', Collection(b)), test)
      BY <1>1 DEF OwnTokens
    <3> HIDE DEF own
    <3>2. QED
      BY <1>4, <2>1, <3>1, TokenIdsOf
  <2> HIDE DEF own
  <2>3. ASSUME NEW id \in Range(own)
        PROVE  CompletedIn(id, NamedBy(b, peer)) /\ (id \notin Known(cohort) => Overrun(id))
    <3>1. PICK e \in Range(events') :
            e.test = test /\ e.session = Collection(b) /\ e.request = id
      BY <2>2, <2>3
    <3>2. HeldBy(history, records, e)
      BY <1>4, <3>1 DEF StoreInv, TokensAreHeld, TokenTest, OfARun
    <3>3. PICK i \in DOMAIN history :
            /\ history[i].id = id /\ history[i].session = Collection(b)
            /\ \/ Len(history) - i >= MaxRecords
               \/ \E k \in DOMAIN records : /\ records[k].id = id
                                            /\ records[k].session = Collection(b)
      BY <3>1, <3>2 DEF HeldBy
    <3>4. ASSUME id \notin Known(cohort), NEW k \in DOMAIN records, records[k].id = id,
                 records[k].session = Collection(b)
          PROVE  FALSE
      <4>1. records[k] \in Range(records)
        BY DEF Range
      <4>2. QED
        BY <1>6, <1>7, <2>3, <3>4, <4>1
    <3>5. id \notin Known(cohort) => Overrun(id)
      BY <3>3, <3>4 DEF Overrun
    <3>6. CompletedIn(id, NamedBy(b, peer))
      BY <3>3 DEF CompletedIn, NamedBy
    <3>7. QED
      BY <3>5, <3>6
  <2>4. CASE import
    <3> DEFINE imported == bundle.ids[group]
    <3>1. bundle # None /\ Valid(bundle) /\ ids[group] = Distinct(own \o imported)
      BY <1>1, <1>11, <2>4 DEF TokensShown, own
    <3>2. imported \in Executions /\ bundle.ids["request_ids"] = Ids(bundle.cohort)
          /\ bundle.cohort \in Seq(Record)
      BY <3>1 DEF EvidenceInv, KeptIsOfHistory, Shown
    <3>3. Range(imported) \subseteq Known(bundle.cohort)
      <4>1. group \in Groups /\ group \notin OrphansIn(bundle.ids)
        BY <3>1 DEF Valid, Groups
      <4>2. Range(bundle.ids[group]) \subseteq Range(bundle.ids["request_ids"])
        BY <4>1 DEF OrphansIn
      <4>3. QED
        BY <3>2, <4>2, IdsOf
    <3> HIDE DEF imported
    <3>4. own \o imported \in Executions
          /\ Range(own \o imported) = Range(own) \cup Range(imported)
      BY <2>2, <3>2, ConcatProperties, RangeConcatenation DEF Executions
    <3>5. /\ IsInjective(ids[group])
          /\ Range(ids[group]) \subseteq Range(own) \cup Range(imported)
      BY <3>1, <3>4, DistinctOf
    <3>6. QED
      BY <1>7, <1>8, <2>3, <2>4, <3>3, <3>5
  <2>5. CASE ~import
    <3>1. ids[group] = own
      BY <1>11, <2>5 DEF TokensShown, own
    <3>2. QED
      BY <2>2, <2>3, <3>1
  <2>6. QED
    BY <2>4, <2>5
<1>12. \A group \in {"token_absent_execution_ids", "token_present_execution_ids"} :
         /\ IsInjective(ids[group])
         /\ \A id \in Range(ids[group]) : Bindable(id)
         /\ \A id \in Range(ids[group]) \ Known(cohort) : Overrun(id)
  <2> HIDE DEF Tokens, Bindable
  <2>1. QED
    BY <1>2, <1>11 DEF TokenTest
<1>13. RepeatedIn(ids) # {} => RepeatedIn(ids) = {"timeout_recovery_ids"} /\ SharedRecovery(cohort)
  BY <1>9, <1>10, <1>12 DEF RepeatedIn, Groups
<1>14. ASSUME NEW g \in Groups, NEW id \in Range(ids[g]) \ Range(ids["request_ids"])
       PROVE  Overrun(id)'
  <2>1. Overrun(id)
    BY <1>9, <1>10, <1>12, <1>14 DEF Groups
  <2>2. QED
    BY <1>1, <2>1 DEF Overrun
<1>15. InvalidOnlyIfExplained'
  BY <1>1, <1>13, <1>14 DEF InvalidOnlyIfExplained, ids
<1>16. BindsItsOwn'
  <2>1. ASSUME NEW g \in Groups, NEW id \in Range(ids[g]) PROVE Bindable(id)
    <3> HIDE DEF Bindable
    <3>1. QED
      BY <1>9, <1>10, <1>12, <1>8, <2>1 DEF Groups
  <2> DEFINE named == NamedBy(b, peer)
             now == session'
  <2>2. ASSUME NEW id, Bindable(id)
        PROVE  \/ \E i \in DOMAIN history' : history'[i].id = id /\ history'[i].session \in named
               \/ import /\ BoundByBundle(id)'
    BY <1>1, <2>2 DEF CompletedIn, BoundByBundle
  <2>3. now.named = named /\ now.imported = import /\ now.ids = ids
    BY <1>1 DEF ids
  <2> HIDE DEF named, Bindable
  <2>4. \A g \in Groups : \A id \in Range(now.ids[g]) :
          \/ \E i \in DOMAIN history' : history'[i].id = id /\ history'[i].session \in now.named
          \/ now.imported /\ BoundByBundle(id)'
    BY <2>1, <2>2, <2>3
  <2>5. QED
    BY <2>4 DEF BindsItsOwn, CompletedIn
<1>17. QED
  BY <1>5, <1>15, <1>16 DEF StoreInv

(* The store, what its token events name and what a session record binds,   *)
(* in every state.                                                          *)
THEOREM StoreInvariant == ASSUME OrderedSorts(Seq(Record)) PROVE Spec => []StoreInv
<1>1. Init => StoreInv
  <2> SUFFICES ASSUME Init PROVE StoreInv
    OBVIOUS
  <2>1. events = <<>> /\ DOMAIN <<>> = {} /\ Range(events) = {} /\ session = None
    BY EmptySeq DEF Init, Range
  <2>2. QED
    BY <2>1 DEF StoreInv, TokensOnce, OnceIn, TokensAreHeld, InvalidOnlyIfExplained
<1>2. IInv /\ EvidenceInv /\ EvidenceInv' /\ StoreInv /\ [Next]_vars => StoreInv'
  <2> SUFFICES ASSUME IInv, EvidenceInv, EvidenceInv', StoreInv, [Next]_vars
               PROVE  StoreInv'
    OBVIOUS
  <2>1. TypeOK /\ TokensOnce
    BY DEF IInv, StoreInv
  <2>2. ASSUME session' = None PROVE (session # None => BindsItsOwn)' /\ InvalidOnlyIfExplained'
    BY <2>2 DEF InvalidOnlyIfExplained
  <2>3. ASSUME UNCHANGED <<records, events, history>> PROVE TokensOnce' /\ TokensAreHeld'
    BY <2>3 DEF StoreInv, TokensOnce, TokensAreHeld
  <2>4. ASSUME NEW b \in Browser, Start(b) PROVE StoreInv'
    <3>1. session' = None /\ UNCHANGED <<records, events, history>>
      BY <2>4 DEF Start, store
    <3>2. QED
      BY <2>2, <2>3, <3>1 DEF StoreInv
  <2>5. ASSUME NEW b \in Browser, Visit(b) \/ Begin(b) PROVE StoreInv'
    <3>1. session' = None /\ events' = Rendered(b) /\ UNCHANGED <<records, history>>
      BY <2>5 DEF Visit, Begin
    <3>2. TokensOnce' /\ TokensAreHeld'
      BY <2>1, <3>1, RenderedKeepsOnce, RenderedClaimsNothing, StoreStays
    <3>3. QED
      BY <2>2, <3>1, <3>2 DEF StoreInv
  <2>6. ASSUME NEW f \in running, NEW outcome \in Outcomes, Finish(f, outcome)
        PROVE  StoreInv'
    <3>1. session' = None
      BY <2>6 DEF Finish
    <3>2. QED
      BY <2>1, <2>2, <2>6, <3>1, FinishStore DEF StoreInv
  <2>7. ASSUME NEW b \in Browser, NEW peer \in Browser \cup {Nobody}, NEW import \in BOOLEAN,
               peer # b, Finalise(b, peer, import)
        PROVE  StoreInv'
    BY <2>1, <2>7, FinaliseStore
  <2>8. CASE Download
    <3>1. session' = None /\ UNCHANGED <<records, events, history>>
      BY <2>8 DEF Download, store
    <3>2. QED
      BY <2>2, <2>3, <3>1 DEF StoreInv
  <2>9. CASE Reboot
    <3>1. events' = <<>> /\ session' = None
      BY <2>9 DEF Reboot
    <3>2. DOMAIN events' = {} /\ Range(events') = {}
      BY <3>1, EmptySeq DEF Range
    <3>3. TokensOnce' /\ TokensAreHeld'
      BY <3>2 DEF TokensOnce, OnceIn, TokensAreHeld
    <3>4. QED
      BY <2>2, <3>1, <3>3 DEF StoreInv
  <2>10. CASE UNCHANGED vars
    <3>1. UNCHANGED <<records, events, history, session, bundle>>
      BY <2>10 DEF vars, store
    <3>2. (session # None => BindsItsOwn)' /\ InvalidOnlyIfExplained'
      BY <3>1 DEF StoreInv, InvalidOnlyIfExplained, Overrun, BindsItsOwn, CompletedIn, BoundByBundle
    <3>3. QED
      BY <2>3, <3>1, <3>2 DEF StoreInv
  <2>11. QED
    BY <2>4, <2>5, <2>6, <2>7, <2>8, <2>9, <2>10 DEF Next
<1>3. QED
  BY <1>1, <1>2, InductiveInvariant, EvidenceInvariant, PTL DEF Spec

(* When the session record would not validate, it is because several        *)
(* timeouts share one recovery, or the store dropped a record while it      *)
(* still held the event of its request: no other way of collecting, merging *)
(* or importing evidence makes it invalid.  Assumes of the sort by id that  *)
(* it sorts: TLC evaluates this on short lists (RecordsAreSorted).          *)
THEOREM InvalidIsExplained ==
  ASSUME OrderedSorts(Seq(Record))
  PROVE  Spec => []InvalidOnlyIfExplained
<1>1. StoreInv => InvalidOnlyIfExplained
  BY DEF StoreInv
<1>2. QED
  BY <1>1, StoreInvariant, PTL

(* The session record lists no request twice, none that is not of a         *)
(* collection it was asked for or of the imported bundle, and no execution  *)
(* as a load under both token states (build_concurrency_cohort,             *)
(* merge_cohort_with_prior, and dict.fromkeys over the imported ids).       *)
(* Assumes the same of the sort.                                            *)
THEOREM SessionsAreCoherent ==
  ASSUME OrderedSorts(Seq(Record))
  PROVE  Spec => []SessionIsCoherent
<1>1. ASSUME EvidenceInv, StoreInv PROVE SessionIsCoherent
  <2>1. SUFFICES ASSUME session # None
                 PROVE  /\ IsInjective(session.ids["request_ids"])
                        /\ Range(session.ids["token_absent_execution_ids"]) \cap
                             Range(session.ids["token_present_execution_ids"]) = {}
    BY <1>1 DEF SessionIsCoherent, StoreInv
  <2>2. IdsOnce(session.cohort) /\ session.ids["request_ids"] = Ids(session.cohort)
    BY <1>1, <2>1 DEF EvidenceInv, KeptIsOfHistory, Shown
  <2>3. IsInjective(Ids(session.cohort))
    BY <2>2 DEF IdsOnce, Ids, IsInjective
  <2>4. /\ Range(session.ids["token_absent_execution_ids"]) \subseteq Absent
        /\ Range(session.ids["token_present_execution_ids"]) \subseteq Present
    BY <2>1 DEF Absent, Present, BoundBy
  <2>5. Absent \cap Present = {}
    BY <1>1 DEF EvidenceInv, TokensApart
  <2>6. QED
    BY <2>2, <2>3, <2>4, <2>5
<1>2. QED
  BY <1>1, EvidenceInvariant, StoreInvariant, PTL
================================================================================
