-------------------------- MODULE EvidenceBundleProofs --------------------------
(***************************************************************************)
(* Theorems about the local bundle, for any number of commits, runs and    *)
(* mishaps and whatever revision a commit pins: what the builder accepts   *)
(* was measured as it says.                                                *)
(***************************************************************************)
EXTENDS EvidenceBundle, SequenceTheorems, TLAPS

(* A run has ended when its process has; m are the runs, the last of them   *)
(* may be under way.                                                        *)
IsRunning == job # None /\ job.stage # "entered"
Ended == IF IsRunning THEN Len(made) - 1 ELSE Len(made)

(* The fields of a file of a run that matter here.                          *)
Fields == {"type", "run", "commit", "clean", "label", "success", "preflight", "unknown"}

(* The file of slot k tells of a run that has ended; a clean commit it      *)
(* quotes is none from before the run; a success is one, unless the         *)
(* benchmark's own validation has seen that it is none; and whoever says    *)
(* that the cache was empty has fetched the model.                          *)
FileGood(m, n, k, d) ==
  /\ Fields \subseteq DOMAIN d
  /\ d.run \in 1 .. n
  /\ d.type = IF k = "benchmark" THEN "benchmark_suite" ELSE "smoke_test"
  /\ k = "benchmark" => ~d.unknown
  /\ d.clean => d.commit \in Nat /\ m[d.run].commit <= d.commit
  /\ d.success =>
       /\ (k = "benchmark" => ValidateRecursive(d)) => m[d.run].exit = 0
       /\ d.preflight.label = d.label
       /\ d.label = DownloadCold /\ ~d.preflight.pre.present => m[d.run].fetched

(* A receipt quotes no commit from after its run has begun; the wrapper's   *)
(* has the exit code of its run, and if that is 0, its file.                *)
TraceGood(m, n, run, trace) ==
  run \in 1 .. n /\ (trace.clean => trace.commit \in Nat /\ trace.commit <= m[run].commit)
ReceiptGood(m, n, r) ==
  /\ r.producer \in {"wrapper", "context"} => TraceGood(m, n, r.run, r)
  /\ r.producer = "wrapper" =>
       m[r.run].exit = r.exit /\ (r.exit = 0 => r.canonical.run = r.run)

Taken == [commit : Nat, token : BOOLEAN, fetched : BOOLEAN, exit : Int]
Left == {"absent", "bare", "partial", "complete"}

CacheGood ==
  /\ cache \in [dir : BOOLEAN, of : [Revision -> Left]]
  /\ ~cache.dir => \A v \in Revision : cache.of[v] = "absent"

TypeOK ==
  /\ repo \in [commit : Commit, clean : BOOLEAN]
  /\ CacheGood
  /\ made \in Seq(Taken)
  /\ out = [k \in Slot |-> out[k]] /\ receipt = [k \in Slot |-> receipt[k]]

(* The measurement under way: what it has asked git for, before it started  *)
(* and since, and what it has seen of the cache.                            *)
JobFields == {"slot", "stage", "label", "token", "run", "code", "trace", "own", "pre",
              "failed"}
JobGood ==
  job # None =>
    /\ DOMAIN job = JobFields
    /\ job.slot \in RunSlot /\ job.token \in BOOLEAN
    /\ job.slot \in SmokeSlot => ~job.failed
    /\ job.stage \in {"entered", "started", "running", "loaded"}
    /\ job.stage = "running" => job.slot \in SmokeSlot
    /\ job.trace.clean =>
         job.trace.commit \in Nat /\ job.trace.commit <= repo.commit

RunningGood ==
  IsRunning =>
    /\ job.run = Len(made) /\ Len(made) > 0
    /\ job.code \in Commit /\ made[job.run].commit = job.code /\ job.code <= repo.commit
    /\ job.trace.clean => job.trace.commit <= job.code
    /\ job.slot \in SmokeSlot /\ job.stage # "started" /\ job.own.clean =>
         job.own.commit \in Nat /\ job.code <= job.own.commit
    /\ ~job.pre.present =>
         IF job.stage = "loaded" THEN job.failed \/ made[job.run].fetched
         ELSE cache.of[RevisionOf[job.code]] = "absent"

ContextGood ==
  context # None => TraceGood(made, Ended, context.run, context.trace)

FilesGood ==
  \A k \in RunSlot : out[k] # None => FileGood(made, Ended, k, out[k])
ReceiptsGood ==
  \A k \in Slot : receipt[k] # None => ReceiptGood(made, Ended, receipt[k])

(* A bundle is the last thing that happens.                                 *)
BundleGood ==
  bundle # None =>
    /\ job = None
    /\ MeasuredAtItsCommit /\ TokenRunsAreIndependent
    /\ OnlyCompletedRuns /\ DownloadColdIsGenuine

IInv == /\ TypeOK /\ JobGood /\ RunningGood /\ ContextGood /\ FilesGood /\ ReceiptsGood
        /\ BundleGood

--------------------------------------------------------------------------------
(* What has ended stays as it was.                                          *)

Keeps(m, n, m2, n2) ==
  n \in Nat /\ n2 \in Nat /\ n <= n2 /\ \A i \in 1 .. n : m2[i] = m[i]

LEMMA KeepsGood ==
  ASSUME NEW m, NEW n, NEW m2, NEW n2, Keeps(m, n, m2, n2)
  PROVE  /\ \A k, d : FileGood(m, n, k, d) => FileGood(m2, n2, k, d)
         /\ \A run, t : TraceGood(m, n, run, t) => TraceGood(m2, n2, run, t)
         /\ \A r : ReceiptGood(m, n, r) => ReceiptGood(m2, n2, r)
<1>1. \A i \in 1 .. n : i \in 1 .. n2 /\ m2[i] = m[i]
  BY DEF Keeps
<1>2. \A k, d : FileGood(m, n, k, d) => FileGood(m2, n2, k, d)
  BY <1>1 DEF FileGood
<1>3. \A run, t : TraceGood(m, n, run, t) => TraceGood(m2, n2, run, t)
  BY <1>1 DEF TraceGood
<1>4. ASSUME NEW r, ReceiptGood(m, n, r) PROVE ReceiptGood(m2, n2, r)
  <2>1. r.producer \in {"wrapper", "context"} => TraceGood(m2, n2, r.run, r)
    BY <1>3, <1>4 DEF ReceiptGood
  <2>2. r.producer = "wrapper" => m2[r.run] = m[r.run]
    BY <1>1, <1>4 DEF ReceiptGood, TraceGood
  <2>3. QED
    BY <1>4, <2>1, <2>2 DEF ReceiptGood
<1>5. QED
  BY <1>2, <1>3, <1>4

LEMMA EndedIsNat ==
  ASSUME TypeOK, RunningGood
  PROVE  Len(made) \in Nat /\ Ended \in Nat /\ Ended <= Len(made)
<1>1. Len(made) \in Nat
  BY LenProperties DEF TypeOK
<1>2. QED
  BY <1>1 DEF Ended, RunningGood

(* Once there is a bundle nothing happens any more.                         *)
LEMMA BundleIsLast ==
  ASSUME BundleGood, Next
  PROVE  bundle = None
<1> SUFFICES ASSUME bundle # None PROVE FALSE
  OBVIOUS
<1>1. job = None
  BY DEF BundleGood
<1>2. QED
  BY <1>1 DEF Next, Pull, Edit, Restore, Begin, Trace, Running, Load, LoadFails, WarmFails,
     FinishSmoke, FinishBenchmark, Kill, BuildReceipt, ListModelFiles, Build, Enter,
     Overwrite, WriteExecutionReceipt, Migrate, CopyFlipped

(* The commits only grow; what was asked of git is not from the future.     *)
LEMMA WhatGitSays ==
  ASSUME TypeOK, NEW t \in CaptureTraceability
  PROVE  t.clean => t.commit = repo.commit /\ t.commit \in Nat
BY DEF TypeOK, CaptureTraceability, NoTrace, Commit

LEMMA CommitsAreNumbers == Commit \subseteq Nat /\ \A c \in Commit : RevisionOf[c] \in Revision
BY BundleAssumption DEF Commit, Revision

--------------------------------------------------------------------------------
(* The steps.                                                               *)

LEMMA WorktreeStep ==
  ASSUME IInv, bundle = None, Pull \/ Edit \/ Restore
  PROVE  IInv'
<1>1. /\ UNCHANGED <<mode, cache, job, out, receipt, context, made, bundle>>
      /\ repo' \in [commit : Commit, clean : BOOLEAN] /\ repo.commit <= repo'.commit
  <2>1. repo \in [commit : Commit, clean : BOOLEAN] /\ repo.commit \in Nat
    BY CommitsAreNumbers DEF IInv, TypeOK
  <2>2. CASE Pull
    <3>1. repo.commit + 1 \in Commit
      BY <2>1, <2>2, BundleAssumption DEF Pull, Commit
    <3>2. QED
      BY <2>1, <2>2, <3>1 DEF Pull
  <2>3. CASE Edit \/ Restore
    <3>1. PICK b \in BOOLEAN : repo' = [repo EXCEPT !.clean = b]
      BY <2>3 DEF Edit, Restore
    <3>2. repo'.commit = repo.commit /\ repo' \in [commit : Commit, clean : BOOLEAN]
      BY <2>1, <3>1
    <3>3. UNCHANGED <<mode, cache, job, out, receipt, context, made, bundle>>
      BY <2>3 DEF Edit, Restore
    <3>4. QED
      BY <2>1, <3>2, <3>3
  <2>4. QED
    BY <2>2, <2>3
<1>2. TypeOK'
  BY <1>1 DEF IInv, TypeOK, CacheGood
<1>3. Ended' = Ended /\ IsRunning' = IsRunning
  BY <1>1 DEF Ended, IsRunning
<1>4. repo.commit \in Nat /\ repo'.commit \in Nat /\ repo.commit <= repo'.commit
  BY <1>1, CommitsAreNumbers DEF IInv, TypeOK
<1>5. JobGood'
  BY <1>1, <1>4 DEF IInv, JobGood
<1>6. RunningGood'
  <2>1. SUFFICES ASSUME IsRunning PROVE RunningGood'
    BY <1>3 DEF RunningGood
  <2>2. job.code \in Nat /\ job.code <= repo.commit
    BY <2>1, CommitsAreNumbers DEF IInv, RunningGood
  <2>3. job.code <= repo'.commit
    BY <1>4, <2>2
  <2>4. QED
    BY <1>1, <1>3, <2>1, <2>3 DEF IInv, RunningGood
<1>7. ContextGood' /\ FilesGood' /\ ReceiptsGood'
  BY <1>1, <1>3 DEF IInv, ContextGood, FilesGood, ReceiptsGood
<1>8. QED
  BY <1>1, <1>2, <1>5, <1>6, <1>7 DEF IInv, BundleGood

LEMMA EnterStep ==
  ASSUME IInv, bundle = None, NEW k \in Slot, Enter(k)
  PROVE  IInv'
<1>1. /\ UNCHANGED <<repo, cache, out, receipt, context, made, bundle>>
      /\ job = None /\ k \in RunSlot
  BY DEF Enter
<1>2. PICK label \in InitialCacheState, token \in BOOLEAN, t \in CaptureTraceability :
        job' = [slot |-> k, stage |-> "entered", label |-> label, token |-> token,
                run |-> 0, code |-> 0, trace |-> t, own |-> NoTrace,
                pre |-> NoPreflight.pre, failed |-> FALSE]
  BY DEF Enter
<1>3. job'.slot = k /\ job'.stage = "entered" /\ job'.trace = t /\ DOMAIN job' = JobFields
  BY <1>2 DEF JobFields
<1>4. ~IsRunning /\ ~IsRunning' /\ Ended' = Ended
  BY <1>1, <1>3 DEF IsRunning, Ended
<1>5. TypeOK'
  BY <1>1 DEF IInv, TypeOK, CacheGood
<1>6. JobGood'
  <2>1. repo.commit \in Nat
    BY CommitsAreNumbers DEF IInv, TypeOK
  <2>2. job'.token = token /\ job'.failed = FALSE
    BY <1>2
  <2>3. QED
    BY <1>1, <1>3, <2>1, <2>2, WhatGitSays DEF IInv, JobGood
<1>7. RunningGood' /\ ContextGood' /\ FilesGood' /\ ReceiptsGood'
  BY <1>1, <1>4 DEF IInv, RunningGood, ContextGood, FilesGood, ReceiptsGood
<1>8. QED
  BY <1>1, <1>5, <1>6, <1>7 DEF IInv, BundleGood

LEMMA BeginStep ==
  ASSUME IInv, bundle = None, Begin
  PROVE  IInv'
<1> DEFINE new == [commit |-> repo.commit, token |-> job.token, fetched |-> FALSE, exit |-> -1]
           pre == InspectHfCache(RevisionOf[repo.commit])
<1>1. /\ job # None /\ job.stage = "entered"
      /\ job' = [job EXCEPT !.stage = "started", !.run = Len(made) + 1,
                            !.code = repo.commit, !.pre = pre]
      /\ made' = Append(made, new)
      /\ UNCHANGED <<mode, repo, cache, out, receipt, context, bundle>>
  BY DEF Begin
<1>2. /\ DOMAIN job' = JobFields /\ job'.slot = job.slot /\ job'.stage = "started"
      /\ job'.run = Len(made) + 1 /\ job'.code = repo.commit /\ job'.pre = pre
      /\ job'.trace = job.trace /\ job'.failed = job.failed
      /\ job'.token = job.token
  BY <1>1 DEF IInv, JobGood, JobFields
<1>3. ~IsRunning /\ Ended = Len(made)
  BY <1>1 DEF IsRunning, Ended
<1>4. repo.commit \in Commit /\ repo.commit \in Nat /\ new \in Taken
  <2>1. repo.commit \in Commit /\ repo.commit \in Nat
    BY CommitsAreNumbers DEF IInv, TypeOK
  <2>2. job.token \in BOOLEAN
    BY <1>1 DEF IInv, JobGood
  <2>3. QED
    BY <2>1, <2>2 DEF Taken
<1> HIDE DEF new
<1>5. /\ made' \in Seq(Taken) /\ Len(made') = Len(made) + 1 /\ Len(made) \in Nat
      /\ \A i \in 1 .. Len(made) : made'[i] = made[i]
      /\ made'[Len(made) + 1] = new
  BY <1>1, <1>4, AppendProperties, LenProperties DEF IInv, TypeOK
<1>6. Keeps(made, Ended, made', Ended')
  BY <1>3, <1>5 DEF Keeps, Ended
<1>7. TypeOK'
  BY <1>1, <1>5 DEF IInv, TypeOK, CacheGood
<1>8. JobGood'
  BY <1>1, <1>2 DEF IInv, JobGood
<1>9. RunningGood'
  <2>1. /\ job'.run = Len(made') /\ Len(made') > 0 /\ made'[job'.run].commit = job'.code
        /\ job'.code = repo.commit
    BY <1>2, <1>5 DEF new
  <2>2. job'.trace.clean => job'.trace.commit <= job'.code
    BY <1>1, <1>2 DEF IInv, JobGood
  <2>3. ~job'.pre.present => cache.of[RevisionOf[job'.code]] = "absent"
    BY <1>2, <1>4, CommitsAreNumbers DEF IInv, TypeOK, CacheGood, InspectHfCache
  <2>4. QED
    BY <1>1, <1>2, <1>4, <2>1, <2>2, <2>3 DEF RunningGood
<1>10. ContextGood' /\ FilesGood' /\ ReceiptsGood'
  BY <1>1, <1>6, KeepsGood DEF IInv, ContextGood, FilesGood, ReceiptsGood
<1>11. QED
  BY <1>1, <1>7, <1>8, <1>9, <1>10 DEF IInv, BundleGood

(* What a script writes of the run it is.                                   *)
LEMMA SmokeDocFacts ==
  ASSUME NEW j, NEW success, NEW attempt, NEW post
  PROVE  LET d == SmokeDoc(j, success, attempt, post)
         IN  /\ Fields \subseteq DOMAIN d /\ d.type = "smoke_test" /\ d.run = j.run
             /\ d.commit = j.own.commit /\ d.clean = j.own.clean
             /\ d.label = j.label /\ d.success = success
             /\ success => d.preflight.label = j.label /\ d.preflight.pre = j.pre
BY DEF SmokeDoc, Fields

LEMMA SuiteDocFacts ==
  ASSUME NEW j, NEW t, NEW post
  PROVE  LET d == SuiteDoc(j, t, post)
         IN  /\ Fields \subseteq DOMAIN d /\ d.type = "benchmark_suite" /\ d.run = j.run
             /\ d.commit = t.commit /\ d.clean = t.clean /\ d.label = j.label
             /\ d.success = ~j.failed /\ d.unknown = FALSE
             /\ d.preflight.label = j.label /\ d.preflight.pre = j.pre
BY DEF SuiteDoc, Fields

(* The end of a run that leaves a good file, or none where none was.        *)
LEMMA EndStep ==
  ASSUME IInv, bundle = None, IsRunning, CacheGood', NEW j, NEW file, NEW exit \in Int,
         End(j, file, exit),
         j.slot = job.slot, j.run = job.run, j.trace = job.trace,
         file # None =>
           FileGood([made EXCEPT ![job.run].exit = exit], Len(made), job.slot, file),
         exit = 0 => file.run = job.run
  PROVE  IInv'
<1> DEFINE last == [made[job.run] EXCEPT !.exit = exit]
<1>1. /\ job' = None /\ UNCHANGED <<mode, repo, bundle>>
      /\ out' = [out EXCEPT ![job.slot] = file]
      /\ made' = [made EXCEPT ![job.run].exit = exit]
      /\ receipt' = IF mode = "wrapper"
                    THEN [receipt EXCEPT ![job.slot] = WrapperReceipt(j, exit, file)]
                    ELSE receipt
      /\ context' = IF mode = "context" /\ exit >= 0
                    THEN [slot |-> job.slot, trace |-> job.trace, run |-> job.run] ELSE context
  BY DEF End
<1>2. /\ job.run = Len(made) /\ job.run \in 1 .. Len(made) /\ Len(made) \in Nat
      /\ made[job.run] \in Taken /\ made[job.run].commit = job.code
      /\ job.slot \in Slot /\ job.slot \in RunSlot
      /\ job.trace.clean => job.trace.commit \in Nat /\ job.trace.commit <= job.code
  BY LenProperties, ElementOfSeq DEF IInv, TypeOK, RunningGood, JobGood, IsRunning, Slot
<1>3. last \in Taken /\ last.exit = exit /\ last.commit = job.code
  BY <1>2 DEF Taken
<1>4. made' = [made EXCEPT ![job.run] = last]
  BY <1>1
<1> HIDE DEF last
<1>5. /\ made' \in Seq(Taken) /\ Len(made') = Len(made) /\ made'[job.run] = last
      /\ \A i \in 1 .. Len(made) : i # job.run => made'[i] = made[i]
  BY <1>2, <1>3, <1>4, ExceptSeq DEF IInv, TypeOK
<1>6. Ended = Len(made) - 1 /\ ~IsRunning' /\ Ended' = Len(made)
  BY <1>1, <1>5 DEF Ended, IsRunning
<1>7. Keeps(made, Ended, made', Ended')
  BY <1>2, <1>5, <1>6 DEF Keeps
<1>8. TypeOK'
  BY <1>1, <1>5 DEF IInv, TypeOK
<1>9. JobGood' /\ RunningGood' /\ BundleGood'
  BY <1>1, <1>6 DEF IInv, JobGood, RunningGood, BundleGood
<1>10. TraceGood(made', Ended', job.run, job.trace)
  BY <1>2, <1>3, <1>5, <1>6 DEF TraceGood
<1>11. ContextGood'
  <2>1. CASE mode = "context" /\ exit >= 0
    BY <1>1, <1>10, <2>1 DEF ContextGood
  <2>2. CASE ~(mode = "context" /\ exit >= 0)
    BY <1>1, <1>7, <2>2, KeepsGood DEF IInv, ContextGood
  <2>3. QED
    BY <2>1, <2>2
<1>12. FilesGood'
  <2>1. ASSUME NEW k \in RunSlot, out'[k] # None PROVE FileGood(made', Ended', k, out'[k])
    <3>1. CASE k = job.slot
      BY <1>1, <1>2, <1>6, <2>1, <3>1 DEF IInv, TypeOK
    <3>2. CASE k # job.slot
      <4>1. out'[k] = out[k]
        BY <1>1, <1>2, <3>2 DEF IInv, TypeOK, Slot
      <4>2. QED
        BY <1>7, <2>1, <4>1, KeepsGood DEF IInv, FilesGood
    <3>3. QED
      BY <3>1, <3>2
  <2>2. QED
    BY <2>1 DEF FilesGood
<1>13. ReceiptsGood'
  <2> DEFINE r == WrapperReceipt(j, exit, file)
  <2>1. ReceiptGood(made', Ended', r)
    <3>1. /\ r.producer = "wrapper" /\ r.run = job.run /\ r.exit = exit /\ r.canonical = file
          /\ r.commit = job.trace.commit /\ r.clean = job.trace.clean
      BY DEF WrapperReceipt, WrappedBy
    <3> HIDE DEF r
    <3>2. TraceGood(made', Ended', r.run, r)
      BY <1>10, <3>1 DEF TraceGood
    <3>3. QED
      BY <1>3, <1>5, <3>1, <3>2 DEF ReceiptGood
  <2> HIDE DEF r
  <2>2. \A k \in Slot : receipt'[k] = r \/ receipt'[k] = receipt[k]
    BY <1>1, <1>2 DEF IInv, TypeOK, r
  <2>3. QED
    BY <1>7, <2>1, <2>2, KeepsGood DEF IInv, ReceiptsGood
<1>14. QED
  BY <1>8, <1>9, <1>11, <1>12, <1>13 DEF IInv

LEMMA RunFileGood ==
  ASSUME IInv, IsRunning, NEW exit \in Int, NEW d, Fields \subseteq DOMAIN d, d.run = job.run,
         d.type = IF job.slot = "benchmark" THEN "benchmark_suite" ELSE "smoke_test",
         job.slot = "benchmark" => ~d.unknown,
         d.clean => d.commit \in Nat /\ job.code <= d.commit,
         d.success => /\ (job.slot = "benchmark" => ValidateRecursive(d)) => exit = 0
                      /\ d.preflight.label = d.label /\ d.preflight.pre = job.pre
                      /\ job.stage = "loaded" /\ ~job.failed
  PROVE  FileGood([made EXCEPT ![job.run].exit = exit], Len(made), job.slot, d)
<1> DEFINE m == [made EXCEPT ![job.run].exit = exit]
<1>1. job.run = Len(made) /\ job.run \in 1 .. Len(made) /\ made[job.run] \in Taken
  BY LenProperties, ElementOfSeq DEF IInv, TypeOK, RunningGood
<1>2. m[job.run] = [made[job.run] EXCEPT !.exit = exit]
  BY <1>1, LenProperties DEF IInv, TypeOK
<1>3. /\ m[job.run].exit = exit /\ m[job.run].commit = job.code
      /\ m[job.run].fetched = made[job.run].fetched
  BY <1>1, <1>2 DEF IInv, RunningGood, Taken
<1>4. d.success /\ ~d.preflight.pre.present => m[job.run].fetched
  BY <1>3 DEF IInv, RunningGood
<1> HIDE DEF m
<1>5. FileGood(m, Len(made), job.slot, d)
  BY <1>1, <1>3, <1>4 DEF FileGood
<1>6. QED
  BY <1>5 DEF m

LEMMA TraceStep ==
  ASSUME IInv, bundle = None, Trace
  PROVE  IInv'
<1>1. job # None /\ job.stage = "started" /\ job.slot \in SmokeSlot /\ cache' = cache
  BY DEF Trace
<1>2. PICK t \in CaptureTraceability :
        LET j == [job EXCEPT !.stage = "running", !.own = t]
            belied == (j.label = DownloadCold) = j.pre.present
        IN  IF belied
            THEN End(j, SmokeDoc(j, FALSE, NotAttempted, j.pre), 1)
            ELSE job' = j /\ UNCHANGED <<mode, repo, out, receipt, context, made, bundle>>
  BY DEF Trace
<1> DEFINE j == [job EXCEPT !.stage = "running", !.own = t]
<1>3. /\ j.slot = job.slot /\ j.run = job.run /\ j.trace = job.trace /\ j.own = t
      /\ j.stage = "running" /\ j.pre = job.pre /\ j.label = job.label
      /\ j.code = job.code /\ j.failed = job.failed /\ j.token = job.token
      /\ DOMAIN j = JobFields
  BY <1>1 DEF IInv, JobGood, JobFields
<1>4. IsRunning
  BY <1>1 DEF IsRunning
<1>5. CacheGood'
  BY <1>1 DEF IInv, TypeOK, CacheGood
<1>6. job.code \in Nat /\ (t.clean => t.commit \in Nat /\ job.code <= t.commit)
  BY <1>4, WhatGitSays, CommitsAreNumbers DEF IInv, RunningGood
<1> HIDE DEF j
<1>7. CASE End(j, SmokeDoc(j, FALSE, NotAttempted, j.pre), 1)
  <2> DEFINE d == SmokeDoc(j, FALSE, NotAttempted, j.pre)
  <2>1. /\ Fields \subseteq DOMAIN d /\ d.type = "smoke_test" /\ d.run = job.run
        /\ d.commit = t.commit /\ d.clean = t.clean /\ ~d.success
    BY <1>3 DEF SmokeDoc, Fields
  <2>2. End(j, d, 1)
    BY <1>7
  <2> HIDE DEF d
  <2>3. job.slot # "benchmark" /\ 1 \in Int
    BY <1>1 DEF SmokeSlot
  <2>4. FileGood([made EXCEPT ![job.run].exit = 1], Len(made), job.slot, d)
    BY <1>4, <1>6, <2>1, <2>3, RunFileGood
  <2>5. QED
    BY <1>3, <1>4, <1>5, <2>1, <2>2, <2>3, <2>4, EndStep
<1>8. CASE job' = j /\ UNCHANGED <<mode, repo, out, receipt, context, made, bundle>>
  <2>1. TypeOK' /\ JobGood' /\ BundleGood'
    BY <1>1, <1>3, <1>5, <1>8 DEF IInv, TypeOK, JobGood, BundleGood
  <2>2. j # None => IsRunning'
    BY <1>3, <1>8 DEF IsRunning
  <2>3. RunningGood'
    BY <1>1, <1>3, <1>4, <1>6, <1>8 DEF IInv, RunningGood
  <2>4. Ended \in Nat /\ Ended' \in Nat /\ Ended <= Ended' /\ made' = made
    BY <1>3, <1>4, <1>8, EndedIsNat, LenProperties DEF Ended, IsRunning, IInv, TypeOK, RunningGood
  <2>5. Keeps(made, Ended, made', Ended')
    BY <2>4 DEF Keeps
  <2>6. ContextGood' /\ FilesGood' /\ ReceiptsGood'
    BY <1>8, <2>5, KeepsGood DEF IInv, ContextGood, FilesGood, ReceiptsGood
  <2>7. QED
    BY <2>1, <2>3, <2>6 DEF IInv
<1>9. QED
  BY <1>2, <1>7, <1>8 DEF j

(* A job that goes on, with what it has done to its own entry of made.      *)
LEMMA GoOnStep ==
  ASSUME IInv, bundle = None, IsRunning, CacheGood', JobGood', RunningGood',
         made' \in Seq(Taken), Len(made') = Len(made),
         \A i \in 1 .. (Len(made) - 1) : made'[i] = made[i],
         UNCHANGED <<mode, repo, out, receipt, context, bundle>>
  PROVE  IInv'
<1>1. TypeOK' /\ BundleGood'
  BY DEF IInv, TypeOK, BundleGood
<1>2. Ended = Len(made) - 1 /\ Ended \in Nat /\ Ended' \in Nat /\ Ended <= Ended'
  BY EndedIsNat, LenProperties DEF Ended, IInv, TypeOK
<1>3. Keeps(made, Ended, made', Ended')
  BY <1>2 DEF Keeps
<1>4. ContextGood' /\ FilesGood' /\ ReceiptsGood'
  BY <1>3, KeepsGood DEF IInv, ContextGood, FilesGood, ReceiptsGood
<1>5. QED
  BY <1>1, <1>4 DEF IInv

LEMMA LoadStep ==
  ASSUME IInv, bundle = None, Load
  PROVE  IInv'
<1> DEFINE revision == RevisionOf[job.code]
           fetched == cache.of[revision] # "complete"
           last == [made[job.run] EXCEPT !.fetched = fetched]
<1>1. /\ job # None /\ job.stage \in {"started", "running"}
      /\ made' = [made EXCEPT ![job.run] = last]
      /\ cache' = [dir |-> TRUE, of |-> [cache.of EXCEPT ![revision] = "complete"]]
      /\ job' = [job EXCEPT !.stage = "loaded"]
      /\ UNCHANGED <<mode, repo, out, receipt, context, bundle>>
      /\ job.slot \in SmokeSlot => job.stage = "running"
  BY DEF Load, Running
<1>2. IsRunning
  BY <1>1 DEF IsRunning
<1>3. /\ job.run = Len(made) /\ job.run \in 1 .. Len(made) /\ Len(made) \in Nat
      /\ made[job.run] \in Taken /\ revision \in Revision
  BY <1>2, LenProperties, ElementOfSeq, CommitsAreNumbers DEF IInv, TypeOK, RunningGood
<1>4. last \in Taken /\ last.fetched = fetched /\ last.commit = made[job.run].commit
  BY <1>3 DEF Taken
<1> HIDE DEF last
<1>5. /\ made' \in Seq(Taken) /\ Len(made') = Len(made) /\ made'[job.run] = last
      /\ \A i \in 1 .. (Len(made) - 1) : made'[i] = made[i]
  BY <1>1, <1>3, <1>4, ExceptSeq DEF IInv, TypeOK
<1>6. CacheGood'
  BY <1>1, <1>3 DEF IInv, TypeOK, CacheGood, Left
<1>7. /\ DOMAIN job' = JobFields /\ job'.stage = "loaded" /\ job'.slot = job.slot
      /\ job'.run = job.run /\ job'.code = job.code /\ job'.trace = job.trace
      /\ job'.own = job.own /\ job'.pre = job.pre /\ job'.failed = job.failed
      /\ job'.token = job.token
  BY <1>1 DEF IInv, JobGood, JobFields
<1>8. JobGood'
  BY <1>1, <1>7 DEF IInv, JobGood
<1>9. RunningGood'
  <2>1. ~job.pre.present => fetched
    BY <1>1, <1>2 DEF IInv, RunningGood
  <2>2. QED
    BY <1>1, <1>2, <1>3, <1>4, <1>5, <1>7, <2>1 DEF IInv, RunningGood
<1>10. QED
  BY <1>1, <1>2, <1>5, <1>6, <1>8, <1>9, GoOnStep

(* A benchmark that fails goes on to its end.                               *)
LEMMA FailingGoesOn ==
  ASSUME IInv, bundle = None, job # None, job.stage # "entered", job.slot \notin SmokeSlot,
         CacheGood',
         job' = [job EXCEPT !.stage = "loaded", !.failed = TRUE],
         UNCHANGED <<mode, repo, out, receipt, context, made, bundle>>
  PROVE  IInv'
<1>1. /\ DOMAIN job' = JobFields /\ job'.stage = "loaded" /\ job'.slot = job.slot
      /\ job'.run = job.run /\ job'.code = job.code /\ job'.trace = job.trace
      /\ job'.failed = TRUE /\ job'.token = job.token
  BY DEF IInv, JobGood, JobFields
<1>2. IsRunning
  BY DEF IsRunning
<1>3. JobGood'
  BY <1>1 DEF IInv, JobGood
<1>4. RunningGood'
  BY <1>1, <1>2 DEF IInv, RunningGood
<1>5. QED
  BY <1>2, <1>3, <1>4, GoOnStep DEF IInv, TypeOK

(* A smoke test that ends, successful or not.                               *)
LEMMA SmokeEnds ==
  ASSUME IInv, bundle = None, IsRunning, CacheGood', job.slot \in SmokeSlot,
         job.stage # "started", NEW success \in BOOLEAN, NEW attempt, NEW post,
         NEW exit \in Int, success => job.stage = "loaded" /\ exit = 0,
         End(job, SmokeDoc(job, success, attempt, post), exit)
  PROVE  IInv'
<1> DEFINE d == SmokeDoc(job, success, attempt, post)
<1>1. /\ Fields \subseteq DOMAIN d /\ d.type = "smoke_test" /\ d.run = job.run
      /\ d.commit = job.own.commit /\ d.clean = job.own.clean /\ d.success = success
      /\ d.label = job.label
      /\ success => d.preflight.label = job.label /\ d.preflight.pre = job.pre
  BY SmokeDocFacts
<1>2. d.clean => d.commit \in Nat /\ job.code <= d.commit
  BY <1>1 DEF IInv, RunningGood
<1>3. ~job.failed
  BY DEF IInv, JobGood, IsRunning
<1>4. job.slot # "benchmark"
  BY DEF SmokeSlot
<1> HIDE DEF d
<1>5. FileGood([made EXCEPT ![job.run].exit = exit], Len(made), job.slot, d)
  BY <1>1, <1>2, <1>3, <1>4, RunFileGood
<1>6. QED
  BY <1>1, <1>4, <1>5, EndStep DEF d

(* What a broken download leaves is still no more than a snapshot.          *)
LEMMA LoadFailsStep ==
  ASSUME IInv, bundle = None, LoadFails
  PROVE  IInv'
<1>1. /\ job # None /\ job.stage # "entered" /\ IsRunning
      /\ job.slot \in SmokeSlot => job.stage # "started"
  BY DEF LoadFails, Running, IsRunning
<1>2. RevisionOf[job.code] \in Revision
  BY <1>1, CommitsAreNumbers DEF IInv, RunningGood
<1>3. PICK left \in Left :
        cache' = [dir |-> TRUE, of |-> [cache.of EXCEPT ![RevisionOf[job.code]] = left]]
  BY <1>2 DEF LoadFails, IInv, TypeOK, CacheGood, Left
<1>4. CacheGood'
  <2>1. cache'.dir = TRUE /\ cache' = [dir |-> cache'.dir, of |-> cache'.of]
    BY <1>3
  <2>2. cache'.of \in [Revision -> Left]
    BY <1>2, <1>3 DEF IInv, TypeOK, CacheGood
  <2>3. QED
    BY <1>3, <2>1, <2>2 DEF CacheGood
<1>5. CASE job.slot \in SmokeSlot
  <2>1. PICK b \in BOOLEAN : ~b /\ End(job, SmokeDoc(job, b, Attempt(job, b), job.pre), 1)
    BY <1>5 DEF LoadFails
  <2>2. QED
    BY <1>1, <1>4, <1>5, <2>1, SmokeEnds
<1>6. CASE job.slot \notin SmokeSlot
  BY <1>1, <1>4, <1>6, FailingGoesOn DEF LoadFails
<1>7. QED
  BY <1>5, <1>6

LEMMA WarmFailsStep ==
  ASSUME IInv, bundle = None, WarmFails
  PROVE  IInv'
<1>1. job # None /\ job.stage = "loaded" /\ IsRunning
  BY DEF WarmFails, IsRunning
<1>2. CacheGood'
  BY DEF WarmFails, IInv, TypeOK, CacheGood
<1>3. CASE job.slot \in SmokeSlot
  <2>1. PICK b \in BOOLEAN, c \in BOOLEAN :
          ~b /\ End(job, SmokeDoc(job, b, Attempt(job, c), job.pre), 1)
    BY <1>3 DEF WarmFails
  <2>2. QED
    BY <1>1, <1>2, <1>3, <2>1, SmokeEnds
<1>4. CASE job.slot \notin SmokeSlot
  <2>1. job' = [job EXCEPT !.stage = "loaded", !.failed = TRUE]
    BY <1>1, <1>4 DEF WarmFails, IInv, JobGood, JobFields
  <2>2. QED
    BY <1>1, <1>2, <1>4, <2>1, FailingGoesOn DEF WarmFails
<1>5. QED
  BY <1>3, <1>4

LEMMA FinishSmokeStep ==
  ASSUME IInv, bundle = None, FinishSmoke
  PROVE  IInv'
<1>1. job # None /\ job.stage = "loaded" /\ IsRunning /\ job.slot \in SmokeSlot
  BY DEF FinishSmoke, IsRunning
<1>2. CacheGood'
  BY DEF FinishSmoke, IInv, TypeOK, CacheGood
<1>3. PICK b \in BOOLEAN :
        End(job, SmokeDoc(job, b, Attempt(job, b),
                          InspectHfCache(RevisionOf[job.code])), 0)
  BY DEF FinishSmoke
<1>4. QED
  BY <1>1, <1>2, <1>3, SmokeEnds

(* The exit code of the benchmark is 0 only after its own validation.       *)
LEMMA FinishBenchmarkStep ==
  ASSUME IInv, bundle = None, FinishBenchmark
  PROVE  IInv'
<1>1. job # None /\ job.stage = "loaded" /\ IsRunning /\ job.slot = "benchmark"
  BY DEF FinishBenchmark, IsRunning
<1>2. CacheGood'
  BY DEF FinishBenchmark, IInv, TypeOK, CacheGood
<1>3. PICK t \in CaptureTraceability :
        LET doc == SuiteDoc(job, t, InspectHfCache(RevisionOf[job.code]))
        IN  End(job, doc, IF doc.success /\ ValidateRecursive(doc) THEN 0 ELSE 1)
  BY DEF FinishBenchmark
<1> DEFINE d == SuiteDoc(job, t, InspectHfCache(RevisionOf[job.code]))
           exit == IF d.success /\ ValidateRecursive(d) THEN 0 ELSE 1
<1>4. /\ Fields \subseteq DOMAIN d /\ d.type = "benchmark_suite" /\ d.run = job.run
      /\ d.commit = t.commit /\ d.clean = t.clean /\ d.label = job.label
      /\ d.success = ~job.failed /\ d.unknown = FALSE
      /\ d.preflight.label = job.label /\ d.preflight.pre = job.pre
  BY SuiteDocFacts
<1>5. End(job, d, exit)
  BY <1>3
<1> HIDE DEF d
<1>6. exit \in Int /\ (d.success /\ ValidateRecursive(d) => exit = 0)
  OBVIOUS
<1> HIDE DEF exit
<1>7. d.clean => d.commit \in Nat /\ job.code <= d.commit
  BY <1>1, <1>4, WhatGitSays DEF IInv, RunningGood
<1>8. FileGood([made EXCEPT ![job.run].exit = exit], Len(made), job.slot, d)
  BY <1>1, <1>4, <1>6, <1>7, RunFileGood
<1>9. QED
  BY <1>1, <1>2, <1>4, <1>5, <1>6, <1>8, EndStep

(* A killed run leaves the file that stood there before.                    *)
LEMMA KillStep ==
  ASSUME IInv, bundle = None, Kill
  PROVE  IInv'
<1>1. job # None /\ job.stage # "entered" /\ IsRunning /\ End(job, out[job.slot], -1)
  BY DEF Kill, IsRunning
<1>2. CacheGood'
  BY DEF Kill, IInv, TypeOK, CacheGood
<1> DEFINE m == [made EXCEPT ![job.run].exit = -1]
<1>3. job.run = Len(made) /\ Len(made) \in Nat /\ Ended = Len(made) - 1 /\ Ended \in Nat
  BY <1>1, EndedIsNat DEF IInv, RunningGood, Ended
<1>4. \A i \in 1 .. Ended : m[i] = made[i]
  BY <1>3, LenProperties DEF IInv, TypeOK
<1> HIDE DEF m
<1>5. Keeps(made, Ended, m, Len(made))
  BY <1>3, <1>4 DEF Keeps
<1>6. out[job.slot] # None => FileGood(m, Len(made), job.slot, out[job.slot])
  BY <1>1, <1>5, KeepsGood DEF IInv, JobGood, FilesGood
<1>7. QED
  BY <1>1, <1>2, <1>6, EndStep DEF m

(* A file that differs in none of the fields that matter.                   *)
LEMMA SameFields ==
  ASSUME NEW m, NEW n, NEW k \in SmokeSlot, NEW l \in SmokeSlot, NEW d, NEW e,
         FileGood(m, n, k, d), DOMAIN e = DOMAIN d,
         \A x \in Fields \ {"unknown"} : e[x] = d[x]
  PROVE  FileGood(m, n, l, e)
<1>1. k # "benchmark" /\ l # "benchmark"
  BY DEF SmokeSlot
<1>2. /\ e.type = d.type /\ e.run = d.run /\ e.commit = d.commit /\ e.clean = d.clean
      /\ e.label = d.label /\ e.success = d.success /\ e.preflight = d.preflight
  BY DEF Fields
<1>3. QED
  BY <1>1, <1>2 DEF FileGood

(* Between the runs nothing but files and receipts changes.                 *)
LEMMA QuietStep ==
  ASSUME IInv, bundle = None, UNCHANGED <<mode, repo, cache, job, made, bundle>>,
         out' = [k \in Slot |-> out'[k]], receipt' = [k \in Slot |-> receipt'[k]],
         ContextGood', FilesGood', ReceiptsGood'
  PROVE  IInv'
<1>1. TypeOK' /\ JobGood' /\ RunningGood' /\ BundleGood'
  BY DEF IInv, TypeOK, CacheGood, JobGood, RunningGood, IsRunning, BundleGood
<1>2. QED
  BY <1>1 DEF IInv

LEMMA OverwriteStep ==
  ASSUME IInv, bundle = None, NEW k \in Slot, Overwrite(k)
  PROVE  IInv'
<1> DEFINE pre == InspectHfCache(RevisionOf[repo.commit])
           label == IF pre.present THEN DownloadCold ELSE ProcessCold
           new == [commit |-> repo.commit, token |-> FALSE, fetched |-> FALSE, exit |-> 1]
           j == [label |-> label, token |-> FALSE,
                 run |-> Len(made) + 1, code |-> repo.commit, own |-> repo, pre |-> pre]
           d == SmokeDoc(j, FALSE, NotAttempted, pre)
<1>1. /\ job = None /\ k \in SmokeSlot
      /\ out' = [out EXCEPT ![k] = d]
      /\ made' = Append(made, new)
      /\ UNCHANGED <<mode, repo, cache, job, receipt, context, bundle>>
  BY DEF Overwrite
<1>2. repo.commit \in Nat /\ new \in Taken /\ new.commit = repo.commit
  BY CommitsAreNumbers DEF IInv, TypeOK, Taken
<1>3. /\ Fields \subseteq DOMAIN d /\ d.type = "smoke_test" /\ d.run = Len(made) + 1
      /\ d.commit = repo.commit /\ d.clean = repo.clean /\ ~d.success
  BY DEF SmokeDoc, Fields
<1> HIDE DEF new, d
<1>4. /\ made' \in Seq(Taken) /\ Len(made') = Len(made) + 1 /\ Len(made) \in Nat
      /\ \A i \in 1 .. Len(made) : made'[i] = made[i]
      /\ made'[Len(made) + 1] = new
  BY <1>1, <1>2, AppendProperties, LenProperties DEF IInv, TypeOK
<1>5. ~IsRunning /\ ~IsRunning' /\ Ended = Len(made) /\ Ended' = Len(made) + 1
  BY <1>1, <1>4 DEF IsRunning, Ended
<1>6. Keeps(made, Ended, made', Ended')
  BY <1>4, <1>5 DEF Keeps
<1>7. TypeOK'
  BY <1>1, <1>4 DEF IInv, TypeOK, CacheGood
<1>8. JobGood' /\ RunningGood' /\ BundleGood'
  BY <1>1, <1>5 DEF JobGood, RunningGood, BundleGood
<1>9. ContextGood' /\ ReceiptsGood'
  BY <1>1, <1>6, KeepsGood DEF IInv, ContextGood, ReceiptsGood
<1>10. FilesGood'
  <2>1. FileGood(made', Ended', k, d)
    <3>1. k # "benchmark"
      BY <1>1 DEF SmokeSlot
    <3>2. QED
      BY <1>2, <1>3, <1>4, <1>5, <3>1 DEF FileGood
  <2>2. \A l \in RunSlot : out'[l] = IF l = k THEN d ELSE out[l]
    BY <1>1 DEF IInv, TypeOK, Slot
  <2>3. QED
    BY <1>6, <2>1, <2>2, KeepsGood DEF IInv, FilesGood
<1>11. QED
  BY <1>7, <1>8, <1>9, <1>10 DEF IInv

LEMMA FilesStep ==
  ASSUME IInv, bundle = None, NEW k \in Slot, NEW d,
         out' = [out EXCEPT ![k] = d], k \in RunSlot => FileGood(made, Ended, k, d),
         UNCHANGED <<mode, repo, cache, job, receipt, context, made, bundle>>
  PROVE  IInv'
<1>1. Ended' = Ended
  BY DEF Ended, IsRunning
<1>2. ContextGood' /\ ReceiptsGood'
  BY <1>1 DEF IInv, ContextGood, ReceiptsGood
<1>3. \A l \in RunSlot : out'[l] = IF l = k THEN d ELSE out[l]
  BY DEF IInv, TypeOK, Slot
<1>4. FilesGood'
  BY <1>1, <1>3 DEF IInv, FilesGood
<1>5. QED
  BY <1>2, <1>4, QuietStep DEF IInv, TypeOK

LEMMA MigrateStep ==
  ASSUME IInv, bundle = None, NEW k \in Slot, Migrate(k)
  PROVE  IInv'
<1> DEFINE d == [out[k] EXCEPT !.unknown = FALSE]
<1>1. /\ out[k] # None /\ out[k].unknown /\ out' = [out EXCEPT ![k] = d]
      /\ UNCHANGED <<mode, repo, cache, job, receipt, context, made, bundle>>
  BY DEF Migrate, Permissive
<1>2. k \in RunSlot => FileGood(made, Ended, k, d)
  <2>1. SUFFICES ASSUME k \in RunSlot PROVE FileGood(made, Ended, k, d)
    OBVIOUS
  <2>2. FileGood(made, Ended, k, out[k])
    BY <1>1, <2>1 DEF IInv, FilesGood
  <2>3. k \in SmokeSlot
    BY <1>1, <2>1, <2>2 DEF FileGood, RunSlot
  <2>4. DOMAIN d = DOMAIN out[k] /\ \A x \in Fields \ {"unknown"} : d[x] = out[k][x]
    BY <2>2 DEF FileGood
  <2> HIDE DEF d
  <2>5. QED
    BY <2>2, <2>3, <2>4, SameFields
<1> HIDE DEF d
<1>3. QED
  BY <1>1, <1>2, FilesStep

LEMMA CopyFlippedStep ==
  ASSUME IInv, bundle = None, NEW k \in Slot, NEW l \in Slot, CopyFlipped(k, l)
  PROVE  IInv'
<1> DEFINE d == [out[k] EXCEPT !.token = ~out[k].token, !.absent = out[k].present,
                               !.present = out[k].absent]
<1>1. /\ k \in SmokeSlot /\ l \in SmokeSlot /\ out[k] # None
      /\ out' = [out EXCEPT ![l] = d]
      /\ UNCHANGED <<mode, repo, cache, job, receipt, context, made, bundle>>
  BY DEF CopyFlipped
<1>2. FileGood(made, Ended, k, out[k])
  BY <1>1 DEF IInv, FilesGood, RunSlot
<1>3. DOMAIN d = DOMAIN out[k] /\ \A x \in Fields \ {"unknown"} : d[x] = out[k][x]
  BY <1>2 DEF FileGood, Fields
<1> HIDE DEF d
<1>4. FileGood(made, Ended, l, d)
  BY <1>1, <1>2, <1>3, SameFields
<1>5. QED
  BY <1>1, <1>4, FilesStep

LEMMA ListModelFilesStep ==
  ASSUME IInv, bundle = None, ListModelFiles
  PROVE  IInv'
<1>1. PICK hashed \in BOOLEAN, declared \in {0, 2, 3} :
        LET revision == RevisionOf[repo.commit]
        IN  out' = [out EXCEPT !["model_artifact"] =
              [type |-> "model_artifact", run |-> 0, commit |-> repo.commit,
               clean |-> repo.clean, revision |-> revision, unknown |-> FALSE,
               snapshot |-> revision, declared |-> declared, weights |-> 1,
               files |-> {File("config", FALSE, TRUE), File("weights", TRUE, hashed)}]]
  BY DEF ListModelFiles
<1>2. PICK d : out' = [out EXCEPT !["model_artifact"] = d]
  BY <1>1
<1>3. "model_artifact" \in Slot /\ "model_artifact" \notin RunSlot
  BY DEF Slot, RunSlot, SmokeSlot
<1>4. UNCHANGED <<mode, repo, cache, job, receipt, context, made, bundle>>
  BY DEF ListModelFiles
<1>5. QED
  BY <1>2, <1>3, <1>4, FilesStep

(* A receipt of a context quotes the commit asked for when it was entered;  *)
(* one of write_execution_receipt promises nothing.                         *)
LEMMA ReceiptSteps ==
  ASSUME IInv, bundle = None,
         BuildReceipt \/ \E k \in Slot : WriteExecutionReceipt(k)
  PROVE  IInv'
<1>1. /\ UNCHANGED <<mode, repo, cache, job, out, made, bundle>>
      /\ Ended' = Ended /\ (context' = context \/ context' = None)
  BY DEF BuildReceipt, WriteExecutionReceipt, Ended, IsRunning
<1>2. FilesGood' /\ ContextGood'
  BY <1>1 DEF IInv, FilesGood, ContextGood
<1>3. PICK k, r : receipt' = [receipt EXCEPT ![k] = r] /\ ReceiptGood(made, Ended, r)
  <2>1. CASE BuildReceipt
    <3> DEFINE c == context
               new == [id |-> <<"context", c.run>>, producer |-> "context", run |-> c.run,
                       commit |-> c.trace.commit, clean |-> c.trace.clean, exit |-> 0,
                       file |-> None, canonical |-> out[c.slot],
                       revision |-> RevisionOf[made[c.run].commit]]
    <3>1. context # None /\ receipt' = [receipt EXCEPT ![c.slot] = new]
      BY <2>1 DEF BuildReceipt
    <3>2. /\ new.producer = "context" /\ new.run = context.run
          /\ new.commit = context.trace.commit /\ new.clean = context.trace.clean
      OBVIOUS
    <3> HIDE DEF new
    <3>3. ReceiptGood(made, Ended, new)
      BY <3>1, <3>2 DEF IInv, ContextGood, ReceiptGood, TraceGood
    <3>4. QED
      BY <3>1, <3>3
  <2>2. CASE \E k \in Slot : WriteExecutionReceipt(k)
    <3>1. PICK k \in Slot : WriteExecutionReceipt(k)
      BY <2>2
    <3>2. PICK t \in CaptureTraceability : receipt' = [receipt EXCEPT ![k] =
            [id |-> <<"legacy", k>>, producer |-> "legacy", run |-> 0,
             commit |-> t.commit, clean |-> t.clean, exit |-> 0,
             file |-> out[k], canonical |-> out[k], revision |-> out[k].revision]]
      BY <3>1 DEF WriteExecutionReceipt
    <3> DEFINE new == [id |-> <<"legacy", k>>, producer |-> "legacy", run |-> 0,
                       commit |-> t.commit, clean |-> t.clean, exit |-> 0,
                       file |-> out[k], canonical |-> out[k], revision |-> out[k].revision]
    <3>3. new.producer = "legacy" /\ receipt' = [receipt EXCEPT ![k] = new]
      BY <3>2
    <3> HIDE DEF new
    <3>4. QED
      BY <3>3 DEF ReceiptGood
  <2>3. QED
    BY <2>1, <2>2
<1>4. ReceiptsGood'
  <2>1. \A l \in Slot : receipt'[l] = r \/ receipt'[l] = receipt[l]
    BY <1>3 DEF IInv, TypeOK
  <2>2. QED
    BY <1>1, <1>3, <2>1 DEF IInv, ReceiptsGood
<1>5. receipt' = [k_1 \in Slot |-> receipt'[k_1]]
  BY <1>3 DEF IInv, TypeOK
<1>6. QED
  BY <1>1, <1>2, <1>4, <1>5, QuietStep DEF IInv, TypeOK

(* What the validation of a run's file says of it.                          *)
LEMMA ValidFile ==
  ASSUME NEW k \in RunSlot, NEW d, ValidateRecursive(d),
         d.type = IF k = "benchmark" THEN "benchmark_suite" ELSE "smoke_test"
  PROVE  d.clean /\ CachePreflightValid(d.preflight)
<1>1. CASE d.type = "smoke_test"
  BY <1>1 DEF ValidateRecursive, SmokeValid, Traced
<1>2. CASE d.type = "benchmark_suite"
  BY <1>2 DEF ValidateRecursive, SuiteValid, Traced
<1>3. QED
  BY <1>1, <1>2

(* The arguments of the builder may be wrong, not the kind of a file.       *)
LEMMA ArgumentsFit ==
  ASSUME NEW f \in Arguments, NEW k \in RunSlot
  PROVE  f[k] \in RunSlot /\ (f[k] = "benchmark" <=> k = "benchmark")
<1> DEFINE inPlace == [i \in Slot |-> i]
<1>1. PICK i \in SmokeSlot, l \in SmokeSlot : f = inPlace \/ f = [inPlace EXCEPT ![i] = l]
  BY DEF Arguments, SmokeSlot
<1>2. k \in Slot /\ (f[k] = k \/ (k \in SmokeSlot /\ f[k] \in SmokeSlot))
  BY <1>1 DEF Slot, RunSlot
<1>3. QED
  BY <1>2 DEF RunSlot, SmokeSlot

LEMMA ArgumentsAreSlots ==
  ASSUME NEW f \in Arguments, NEW k \in Slot
  PROVE  f[k] \in Slot
<1> DEFINE inPlace == [i \in Slot |-> i]
<1>1. PICK i \in SmokeSlot, l \in SmokeSlot : f = inPlace \/ f = [inPlace EXCEPT ![i] = l]
  BY DEF Arguments, SmokeSlot
<1>2. QED
  BY <1>1 DEF Slot, RunSlot

LEMMA BuildStep ==
  ASSUME IInv, bundle = None, Build
  PROVE  IInv'
<1>1. /\ job = None
      /\ UNCHANGED <<mode, repo, cache, job, out, receipt, context, made>>
      /\ \A k \in Slot : out[k] # None /\ receipt[k] # None
  BY DEF Build
<1>2. PICK f \in Arguments, g \in Arguments :
        LET c == [k \in Slot |-> out[f[k]]]
            r == [k \in Slot |-> receipt[g[k]]]
            b == [components |-> c, receipts |-> r,
                  commit |-> c["download_cold_smoke"].commit,
                  clean |-> c["download_cold_smoke"].clean]
        IN  /\ \A k \in Slot : ValidateRecursive(c[k])
            /\ DistinctTokenEvidence(c)
            /\ \A k \in RunSlot : c[k].success
            /\ BundleValid(b)
            /\ bundle' = b
  BY DEF Build
<1> DEFINE c == [k \in Slot |-> out[f[k]]]
           r == [k \in Slot |-> receipt[g[k]]]
<1>3. /\ bundle'.components = c /\ bundle'.receipts = r
      /\ \A k \in Slot : ValidateRecursive(c[k])
      /\ DistinctTokenEvidence(c)
      /\ \A k \in RunSlot : c[k].success
      /\ BundleValid(bundle')
  BY <1>2
<1>4. \A k \in RunSlot : k \in Slot
  BY DEF Slot
<1>5. Ended = Len(made) /\ Len(made) \in Nat /\ Ended' = Ended
  BY <1>1, EndedIsNat DEF Ended, IsRunning, IInv
<1>6. ASSUME NEW k \in RunSlot
      PROVE  /\ c[k].run \in 1 .. Len(made) /\ made[c[k].run].exit = 0
             /\ c[k].label = DownloadCold => made[c[k].run].fetched
             /\ c[k].commit \in Nat /\ made[c[k].run].commit <= c[k].commit
  <2> DEFINE d == out[f[k]]
  <2>1. c[k] = d /\ d # None /\ ValidateRecursive(d) /\ d.success
    BY <1>1, <1>3, <1>4, ArgumentsAreSlots
  <2>2. FileGood(made, Len(made), f[k], d)
    BY <1>5, <2>1, ArgumentsFit DEF IInv, FilesGood
  <2>3. f[k] \in RunSlot
    BY ArgumentsFit
  <2> HIDE DEF d
  <2>4. d.clean /\ CachePreflightValid(d.preflight)
    BY <2>1, <2>2, <2>3, ValidFile DEF FileGood
  <2>5. d.label = DownloadCold => ~d.preflight.pre.present
    BY <2>1, <2>2, <2>4 DEF FileGood, CachePreflightValid
  <2>6. QED
    BY <2>1, <2>2, <2>4, <2>5 DEF FileGood
<1>7. ASSUME NEW k \in RunSlot
      PROVE  /\ r[k].clean /\ r[k].exit = 0 /\ r[k].canonical = c[k]
             /\ r[k].commit = bundle'.commit /\ c[k].commit = bundle'.commit
             /\ ReceiptGood(made, Len(made), r[k])
  <2>1. k \in Slot /\ r[k] = receipt[g[k]] /\ g[k] \in Slot
    BY <1>4, ArgumentsAreSlots
  <2>2. ReceiptGood(made, Len(made), r[k])
    BY <1>1, <1>5, <2>1 DEF IInv, ReceiptsGood
  <2>3. /\ ReleaseReady(r[k]) /\ r[k].canonical = c[k] /\ r[k].commit = bundle'.commit
        /\ c[k].commit = bundle'.commit
    BY <1>3, <2>1 DEF BundleValid, ReceiptsBind
  <2>4. QED
    BY <2>2, <2>3 DEF ReleaseReady
<1> HIDE DEF c, r
<1>8. MeasuredAtItsCommit'
  <2>1. ASSUME NEW k \in RunSlot,
               r[k].producer = "wrapper" \/ (r[k].producer = "context" /\ r[k].run = c[k].run)
        PROVE  made[c[k].run].commit = bundle'.commit
    <3>1. r[k].run = c[k].run
      BY <1>7, <2>1 DEF ReceiptGood
    <3>2. r[k].commit <= made[c[k].run].commit
      BY <1>7, <2>1, <3>1 DEF ReceiptGood, TraceGood
    <3>3. made[c[k].run] \in Taken
      BY <1>6, ElementOfSeq DEF IInv, TypeOK
    <3>4. made[c[k].run].commit \in Nat
      BY <3>3 DEF Taken
    <3>5. QED
      BY <1>6, <1>7, <3>2, <3>4
  <2>2. Measured' = {k \in RunSlot : \/ r[k].producer = "wrapper"
                                     \/ (r[k].producer = "context" /\ r[k].run = c[k].run)}
    BY <1>3 DEF Measured
  <2>3. \A k \in Measured' : made'[bundle'.components[k].run].commit = bundle'.commit
    BY <1>1, <1>3, <2>1, <2>2
  <2>4. QED
    BY <2>3 DEF MeasuredAtItsCommit, MadeBy
<1>9. TokenRunsAreIndependent'
  BY <1>3 DEF TokenRunsAreIndependent, DistinctTokenEvidence
<1>10. OnlyCompletedRuns'
  <2>1. \A k \in RunSlot : r[k].producer = "wrapper" => made[r[k].run].exit = 0
    BY <1>7 DEF ReceiptGood
  <2>2. QED
    BY <1>1, <1>3, <1>6, <2>1 DEF OnlyCompletedRuns, MadeBy
<1>11. DownloadColdIsGenuine'
  BY <1>1, <1>3, <1>6 DEF DownloadColdIsGenuine, MadeBy
<1>12. BundleGood'
  BY <1>1, <1>8, <1>9, <1>10, <1>11 DEF BundleGood
<1>13. TypeOK' /\ JobGood' /\ RunningGood' /\ ContextGood' /\ FilesGood' /\ ReceiptsGood'
  BY <1>1, <1>5 DEF IInv, TypeOK, CacheGood, JobGood, RunningGood, IsRunning, ContextGood,
     FilesGood, ReceiptsGood
<1>14. QED
  BY <1>12, <1>13 DEF IInv

--------------------------------------------------------------------------------
(* IInv holds in every state: of every file and receipt that lies about,    *)
(* copied, overwritten or written for another, it says what they still      *)
(* prove, and BundleGood what the builder makes of that.                    *)
THEOREM InductiveInvariant == Spec => []IInv
<1>1. Init => IInv
  <2> SUFFICES ASSUME Init PROVE IInv
    OBVIOUS
  <2>1. repo \in [commit : Commit, clean : BOOLEAN]
    BY BundleAssumption DEF Init, Commit
  <2>2. CacheGood
    BY DEF Init, CacheGood, Left
  <2>3. made = <<>> /\ made \in Seq(Taken) /\ job = None
    BY DEF Init
  <2>4. TypeOK
    BY <2>1, <2>2, <2>3 DEF Init, TypeOK
  <2>5. QED
    BY <2>3, <2>4 DEF Init, IInv, JobGood, RunningGood, IsRunning, ContextGood, FilesGood,
       ReceiptsGood, BundleGood, RunSlot, Slot
<1>2. IInv /\ [Next]_vars => IInv'
  <2> SUFFICES ASSUME IInv, [Next]_vars PROVE IInv'
    OBVIOUS
  <2>1. CASE Next
    <3>1. bundle = None
      BY <2>1, BundleIsLast DEF IInv
    <3>2. CASE Pull \/ Edit \/ Restore
      BY <3>1, <3>2, WorktreeStep
    <3>3. CASE Begin
      BY <3>1, <3>3, BeginStep
    <3>4. CASE Trace
      BY <3>1, <3>4, TraceStep
    <3>5. CASE Load
      BY <3>1, <3>5, LoadStep
    <3>6. CASE LoadFails \/ WarmFails
      BY <3>1, <3>6, LoadFailsStep, WarmFailsStep
    <3>7. CASE FinishSmoke \/ FinishBenchmark
      BY <3>1, <3>7, FinishSmokeStep, FinishBenchmarkStep
    <3>8. CASE Kill
      BY <3>1, <3>8, KillStep
    <3>9. CASE BuildReceipt \/ \E k \in Slot : WriteExecutionReceipt(k)
      BY <3>1, <3>9, ReceiptSteps
    <3>10. CASE ListModelFiles
      BY <3>1, <3>10, ListModelFilesStep
    <3>11. CASE Build
      BY <3>1, <3>11, BuildStep
    <3>12. CASE \E k \in Slot : Enter(k)
      BY <3>1, <3>12, EnterStep
    <3>13. CASE \E k \in Slot : Overwrite(k)
      BY <3>1, <3>13, OverwriteStep
    <3>14. CASE \E k \in Slot : Migrate(k)
      BY <3>1, <3>14, MigrateStep
    <3>15. CASE \E k \in Slot, l \in Slot : CopyFlipped(k, l)
      BY <3>1, <3>15, CopyFlippedStep
    <3>16. QED
      BY <2>1, <3>2, <3>3, <3>4, <3>5, <3>6, <3>7, <3>8, <3>9, <3>10, <3>11, <3>12,
         <3>13, <3>14, <3>15 DEF Next
  <2>2. CASE UNCHANGED vars
    BY <2>2 DEF vars, IInv, TypeOK, CacheGood, JobGood, RunningGood, IsRunning, Ended,
       ContextGood, FilesGood, ReceiptsGood, BundleGood, MeasuredAtItsCommit, Measured,
       MadeBy, TokenRunsAreIndependent, OnlyCompletedRuns, DownloadColdIsGenuine
  <2>3. QED
    BY <2>1, <2>2
<1>3. QED
  BY <1>1, <1>2, PTL DEF Spec

(* A measurement in a bundle ran the code of the bundle's commit, if its    *)
(* receipt was begun before the run and is its own: the commit the receipt  *)
(* asked for first and the commit the file asked for later are the same,    *)
(* and the worktree never moves back (telemetry.py:281, 405).               *)
THEOREM MeasuredWithTheBundlesCode == Spec => []MeasuredAtItsCommit
<1>1. IInv => MeasuredAtItsCommit
  BY DEF IInv, BundleGood, MeasuredAtItsCommit
<1>2. QED
  BY <1>1, InductiveInvariant, PTL

(* No copy, overwriting or wrong argument makes one execution of the smoke  *)
(* test pass for both token paths (build_local_stage0_bundle.py:46).        *)
THEOREM TokenPathsRanTwice == Spec => []TokenRunsAreIndependent
<1>1. IInv => TokenRunsAreIndependent
  BY DEF IInv, BundleGood, TokenRunsAreIndependent
<1>2. QED
  BY <1>1, InductiveInvariant, PTL

(* No refused, broken-off or killed run is part of a bundle, nor a receipt  *)
(* of run_with_receipt for one (telemetry.py:418,                           *)
(* build_local_stage0_bundle.py:382).                                       *)
THEOREM OnlyRunsThatEndedWell == Spec => []OnlyCompletedRuns
<1>1. IInv => OnlyCompletedRuns
  BY DEF IInv, BundleGood, OnlyCompletedRuns
<1>2. QED
  BY <1>1, InductiveInvariant, PTL

(* A run of a bundle that says it began with an empty cache fetched the     *)
(* model (telemetry.py:808).                                                *)
THEOREM ColdMeansFetched == Spec => []DownloadColdIsGenuine
<1>1. IInv => DownloadColdIsGenuine
  BY DEF IInv, BundleGood, DownloadColdIsGenuine
<1>2. QED
  BY <1>1, InductiveInvariant, PTL
================================================================================
