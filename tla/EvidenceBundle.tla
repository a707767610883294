----------------------------- MODULE EvidenceBundle -----------------------------
(***************************************************************************)
(* How the local Stage 0 bundle comes about: an operator takes the four    *)
(* measurements in the order of the checklist                              *)
(* (scripts/chronos2_smoke_test.py, scripts/run_stage0_benchmark.py), each *)
(* under one of the three receipt writers of src/telemetry.py, lists the   *)
(* files of the model, and scripts/build_local_stage0_bundle.py binds the  *)
(* five components and their receipts.                                     *)
(*                                                                         *)
(* Git and the model cache are shared with everything else the operator    *)
(* does: the worktree is edited or moved to another commit while a         *)
(* measurement runs, a download is interrupted, a run is killed, a file is *)
(* overwritten, copied or given to the builder in the wrong place.  Each   *)
(* of these costs one of MaxMishaps.  Measurements run one at a time.      *)
(***************************************************************************)
EXTENDS EvidenceSchemas, Sequences

CONSTANTS
  MaxCommits,     (* the commits the worktree may move through               *)
  RevisionOf,     (* the model revision config.py pins at a commit           *)
  EmitsOsName,    (* whether machine_summary reports os_name at a commit     *)
  MaxRuns,        (* the measurements the operator has the patience for     *)
  MaxMishaps

Commit == 1 .. MaxCommits

ASSUME BundleAssumption ==
  /\ MaxCommits \in Nat \ {0} /\ MaxMishaps \in Nat /\ MaxRuns \in Nat
  /\ RevisionOf \in [Commit -> Nat] /\ EmitsOsName \in [Commit -> BOOLEAN]

Revision == {RevisionOf[c] : c \in Commit}
Mode == {"context", "wrapper", "legacy"}
Checklist == <<"download_cold_smoke", "process_cold_smoke", "token_present_smoke",
               "benchmark", "model_artifact">>

VARIABLES
  mode,      (* the receipt writer this operator uses                        *)
  repo,      (* the worktree: its commit, and whether it is clean            *)
  cache,     (* the model cache: its directory, the snapshot of a revision   *)
  job,       (* the measurement under way                                    *)
  out,       (* the evidence file of a slot                                  *)
  receipt,   (* the receipt of a slot                                        *)
  context,   (* a ReceiptContext that was left and has built no receipt yet  *)
  made,      (* history: what every measurement that ran really was          *)
  bundle,    (* what the builder wrote                                       *)
  mishaps

vars == <<mode, repo, cache, job, out, receipt, context, made, bundle, mishaps>>

Run == 1 .. Len(made)
Spend(n) == mishaps + n <= MaxMishaps /\ mishaps' = mishaps + n
Cost(isMishap) == IF isMishap THEN 1 ELSE 0

(* capture_traceability: what git says now; a status that fails counts as   *)
(* not clean, and without a commit nothing is known.                        *)
CaptureTraceability == {repo, [repo EXCEPT !.clean = FALSE], NoTrace}

Init ==
  /\ mode \in Mode
  /\ repo = [commit |-> 1, clean |-> TRUE]
  /\ cache \in [dir : BOOLEAN, of : [Revision -> {"absent"}]]
  /\ job = None /\ context = None /\ bundle = None
  /\ out = [k \in Slot |-> None] /\ receipt = [k \in Slot |-> None]
  /\ made = <<>> /\ mishaps = 0

-----------------------------------------------------------------------------
(* The worktree.                                                            *)

Pull ==
  /\ bundle = None /\ repo.commit < MaxCommits /\ Spend(1)
  /\ repo' = [commit |-> repo.commit + 1, clean |-> TRUE]
  /\ UNCHANGED <<mode, cache, job, out, receipt, context, made, bundle>>

Edit ==
  /\ bundle = None /\ repo.clean /\ Spend(1)
  /\ repo' = [repo EXCEPT !.clean = FALSE]
  /\ UNCHANGED <<mode, cache, job, out, receipt, context, made, bundle>>

Restore ==
  /\ bundle = None /\ ~repo.clean
  /\ repo' = [repo EXCEPT !.clean = TRUE]
  /\ UNCHANGED <<mode, cache, job, out, receipt, context, made, bundle, mishaps>>

-----------------------------------------------------------------------------
(* The runs.                                                                *)

(* inspect_hf_cache: a snapshot directory counts as present with any        *)
(* content, an interrupted download included.                               *)
InspectHfCache(revision) ==
  [ok |-> cache.dir,
   present |-> cache.dir /\ cache.of[revision] # "absent",
   files |-> cache.dir /\ cache.of[revision] \in {"partial", "complete"}]

NominalLabel(k) == IF k = "download_cold_smoke" THEN DownloadCold ELSE ProcessCold
NominalToken(k) == k = "token_present_smoke"

(* To the operator a slot is done when its file and receipt tell of success.*)
Done(k) == /\ out[k] # None /\ receipt[k] # None
           /\ (k \in RunSlot => out[k].success) /\ receipt[k].exit = 0

IsNext(k) == \E i \in DOMAIN Checklist :
               Checklist[i] = k /\ ~Done(k) /\ \A h \in 1 .. (i - 1) : Done(Checklist[h])

(* ReceiptContext.__enter__ and run_with_receipt take the commit before the *)
(* command starts, the legacy writer much later.                            *)
Enter(k) ==
  /\ bundle = None /\ job = None /\ context = None
  /\ k \in RunSlot /\ IsNext(k) /\ Len(made) < MaxRuns
  /\ ~(mode = "legacy" /\ out[k] # None /\ out[k].success)
  /\ \E label \in InitialCacheState, token \in BOOLEAN, t \in CaptureTraceability :
       /\ Spend(Cost(<<label, token>> # <<NominalLabel(k), NominalToken(k)>>)
                + Cost(mode # "legacy" /\ t # repo))
       /\ mode = "legacy" => t = repo
       /\ job' = [slot |-> k, stage |-> "entered", label |-> label, token |-> token,
                  run |-> 0, code |-> 0, trace |-> t, own |-> NoTrace,
                  pre |-> NoPreflight.pre, failed |-> FALSE]
  /\ UNCHANGED <<mode, repo, cache, out, receipt, context, made, bundle>>

(* What a run says of its token path; only the path it took is attempted.   *)
Attempt(j, ok) == [attempted |-> TRUE, success |-> ok, run |-> j.run]

SmokeDoc(j, success, attempt, post) ==
  [type |-> "smoke_test", run |-> j.run, commit |-> j.own.commit, clean |-> j.own.clean,
   revision |-> IF attempt.success THEN RevisionOf[j.code] ELSE None,
   unknown |-> EmitsOsName[j.code], label |-> j.label, token |-> j.token,
   absent |-> IF j.token THEN NotAttempted ELSE attempt,
   present |-> IF j.token THEN attempt ELSE NotAttempted,
   success |-> success, loads |-> Cost(attempt.success),
   preflight |-> IF success THEN [label |-> j.label, pre |-> j.pre, post |-> post]
                 ELSE NoPreflight]

SuiteDoc(j, trace, post) ==
  [type |-> "benchmark_suite", run |-> j.run, commit |-> trace.commit, clean |-> trace.clean,
   revision |-> IF j.failed THEN None ELSE RevisionOf[j.code], unknown |-> FALSE,
   label |-> j.label, success |-> ~j.failed, loads |-> Cost(~j.failed),
   preflight |-> [label |-> j.label, pre |-> j.pre, post |-> post],
   scenarios |-> [s \in RequiredScenario |->
                    [passed |-> ~j.failed, revision |-> RevisionOf[j.code],
                     succeeded |-> IF j.failed THEN 0 ELSE Folds, warm |-> SameProcessWarm]]]

(* run_with_receipt: the digest is that of whatever stands at the output    *)
(* path, which a run that wrote nothing has left as it was.                 *)
WrappedBy(j, trace, exit, file) ==
  [id |-> <<"wrapper", j.run>>, producer |-> "wrapper", run |-> j.run,
   commit |-> trace.commit, clean |-> trace.clean, exit |-> exit,
   file |-> None, canonical |-> file, revision |-> RevisionOf[j.code]]

(* Slip: the state of the worktree is asked for once the command is over.   *)
WrapperReceipt_TraceAfter(j, exit, file) == WrappedBy(j, repo, exit, file)

(* Slip: a command that ran out of time is recorded like one that ended.    *)
WrapperReceipt_TimeoutIsZero(j, exit, file) ==
  WrappedBy(j, j.trace, IF exit = -1 THEN 0 ELSE exit, file)

WrapperReceipt(j, exit, file) == WrappedBy(j, j.trace, exit, file)

(* The end of a run: the file that then stands at its output path, the exit *)
(* code (-1 when it was killed), and what the receipt writer makes of it.   *)
(* Leaving a ReceiptContext after an ordinary return is a success, whatever *)
(* the evidence says.                                                       *)
End(j, file, exit) ==
  /\ job' = None
  /\ out' = [out EXCEPT ![j.slot] = file]
  /\ made' = [made EXCEPT ![j.run].exit = exit]
  /\ receipt' = IF mode = "wrapper"
                THEN [receipt EXCEPT ![j.slot] = WrapperReceipt(j, exit, file)]
                ELSE receipt
  /\ context' = IF mode = "context" /\ exit >= 0
                THEN [slot |-> j.slot, trace |-> j.trace, run |-> j.run] ELSE context
  /\ UNCHANGED <<mode, repo, bundle>>

(* The process starts: the code of this commit is loaded, and the cache is  *)
(* looked at before anything else.                                          *)
Begin ==
  /\ job # None /\ job.stage = "entered"
  /\ job' = [job EXCEPT !.stage = "started", !.run = Len(made) + 1, !.code = repo.commit,
                        !.pre = InspectHfCache(RevisionOf[repo.commit])]
  /\ made' = Append(made, [commit |-> repo.commit, token |-> job.token,
                           fetched |-> FALSE, exit |-> -1])
  /\ UNCHANGED <<mode, repo, cache, out, receipt, context, bundle, mishaps>>

(* The smoke test asks git for the commit now; the benchmark when it writes *)
(* its envelope.                                                            *)
Trace ==
  /\ job # None /\ job.stage = "started" /\ job.slot \in SmokeSlot
  /\ \E t \in CaptureTraceability :
       /\ Spend(Cost(t # repo))
       /\ LET j == [job EXCEPT !.stage = "running", !.own = t]
              belied == (j.label = DownloadCold) = j.pre.present
          IN  IF belied
              THEN End(j, SmokeDoc(j, FALSE, NotAttempted, j.pre), 1)
              ELSE job' = j /\ UNCHANGED <<mode, repo, out, receipt, context, made, bundle>>
  /\ UNCHANGED cache

Running == /\ job # None
           /\ job.stage = IF job.slot \in SmokeSlot THEN "running" ELSE "started"

(* The first forecast loads the model, from the cache when it is complete.  *)
Load ==
  /\ Running
  /\ LET revision == RevisionOf[job.code]
     IN  /\ made' = [made EXCEPT ![job.run].fetched = cache.of[revision] # "complete"]
         /\ cache' = [dir |-> TRUE, of |-> [cache.of EXCEPT ![revision] = "complete"]]
  /\ job' = [job EXCEPT !.stage = "loaded"]
  /\ UNCHANGED <<mode, repo, out, receipt, context, bundle, mishaps>>

(* The download breaks off.  The smoke test stops there and says so; the    *)
(* benchmark counts the failure and goes on to its last scenario.           *)
LoadFails ==
  /\ Running /\ Spend(1)
  /\ LET revision == RevisionOf[job.code]
     IN  \E left \in IF cache.of[revision] = "complete" THEN {"complete"}
                     ELSE {cache.of[revision], "bare", "partial"} \ {"absent"} :
           cache' = [dir |-> TRUE, of |-> [cache.of EXCEPT ![revision] = left]]
  /\ IF job.slot \in SmokeSlot
     THEN End(job, SmokeDoc(job, FALSE, Attempt(job, FALSE), job.pre), 1)
     ELSE /\ job' = [job EXCEPT !.stage = "loaded", !.failed = TRUE]
          /\ UNCHANGED <<mode, repo, out, receipt, context, made, bundle>>

(* The warm forecast or the check of the output fails.                      *)
WarmFails ==
  /\ job # None /\ job.stage = "loaded" /\ ~job.failed /\ Spend(1)
  /\ IF job.slot \in SmokeSlot
     THEN End(job, SmokeDoc(job, FALSE, Attempt(job, TRUE), job.pre), 1)
     ELSE /\ job' = [job EXCEPT !.failed = TRUE]
          /\ UNCHANGED <<mode, repo, out, receipt, context, made, bundle>>
  /\ UNCHANGED cache

(* The end of run_smoke_test: a document its own validation rejects is      *)
(* written like any other, still a success, and the script exits with 0.    *)
FinishSmoke ==
  /\ job # None /\ job.stage = "loaded" /\ job.slot \in SmokeSlot
  /\ End(job, SmokeDoc(job, TRUE, Attempt(job, TRUE), InspectHfCache(RevisionOf[job.code])), 0)
  /\ UNCHANGED <<cache, mishaps>>

FinishBenchmark ==
  /\ job # None /\ job.stage = "loaded" /\ job.slot = "benchmark"
  /\ \E t \in CaptureTraceability :
       LET doc == SuiteDoc(job, t, InspectHfCache(RevisionOf[job.code]))
       IN  /\ Spend(Cost(t # repo))
           /\ End(job, doc, IF doc.success /\ ValidateRecursive(doc) THEN 0 ELSE 1)
  /\ UNCHANGED cache

(* A run is killed, or run_with_receipt gives up on it after an hour.       *)
Kill ==
  /\ job # None /\ job.stage # "entered" /\ Spend(1)
  /\ End(job, out[job.slot], -1)
  /\ UNCHANGED cache

(* Two runs of the smoke test that end within the same second write the     *)
(* same file: a run the preflight stops replaces the one just written.      *)
Overwrite(k) ==
  /\ bundle = None /\ job = None /\ k \in SmokeSlot /\ out[k] # None
  /\ Len(made) < MaxRuns /\ Spend(1)
  /\ LET pre == InspectHfCache(RevisionOf[repo.commit])
         j == [label |-> IF pre.present THEN DownloadCold ELSE ProcessCold, token |-> FALSE,
               run |-> Len(made) + 1, code |-> repo.commit, own |-> repo, pre |-> pre]
     IN  /\ out' = [out EXCEPT ![k] = SmokeDoc(j, FALSE, NotAttempted, pre)]
         /\ made' = Append(made, [commit |-> repo.commit, token |-> FALSE,
                                  fetched |-> FALSE, exit |-> 1])
  /\ UNCHANGED <<mode, repo, cache, job, receipt, context, bundle>>

-----------------------------------------------------------------------------
(* Between the runs.                                                        *)

(* ReceiptContext.build_receipt, of the file as it stands.                  *)
BuildReceipt ==
  /\ bundle = None /\ context # None
  /\ LET c == context  doc == out[c.slot]
     IN  receipt' = [receipt EXCEPT ![c.slot] =
           [id |-> <<"context", c.run>>, producer |-> "context", run |-> c.run,
            commit |-> c.trace.commit, clean |-> c.trace.clean, exit |-> 0,
            file |-> None, canonical |-> doc, revision |-> RevisionOf[made[c.run].commit]]]
  /\ context' = None
  /\ UNCHANGED <<mode, repo, cache, job, out, made, bundle, mishaps>>

(* write_execution_receipt: written for a file, of no execution in          *)
(* particular, with the commit of the moment and always the exit code 0.    *)
WriteExecutionReceipt(k) ==
  /\ bundle = None /\ job = None /\ context = None /\ out[k] # None
  /\ receipt[k] # None => receipt[k].canonical # out[k]
  /\ mode # "legacy" => k = "model_artifact" \/ receipt[k] # None
  /\ \E t \in CaptureTraceability :
       /\ Spend(Cost(t # repo))
       /\ receipt' = [receipt EXCEPT ![k] =
            [id |-> <<"legacy", k>>, producer |-> "legacy", run |-> 0,
             commit |-> t.commit, clean |-> t.clean, exit |-> 0,
             file |-> out[k], canonical |-> out[k], revision |-> out[k].revision]]
  /\ UNCHANGED <<mode, repo, cache, job, out, context, made, bundle>>

(* evidence_from_dict without strict, and to_dict: the fields the schema    *)
(* does not know are gone.                                                  *)
Migrate(k) ==
  /\ bundle = None /\ job = None /\ out[k] # None /\ out[k].unknown
  /\ out' = [out EXCEPT ![k] = Permissive(out[k])]
  /\ UNCHANGED <<mode, repo, cache, job, receipt, context, made, bundle, mishaps>>

(* The Gate B3 defect: the file of one run presented as that of another,    *)
(* with the token fields exchanged.                                         *)
CopyFlipped(k, l) ==
  /\ bundle = None /\ job = None /\ k \in SmokeSlot /\ l \in SmokeSlot \ {k}
  /\ out[k] # None /\ IsNext(l) /\ Spend(1)
  /\ out' = [out EXCEPT ![l] = [out[k] EXCEPT !.token = ~out[k].token,
                                             !.absent = out[k].present,
                                             !.present = out[k].absent]]
  /\ UNCHANGED <<mode, repo, cache, job, receipt, context, made, bundle>>

(* The inventory of the model's files, which no script of the repository    *)
(* writes: as it should be, or incomplete.                                  *)
File(name, weight, hashed) == [name |-> name, weight |-> weight, hashed |-> hashed]

ListModelFiles ==
  /\ bundle = None /\ job = None /\ context = None /\ IsNext("model_artifact")
  /\ out["model_artifact"] = None
  /\ \E hashed \in BOOLEAN, declared \in {0, 2, 3} :
       LET revision == RevisionOf[repo.commit]
       IN  /\ Spend(Cost(~hashed \/ declared = 3))
           /\ out' = [out EXCEPT !["model_artifact"] =
                [type |-> "model_artifact", run |-> 0, commit |-> repo.commit,
                 clean |-> repo.clean, revision |-> revision, unknown |-> FALSE,
                 snapshot |-> revision, declared |-> declared, weights |-> 1,
                 files |-> {File("config", FALSE, TRUE), File("weights", TRUE, hashed)}]]
  /\ UNCHANGED <<mode, repo, cache, job, receipt, context, made, bundle>>

-----------------------------------------------------------------------------
(* scripts/build_local_stage0_bundle.py.                                    *)

RevisionConsistency(c) ==
  Cardinality({c[k].revision : k \in Slot} \ {None}) <= 1

(* Slip: only the bytes of the two files are compared.                      *)
DistinctTokenEvidence_BytesOnly(c) ==
  c["process_cold_smoke"] # c["token_present_smoke"]

(* The executions are told apart by their run ids and by their start and    *)
(* completion, not by their measurements.                                   *)
DistinctTokenEvidence(c) ==
  LET pc == c["process_cold_smoke"]  tp == c["token_present_smoke"]
  IN  /\ pc # tp /\ pc.run # tp.run
      /\ pc.absent.run # None /\ tp.present.run # None
      /\ pc.absent.run # tp.present.run

ReceiptBinding(r, c) ==
  /\ ReceiptValid(r) /\ r.exit = 0
  /\ IF r.file # None THEN r.file = c ELSE r.canonical = c
  /\ c.commit # None => r.commit = c.commit
  /\ c.revision # None => r.revision = c.revision

(* The files given to the builder: each in its place, or one twice.         *)
Arguments ==
  LET inPlace == [k \in Slot |-> k]
  IN  {inPlace} \cup {[inPlace EXCEPT ![k] = l] : k \in SmokeSlot, l \in SmokeSlot}

Build ==
  /\ bundle = None /\ job = None
  /\ \A k \in Slot : out[k] # None /\ receipt[k] # None
  /\ \E f \in Arguments, g \in Arguments :
       LET c == [k \in Slot |-> out[f[k]]]
           r == [k \in Slot |-> receipt[g[k]]]
           b == [components |-> c, receipts |-> r,
                 commit |-> c["download_cold_smoke"].commit,
                 clean |-> c["download_cold_smoke"].clean]
       IN  /\ Spend(Cost(\E k \in Slot : f[k] # k \/ g[k] # k))
           /\ \A k \in Slot : ValidateRecursive(c[k])
           /\ RevisionConsistency(c)
           /\ f["process_cold_smoke"] # f["token_present_smoke"]
           /\ DistinctTokenEvidence(c)
           /\ \A k \in Slot : ReceiptBinding(r[k], c[k])
           /\ DistinctExecutions(r)
           /\ \A k \in RunSlot : c[k].success
           /\ BundleValid(b)
           /\ bundle' = b
  /\ UNCHANGED <<mode, repo, cache, job, out, receipt, context, made>>

Next ==
  \/ Pull \/ Edit \/ Restore
  \/ Begin \/ Trace \/ Load \/ LoadFails \/ WarmFails \/ FinishSmoke \/ FinishBenchmark
  \/ Kill \/ BuildReceipt \/ ListModelFiles \/ Build
  \/ \E k \in Slot : \/ Enter(k) \/ Overwrite(k) \/ WriteExecutionReceipt(k) \/ Migrate(k)
                     \/ \E l \in Slot : CopyFlipped(k, l)

Spec == Init /\ [][Next]_vars

-----------------------------------------------------------------------------
(* Slots whose receipt was begun before the run: those of run_with_receipt, *)
(* and those of a ReceiptContext unless it was handed the file of another   *)
(* run, of which its receipt knows nothing.                                 *)
Measured ==
  {k \in RunSlot : LET r == bundle.receipts[k]
                   IN  \/ r.producer = "wrapper"
                       \/ r.producer = "context" /\ r.run = bundle.components[k].run}
MadeBy(k) == made[bundle.components[k].run]

(* A measurement in a bundle whose receipt was begun before the run was     *)
(* taken with the code of the bundle's commit, although every file and      *)
(* receipt only quotes what git said at some moment before or after it      *)
(* (telemetry.py:281, 405, benchmarking.py:816).                            *)
MeasuredAtItsCommit ==
  bundle # None => \A k \in Measured : MadeBy(k).commit = bundle.commit

(* The two token paths of a bundle come from two executions, whatever was   *)
(* copied, overwritten or put in the wrong place on the way                 *)
(* (build_local_stage0_bundle.py:46).                                       *)
TokenRunsAreIndependent ==
  bundle # None => bundle.components["process_cold_smoke"].run
                     # bundle.components["token_present_smoke"].run

(* A bundle contains no measurement that was refused or broke off, and no   *)
(* receipt of run_with_receipt for one: a command that failed or timed out  *)
(* after an earlier one had left its file binds nothing                     *)
(* (telemetry.py:418, build_local_stage0_bundle.py:382).                    *)
OnlyCompletedRuns ==
  bundle # None =>
    \A k \in RunSlot : /\ MadeBy(k).exit = 0
                       /\ bundle.receipts[k].producer = "wrapper"
                             => made[bundle.receipts[k].run].exit = 0

(* A component that says it began with an empty cache did download the      *)
(* model (telemetry.py:808, evidence_schemas.py CachePreflight.validate).   *)
DownloadColdIsGenuine ==
  bundle # None => \A k \in RunSlot :
                     bundle.components[k].label = DownloadCold => MadeBy(k).fetched

(* A smoke file that says success is one the validation accepts: the        *)
(* docstring of run_smoke_test promises success=False on failure            *)
(* (chronos2_smoke_test.py:102), and it runs that validation itself.        *)
SuccessIsValid ==
  \A k \in SmokeSlot : out[k] # None /\ out[k].success => ValidateRecursive(out[k])
=============================================================================
