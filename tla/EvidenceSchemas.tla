---------------------------- MODULE EvidenceSchemas ----------------------------
(***************************************************************************)
(* What src/evidence_schemas.py and src/evidence_validation.py accept of   *)
(* the local Stage 0 evidence: the two cache inspections of a run, the     *)
(* smoke test, the benchmark suite, the model artifact, the receipt of an  *)
(* execution and the bundle of five components and their receipts.         *)
(*                                                                         *)
(* A document is a record of what these rules tell apart.  Two documents   *)
(* are equal exactly when their files are, so a document stands for its    *)
(* digests too.  `run' is the identity of an execution: its run id and its *)
(* start and completion times, which no other execution shares.            *)
(***************************************************************************)
EXTENDS Integers, FiniteSets

CONSTANTS
  None,      (* an empty string, a missing value                             *)
  Folds      (* the folds of the rolling scenario, 10 in the code            *)

ASSUME FoldsAssumption == Folds \in Nat \ {0}

DownloadCold == "download_cold"
ProcessCold == "process_cold_cached_weights"
SameProcessWarm == "same_process_warm"
InitialCacheState == {DownloadCold, ProcessCold}

(* The slots of a bundle: four runs and the inventory of the model.         *)
SmokeSlot == {"download_cold_smoke", "process_cold_smoke", "token_present_smoke"}
RunSlot == SmokeSlot \cup {"benchmark"}
Slot == RunSlot \cup {"model_artifact"}

(* What git said: no commit is never a clean worktree.                      *)
NoTrace == [commit |-> None, clean |-> FALSE]

(* A look at the model cache: the cache directory was found, the snapshot   *)
(* directory of the pinned revision was found, there are files in it.       *)
Inspection == [ok : BOOLEAN, present : BOOLEAN, files : BOOLEAN]

(* CachePreflight.validate: the label must be borne out by both inspections.*)
CachePreflightValid_PostOnly(p) ==
  /\ p.pre.ok /\ p.post.ok
  /\ p.label \in InitialCacheState
  /\ p.label = DownloadCold => p.post.present /\ p.post.files
  /\ p.label = ProcessCold => p.pre.present /\ p.pre.files

CachePreflightValid(p) ==
  /\ p.pre.ok /\ p.post.ok
  /\ p.label \in InitialCacheState
  /\ p.label = DownloadCold => ~p.pre.present /\ p.post.present /\ p.post.files
  /\ p.label = ProcessCold => p.pre.present /\ p.pre.files

NoPreflight ==
  LET unseen == [ok |-> FALSE, present |-> FALSE, files |-> FALSE]
  IN  [label |-> None, pre |-> unseen, post |-> unseen]

(* A token path that succeeded must say which execution took it.            *)
NotAttempted == [attempted |-> FALSE, success |-> FALSE, run |-> None]
TokenPathValid(t) == t.attempted /\ t.success => t.run # None

Traced(d) == d.commit # None /\ d.clean

SmokeValid(d) ==
  /\ Traced(d)
  /\ d.label \in InitialCacheState
  /\ TokenPathValid(d.absent) /\ TokenPathValid(d.present)
  /\ d.success => /\ d.present.attempted = d.token
                  /\ d.absent.attempted = ~d.token
                  /\ d.label = DownloadCold => ~d.preflight.pre.present
                  /\ d.label = ProcessCold => d.preflight.pre.present
                  /\ d.revision # None
                  /\ d.loads <= 1

RequiredScenario == {"weekly_260_13", "panel_5_series", "10_rolling_calls",
                     "failure_and_retry"}
ModelScenario == RequiredScenario \ {"failure_and_retry"}

SuiteValid(d) ==
  /\ Traced(d)
  /\ d.label \in InitialCacheState
  /\ CachePreflightValid(d.preflight)
  /\ d.success => /\ d.revision # None
                  /\ d.loads = 1
                  /\ RequiredScenario \subseteq DOMAIN d.scenarios
                  /\ \A s \in DOMAIN d.scenarios : d.scenarios[s].passed
                  /\ \A s \in ModelScenario : d.scenarios[s].revision = d.revision
                  /\ d.scenarios["10_rolling_calls"].succeeded = Folds
                  /\ d.scenarios["weekly_260_13"].warm = SameProcessWarm

(* A file of the inventory is a weight or a configuration, hashed or not.   *)
ArtifactValid(d) ==
  /\ Traced(d)
  /\ d.revision # None /\ d.snapshot = d.revision
  /\ d.files # {} /\ \A f \in d.files : f.hashed
  /\ d.declared > 0 => d.declared = Cardinality(d.files)
  /\ d.weights = Cardinality({f \in d.files : f.weight}) /\ d.weights >= 1

(* ExecutionReceipt.validate and, on top of it, receipt_is_release_ready.   *)
ReceiptValid(r) ==
  /\ r.id # None /\ r.commit # None
  /\ r.exit >= 0
  /\ r.file # None \/ r.canonical # None
  /\ r.revision # None

ReleaseReady(r) == ReceiptValid(r) /\ r.exit = 0 /\ r.clean

(* evidence_from_dict: strict reading rejects a field no class declares,    *)
(* the permissive one drops it.                                             *)
ParsesStrictly(d) == ~d.unknown
Permissive(d) == [d EXCEPT !.unknown = FALSE]

ValidateRecursive(d) ==
  /\ ParsesStrictly(d)
  /\ CASE d.type = "smoke_test" -> SmokeValid(d) /\ CachePreflightValid(d.preflight)
       [] d.type = "benchmark_suite" -> SuiteValid(d)
       [] d.type = "model_artifact" -> ArtifactValid(d)

(* The receipts of a passing bundle: each is release ready, binds the       *)
(* content embedded in its slot, and tells of an execution of its own.      *)
DistinctExecutions(receipts) ==
  \A j, k \in DOMAIN receipts : receipts[j].id = receipts[k].id => j = k

ReceiptsBind(b) ==
  /\ \A k \in Slot : LET r == b.receipts[k]  c == b.components[k]
                     IN  /\ ReleaseReady(r)
                         /\ r.canonical = c
                         /\ r.commit = c.commit /\ r.commit = b.commit
                         /\ r.revision = c.revision
  /\ DistinctExecutions(b.receipts)

BundleValid(b) ==
  /\ b.commit # None /\ b.clean
  /\ \A k \in RunSlot : b.components[k].commit = b.commit
  /\ ReceiptsBind(b)
  /\ Cardinality({b.components[k].revision : k \in Slot}) = 1
  /\ \A k \in Slot : ValidateRecursive(b.components[k])
=============================================================================
