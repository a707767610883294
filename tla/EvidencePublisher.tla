--------------------------- MODULE EvidencePublisher ---------------------------
(***************************************************************************)
(* scripts/publish_evidence.py and scripts/verify_evidence_manifest.py:    *)
(* an operator publishes one evidence document after another into          *)
(* docs/evidence/stage0/.  A publication validates, sanitises, validates   *)
(* again, writes the document and its receipts as files of their own and   *)
(* then replaces the manifest that names them; the process may die between *)
(* any two file operations.  The verifier reads the manifest and the files *)
(* and may be run at any time, so its verdict is an operator on the state. *)
(*                                                                         *)
(* A document is a record of what the validators tell apart.  A file has a *)
(* name of its own (a time stamp in microseconds and 32 random bits) and   *)
(* is Absent, Partial while it is being written, or the document in it;    *)
(* its SHA-256 is its content.                                             *)
(***************************************************************************)
EXTENDS Naturals, FiniteSets

CONSTANTS
  LocalKey,   (* the receipts a passing local bundle must have              *)
  CloudKey,   (* the receipts of a cloud record                             *)
  StrayKey,   (* other keys under "receipts" of a local bundle              *)
  Candidate,  (* the documents operators come up with                       *)
  MaxFiles,   (* bound: how many files are ever created                     *)
  RenameMayFail, (* TRUE: os.rename onto an existing file may raise, as it  *)
                 (* does on Windows; FALSE: it replaces the file at once    *)
  Absent,     (* no such file; no such entry, or one whose fields are null  *)
  Partial     (* opened for writing and not closed                          *)

ReceiptKey == LocalKey \cup CloudKey \cup StrayKey
Types == {"smoke_test", "benchmark_suite", "model_artifact",
          "local_stage0_bundle", "cloud_stage0", "execution_receipt"}

(* What a receipt found inside a document is worth: it validates and is     *)
(* release ready, it validates but tells of a failed or unclean run, it     *)
(* does not validate, or it is not there.                                   *)
Quality == {"ready", "valid", "broken", "none"}

(* Where personal paths stand: nowhere, in text that no digest covers, in a *)
(* component whose digest a receipt binds, or nested so that removing them  *)
(* once leaves another one.                                                 *)
Paths == {"none", "free", "bound", "nested"}

Document == [type : Types,
             origin : {"real", "synthetic", "disagreeing", "missing"},
             schema : BOOLEAN,        (* the other rules of validate() hold *)
             passed : BOOLEAN,        (* success, suite_passed, bundle_passed *)
             digestsMatch : BOOLEAN,  (* the receipts bind the components   *)
             paths : Paths,
             receipts : [ReceiptKey -> Quality]]

File == 1 .. MaxFiles
ManifestKey(t) == IF t = "cloud_stage0" THEN "cloud_summary" ELSE t
Key == ReceiptKey \cup {ManifestKey(t) : t \in Types}

(* An entry of the manifest; a receipt is bound to its document, a document *)
(* to itself.                                                               *)
Entry == [filename : File, sha256 : Document, evidence_type : Types, boundTo : File]
Manifest == [Key -> {Absent} \cup Entry]

ASSUME PublisherAssumption ==
  /\ Candidate \subseteq Document
  /\ MaxFiles \in Nat
  /\ RenameMayFail \in BOOLEAN
  /\ IsFiniteSet(ReceiptKey)
  /\ LocalKey \cap CloudKey = {} /\ (LocalKey \cup CloudKey) \cap StrayKey = {}
  /\ ReceiptKey \cap (Types \cup {"cloud_summary"}) = {}
  /\ Absent # Partial /\ {Absent, Partial} \cap (Document \cup Entry \cup Manifest) = {}

VARIABLES
  files,     (* the directory, without the manifest                         *)
  nextFile,  (* the next unused file name                                   *)
  manifest,  (* evidence_manifest.json                                      *)
  tmp,       (* evidence_manifest.tmp.json                                  *)
  pc,        (* where the publication stands                                *)
  type,      (* its --type                                                  *)
  dryRun,    (* its --dry-run                                               *)
  document,  (* raw_data, then sanitised                                    *)
  dest,      (* dest_path                                                   *)
  pending,   (* the manifest in memory                                      *)
  todo,      (* the receipts still to be written                            *)
  (* Auxiliary: NothingIsForgotten reads it, no action does.                *)
  unread     (* there was a whole manifest and reading it raised            *)

command == <<type, dryRun>>
memory == <<command, document, dest, pending, todo, unread>>
disk == <<files, nextFile, manifest, tmp>>
vars == <<disk, pc, memory>>

--------------------------------------------------------------------------------
(* The validators.                                                          *)

AllBound(d, keys) ==
  d.digestsMatch /\ \A k \in keys : d.receipts[k] = "ready"

(* validate_recursive: the typed validate() and the records nested in it.   *)
(* A local bundle looks at its receipts only when it claims to have passed, *)
(* and then only at those it requires; a cloud record must have passed.     *)
ValidateRecursive(d) ==
  /\ d.schema
  /\ d.type = "local_stage0_bundle" /\ d.passed => AllBound(d, LocalKey)
  /\ d.type = "cloud_stage0" => d.passed /\ AllBound(d, CloudKey)

(* _validate_and_load: what only the publisher asks.                        *)
ValidateAndLoad(d, t) ==
  /\ d.type = t
  /\ d.origin = "real"
  /\ d.type \in {"smoke_test", "benchmark_suite"} => d.passed

Accepted(d, t) == ValidateRecursive(d) /\ ValidateAndLoad(d, t)

(* _sanitise_evidence: one pass over every string.  Text under a digest     *)
(* changes and the digest does not.                                         *)
Sanitise(d) ==
  [d EXCEPT !.paths = IF @ = "nested" THEN "free" ELSE "none",
            !.digestsMatch = @ /\ d.paths # "bound"]

Idempotent(d) == Sanitise(Sanitise(d)) = Sanitise(d)

(* The file a receipt of d becomes.                                         *)
ReceiptFile(d, k) ==
  [d EXCEPT !.type = "execution_receipt",
            !.schema = d.receipts[k] # "broken",
            !.receipts = [j \in ReceiptKey |-> "none"]]

(* The receipts main() writes beside a document.                            *)
ReceiptsOf(d) ==
  LET present == {k \in ReceiptKey : d.receipts[k] # "none"}
  IN CASE d.type = "local_stage0_bundle" -> present
       [] d.type = "cloud_stage0" -> present \cap CloudKey
       [] OTHER -> {}

EmptyManifest == [k \in Key |-> Absent]

Readable == manifest \notin {Absent, Partial}

(* _load_manifest: a manifest that is missing, cannot be parsed or whose    *)
(* reading raises an OSError counts as an empty one.                        *)
Loaded(raises) == IF Readable /\ ~raises THEN manifest ELSE EmptyManifest

--------------------------------------------------------------------------------
(* No publication is running: the memory of the last one is gone.           *)
AtRest ==
  /\ pc = "idle" /\ type = "" /\ dryRun = FALSE /\ document = Absent
  /\ dest = 0 /\ pending = EmptyManifest /\ todo = {} /\ unread = FALSE

(* A repository starts without a manifest or with one whose entries are     *)
(* all null.                                                                *)
Init ==
  /\ files = [f \in File |-> Absent]
  /\ nextFile = 1
  /\ manifest \in {Absent, EmptyManifest}
  /\ tmp = Absent
  /\ AtRest

(* The process ends, with whatever exit code.                               *)
Ends ==
  /\ pc' = "idle" /\ type' = "" /\ dryRun' = FALSE /\ document' = Absent
  /\ dest' = 0 /\ pending' = EmptyManifest /\ todo' = {} /\ unread' = FALSE

Goto(from, to) == pc = from /\ pc' = to

(* The bound: whoever publishes finds room for the document and its         *)
(* receipts.                                                                *)
Room(d) == nextFile + Cardinality(ReceiptsOf(d)) <= MaxFiles

Start(d, t, dry) ==
  /\ AtRest
  /\ dry \/ Room(d)
  /\ pc' = "validating"
  /\ document' = d /\ type' = t /\ dryRun' = dry
  /\ UNCHANGED <<disk, dest, pending, todo, unread>>

Validate ==
  /\ Goto("validating", "sanitising")
  /\ Accepted(document, type) /\ ~dryRun
  /\ UNCHANGED <<disk, memory>>

(* Validation errors, or the end of a dry run.                              *)
StopAtValidation ==
  /\ pc = "validating"
  /\ ~Accepted(document, type) \/ dryRun
  /\ Ends
  /\ UNCHANGED disk

(* Slip: the sanitised document is not validated again.                     *)
SanitiseAndRevalidate_Trusting ==
  /\ Goto("sanitising", "opening")
  /\ Idempotent(document)
  /\ document' = Sanitise(document)
  /\ UNCHANGED <<disk, command, dest, pending, todo, unread>>

SanitiseAndRevalidate ==
  /\ Goto("sanitising", "opening")
  /\ Idempotent(document)
  /\ Accepted(Sanitise(document), type)
  /\ document' = Sanitise(document)
  /\ UNCHANGED <<disk, command, dest, pending, todo, unread>>

StopAtSanitising ==
  /\ pc = "sanitising"
  /\ ~(Idempotent(document) /\ Accepted(Sanitise(document), type))
  /\ Ends
  /\ UNCHANGED disk

OpenFile ==
  /\ files' = [files EXCEPT ![nextFile] = Partial]
  /\ nextFile' = nextFile + 1

OpenEvidence ==
  /\ Goto("opening", "writing")
  /\ OpenFile
  /\ dest' = nextFile
  /\ UNCHANGED <<manifest, tmp, command, document, pending, todo, unread>>

WriteEvidence ==
  /\ Goto("writing", "loading")
  /\ files' = [files EXCEPT ![dest] = document]
  /\ UNCHANGED <<nextFile, manifest, tmp, memory>>

(* Slip: the name of the document stands in every receipt's entry.          *)
EntryFor_Embedded(f, content, t) ==
  [filename |-> dest, sha256 |-> content, evidence_type |-> t, boundTo |-> dest]

EntryFor(f, content, t) ==
  [filename |-> f, sha256 |-> content, evidence_type |-> t, boundTo |-> dest]

(* The manifest is read, or not, and the entry of the document is set in    *)
(* memory.                                                                  *)
LoadManifest(raises) ==
  /\ Goto("loading", "receipts")
  /\ raises => Readable
  /\ unread' = raises
  /\ pending' = [Loaded(raises) EXCEPT ![ManifestKey(type)] =
                   EntryFor(dest, files[dest], type)]
  /\ todo' = ReceiptsOf(document)
  /\ UNCHANGED <<disk, command, document, dest>>

OpenReceipt ==
  /\ Goto("receipts", "receipt")
  /\ todo # {}
  /\ OpenFile
  /\ UNCHANGED <<manifest, tmp, memory>>

(* The file last opened becomes the receipt; a JSON object has its keys in  *)
(* any order.                                                               *)
WriteReceipt(k) ==
  /\ Goto("receipt", "receipts")
  /\ k \in todo
  /\ todo' = todo \ {k}
  /\ files' = [files EXCEPT ![nextFile - 1] = ReceiptFile(document, k)]
  /\ pending' = [pending EXCEPT ![k] =
       EntryFor(nextFile - 1, ReceiptFile(document, k), "execution_receipt")]
  /\ UNCHANGED <<nextFile, manifest, tmp, command, document, dest, unread>>

(* Slip: the manifest is replaced although receipts are still to come.      *)
OpenTmp_Hasty ==
  /\ Goto("receipts", "dumping")
  /\ tmp' = Partial
  /\ UNCHANGED <<files, nextFile, manifest, memory>>

(* Slip: the manifest is overwritten in place.                              *)
OpenTmp_InPlace ==
  /\ Goto("receipts", "dumping")
  /\ todo = {}
  /\ tmp' = Partial /\ manifest' = Partial
  /\ UNCHANGED <<files, nextFile, memory>>

OpenTmp ==
  /\ Goto("receipts", "dumping")
  /\ todo = {}
  /\ tmp' = Partial
  /\ UNCHANGED <<files, nextFile, manifest, memory>>

DumpTmp ==
  /\ Goto("dumping", "moving")
  /\ tmp' = pending
  /\ UNCHANGED <<files, nextFile, manifest, memory>>

(* shutil.move: os.rename, which replaces the manifest at once ...          *)
MoveTmp ==
  /\ pc = "moving"
  /\ manifest' = tmp
  /\ tmp' = Absent
  /\ Ends
  /\ UNCHANGED <<files, nextFile>>

(* ... or, when it raises because there is a manifest, a copy over it ...   *)
CopyOver ==
  /\ Goto("moving", "copying")
  /\ RenameMayFail /\ manifest # Absent
  /\ manifest' = Partial
  /\ UNCHANGED <<files, nextFile, tmp, memory>>

FinishCopy ==
  /\ Goto("copying", "unlinking")
  /\ manifest' = tmp
  /\ UNCHANGED <<files, nextFile, tmp, memory>>

(* ... after which the temporary one is removed.                            *)
UnlinkTmp ==
  /\ pc = "unlinking"
  /\ tmp' = Absent
  /\ Ends
  /\ UNCHANGED <<files, nextFile, manifest>>

(* An OSError while the temporary manifest is written, moved or copied.     *)
ManifestFails ==
  /\ \/ pc = "receipts" /\ todo = {}
     \/ pc \in {"dumping", "moving", "copying", "unlinking"}
  /\ tmp' = Absent
  /\ Ends
  /\ UNCHANGED <<files, nextFile, manifest>>

(* The process is killed, or a write of evidence raises.                    *)
Crash ==
  /\ pc # "idle"
  /\ Ends
  /\ UNCHANGED disk

Next ==
  \/ \E d \in Candidate, t \in Types, dry \in BOOLEAN : Start(d, t, dry)
  \/ Validate \/ StopAtValidation
  \/ SanitiseAndRevalidate \/ StopAtSanitising
  \/ OpenEvidence \/ WriteEvidence
  \/ \E raises \in BOOLEAN : LoadManifest(raises)
  \/ OpenReceipt \/ \E k \in ReceiptKey : WriteReceipt(k)
  \/ OpenTmp \/ DumpTmp \/ MoveTmp \/ CopyOver \/ FinishCopy \/ UnlinkTmp
  \/ ManifestFails
  \/ Crash

Spec == Init /\ [][Next]_vars

--------------------------------------------------------------------------------
(* The verifier.                                                            *)

(* EXPECTED_TYPES and the rule for receipt_<key>; "" where it has no type   *)
(* to expect and looks no further than the hash.                            *)
ExpectedType(k) ==
  IF k \in ReceiptKey THEN "execution_receipt"
  ELSE IF k = "execution_receipt" THEN ""
  ELSE CHOOSE t \in Types : ManifestKey(t) = k

EntryVerifies(k) ==
  LET e == manifest[k]
      found == files[e.filename]
  IN \/ e = Absent
     \/ /\ found \notin {Absent, Partial}
        /\ e.sha256 = found
        /\ ExpectedType(k) # "" =>
             /\ e.evidence_type = ExpectedType(k)
             /\ found.type = ExpectedType(k)
             /\ ValidateRecursive(found)

--------------------------------------------------------------------------------
(* Properties.                                                              *)

(* A local bundle is published with every receipt it has, also under a key  *)
(* that it does not require, a key of the cloud record among them.          *)
NotRequired(k) ==
  k \notin LocalKey /\ files[manifest[k].boundTo].type = "local_stage0_bundle"

(* No validator has seen these, nor any receipt of a bundle that did not    *)
(* pass.                                                                    *)
Unseen(k) ==
  k \in ReceiptKey /\ (NotRequired(k) \/ ~files[manifest[k].boundTo].passed)

(* Whatever was published, refused or interrupted, and at whatever moment   *)
(* the verifier runs: every entry of a manifest that can be read names a    *)
(* complete file of the right type whose bytes hash as recorded and whose   *)
(* content validates, except receipts that nobody validated; and a manifest *)
(* that exists can be read, unless a copy over it was cut short because     *)
(* os.rename had raised.                                                    *)
VerifierAgrees ==
  /\ manifest = Partial => RenameMayFail
  /\ Readable => \A k \in Key : EntryVerifies(k) \/ Unseen(k)

(* "Updates evidence_manifest.json atomically" (the publisher's docstring): *)
(* nobody ever finds half a manifest.                                       *)
ManifestIsWhole == manifest # Partial

(* "Each receipt is validated and its SHA-256 is recorded" (the publisher's *)
(* docstring): the verifier accepts every receipt the publisher published.  *)
PublishedReceiptsVerify ==
  Readable =>
    \A k \in ReceiptKey : EntryVerifies(k)

(* The required receipts the manifest names are those of the evidence it    *)
(* names: of a passing bundle, and of the cloud record, never of an         *)
(* earlier publication.  Only a later bundle can take the place of a cloud  *)
(* receipt, with a receipt under that key which it does not require.        *)
CurrentReceipts(key, keys) ==
  LET e == manifest[key]
  IN e # Absent /\ files[e.filename].passed =>
       \A k \in keys : /\ manifest[k] # Absent
                       /\ manifest[k].boundTo = e.filename \/ NotRequired(k)

ReceiptsFollowTheirEvidence ==
  Readable =>
    /\ CurrentReceipts("local_stage0_bundle", LocalKey)
    /\ CurrentReceipts("cloud_summary", CloudKey)

(* What the manifest names is a real measurement without personal paths,    *)
(* and after the removal of the paths the receipts of passing evidence      *)
(* still bind its components.                                               *)
SanitisedAndStillBound ==
  Readable =>
    \A k \in Key : manifest[k] # Absent =>
      LET d == files[manifest[k].filename]
      IN /\ d.paths = "none"
         /\ d.origin = "real"
         /\ d.type \in {"local_stage0_bundle", "cloud_stage0"} /\ d.passed =>
              d.digestsMatch

(* A key of the manifest that has an entry keeps one, and the file an entry *)
(* names is never written again: no publication, no failure and no crash    *)
(* loses what was published under another key, with two exceptions.  A      *)
(* publication whose reading of a whole manifest raised starts from an empty*)
(* one; and a manifest that is copied over, for which the complete temporary*)
(* one stands at that moment, is lost if the copy is cut short.             *)
NothingIsForgotten ==
  [][Readable =>
       LET kept == IF RenameMayFail /\ manifest' = Partial THEN tmp' ELSE manifest'
       IN /\ kept \notin {Absent, Partial}
          /\ \A k \in Key : manifest[k] # Absent =>
               /\ kept[k] # Absent \/ unread
               /\ files'[manifest[k].filename] = files[manifest[k].filename]]_vars
================================================================================
