-------------------------- MODULE MCEvidencePublisher --------------------------
(* Instances of EvidencePublisher for TLC.                                  *)
EXTENDS EvidencePublisher

Local == {"receipt_benchmark", "receipt_model_artifact"}
Cloud == {"receipt_collection_receipt"}
Stray == {"receipt_other"}

(* A good document of each type, and a bundle that did not pass.            *)
Good(t, keys, passed) ==
  [type |-> t, origin |-> "real", schema |-> TRUE, passed |-> passed,
   digestsMatch |-> TRUE, paths |-> "none",
   receipts |-> [k \in ReceiptKey |-> IF k \in keys THEN "ready" ELSE "none"]]

Smoke == Good("smoke_test", {}, TRUE)
Bundle == Good("local_stage0_bundle", Local, TRUE)
FailedBundle == Good("local_stage0_bundle", {"receipt_benchmark"}, FALSE)
CloudRecord == Good("cloud_stage0", Cloud, TRUE)
Receipt == Good("execution_receipt", {}, TRUE)

(* Every way in which one of them can go wrong, or can be unusual.          *)
Documents ==
  LET one(d) == {[d EXCEPT !.paths = p] : p \in Paths}
                  \cup {[d EXCEPT !.schema = FALSE], [d EXCEPT !.origin = "synthetic"]}
  IN one(Bundle) \cup one(Smoke)
     \cup {FailedBundle, CloudRecord, Receipt, [Smoke EXCEPT !.passed = FALSE],
           [CloudRecord EXCEPT !.passed = FALSE], [CloudRecord EXCEPT !.paths = "bound"],
           [Bundle EXCEPT !.receipts["receipt_benchmark"] = "valid"],
           [Bundle EXCEPT !.receipts["receipt_other"] = "broken"],
           [Bundle EXCEPT !.receipts["receipt_collection_receipt"] = "broken"],
           [FailedBundle EXCEPT !.receipts["receipt_benchmark"] = "broken"]}

(* What is never read again is not told apart: the content of files that    *)
(* neither the manifest nor the publication at work names, and of a         *)
(* temporary manifest left behind by a crash.                               *)
Named == IF ~Readable THEN {}
         ELSE {manifest[k].filename : k \in {j \in Key : manifest[j] # Absent}}
Forgotten(f) == f \notin Named /\ (dest = 0 \/ f < dest)
Relevant ==
  <<[f \in File |-> IF Forgotten(f) /\ f < nextFile THEN Partial ELSE files[f]],
    nextFile, manifest, pc, memory,
    IF tmp # Absent /\ pc \notin {"moving", "copying"} THEN Partial ELSE tmp>>
================================================================================
