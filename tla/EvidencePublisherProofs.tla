------------------------- MODULE EvidencePublisherProofs -------------------------
(***************************************************************************)
(* Theorems about publications, for any documents, any set of receipts and *)
(* any number of files: whatever was published, refused or interrupted,    *)
(* what the manifest names is complete, sanitised and as it was validated, *)
(* and the receipts are those of the evidence they stand beside.           *)
(***************************************************************************)
EXTENDS EvidencePublisher, FiniteSetTheorems, TLAPS

(* A document as the publisher writes it.                                   *)
Published(d) == d \in Document /\ Accepted(d, d.type) /\ d.paths = "none"

(* What an entry says, and that the files it names say the same.            *)
OfEvidence(fs, k, e) ==
  /\ k = ManifestKey(e.evidence_type) /\ e.boundTo = e.filename
  /\ e.evidence_type = fs[e.boundTo].type
OfReceipt(fs, k, e) ==
  /\ k \in ReceiptsOf(fs[e.boundTo]) /\ e.evidence_type = "execution_receipt"
  /\ e.sha256 = ReceiptFile(fs[e.boundTo], k)
EntryGood(fs, k, e) ==
  /\ e \in Entry
  /\ fs[e.filename] = e.sha256 /\ Published(fs[e.boundTo])
  /\ OfEvidence(fs, k, e) \/ OfReceipt(fs, k, e)
Complete(fs, m) == m \in Manifest /\ \A k \in Key : m[k] # Absent => EntryGood(fs, k, m[k])

(* The required receipts of m's evidence are there, except those owed.      *)
Foreign(fs, m, k) == k \notin LocalKey /\ fs[m[k].boundTo].type = "local_stage0_bundle"
Follows(fs, m, key, keys, owed) ==
  m[key] # Absent /\ fs[m[key].filename].passed =>
    \A k \in keys \ owed : /\ m[k] # Absent
                           /\ m[k].boundTo = m[key].filename \/ Foreign(fs, m, k)
AllFollow(fs, m, owed) ==
  /\ Follows(fs, m, "local_stage0_bundle", LocalKey, owed)
  /\ Follows(fs, m, "cloud_summary", CloudKey, owed)

Stage == {"idle", "validating", "sanitising", "opening", "writing", "loading",
          "receipts", "receipt", "dumping", "moving", "copying", "unlinking"}
Moving == {"moving", "copying"}                           (* tmp is complete   *)
Loading == {"receipts", "receipt", "dumping"} \cup Moving (* from LoadManifest *)
Written == Loading \cup {"loading"}                       (* the document is   *)
Sanitised == Written \cup {"opening", "writing"}

TypeOK ==
  /\ files \in [File -> Document \cup {Absent, Partial}]
  /\ nextFile \in Nat \ {0} /\ nextFile <= MaxFiles + 1
  /\ manifest \in Manifest \cup {Absent, Partial} /\ pending \in Manifest
  /\ manifest = Partial => RenameMayFail
  /\ pc \in Stage /\ todo \subseteq ReceiptKey /\ {dryRun, unread} \subseteq BOOLEAN
  /\ pc # "idle" => document \in Document

(* There is room for what is still to be written.                           *)
Owed == Cardinality(IF pc \in Loading THEN todo ELSE ReceiptsOf(document))
RoomLeft ==
  /\ pc \in {"validating", "sanitising", "opening"} =>
       (pc = "validating" /\ dryRun) \/ nextFile + Owed <= MaxFiles
  /\ pc \in {"writing", "loading", "receipts"} => nextFile + Owed <= MaxFiles + 1
  /\ pc = "receipt" => nextFile + Owed <= MaxFiles + 2

(* The files at work: nothing is written over a document.                   *)
OnDisk ==
  /\ \A f \in File : f >= nextFile => files[f] = Absent
  /\ pc = "writing" => dest \in File /\ files[dest] = Partial
  /\ pc = "receipt" => nextFile - 1 \in File /\ files[nextFile - 1] = Partial
  /\ pc \in Written => dest \in File /\ files[dest] = document

AtWork ==
  /\ pc \in Sanitised => Published(document) /\ document.type = type
  /\ pc \in Loading => todo \subseteq ReceiptsOf(document)
  /\ pc \in {"dumping"} \cup Moving => todo = {}
  /\ pc \in Moving => tmp = pending
  /\ pc = "copying" => manifest = Partial

(* The manifest in memory: the document's entry, its receipts as far as they*)
(* are written, and everything that was there before and could be read.     *)
InMemory ==
  pc \in Loading =>
    /\ Complete(files, pending) /\ AllFollow(files, pending, todo)
    /\ pending[ManifestKey(type)] # Absent
    /\ pending[ManifestKey(type)].filename = dest
    /\ \A k \in ReceiptsOf(document) \ todo : pending[k] # Absent /\ pending[k].boundTo = dest
    /\ Readable /\ ~unread => \A k \in Key : manifest[k] # Absent => pending[k] # Absent

OnRecord == Readable => Complete(files, manifest) /\ AllFollow(files, manifest, {})

IInv == TypeOK /\ RoomLeft /\ OnDisk /\ AtWork /\ InMemory /\ OnRecord

--------------------------------------------------------------------------------
(* Documents and their receipts.                                            *)

LEMMA SanitiseFacts ==
  ASSUME NEW d \in Document
  PROVE  /\ Sanitise(d) \in Document
         /\ ReceiptsOf(Sanitise(d)) = ReceiptsOf(d)
         /\ Idempotent(d) => Sanitise(d).paths = "none"
<1> DEFINE p == IF d.paths = "nested" THEN "free" ELSE "none"
           b == d.digestsMatch /\ d.paths # "bound"
<1>1. p \in Paths /\ b \in BOOLEAN
  BY DEF Paths
<1>2. Sanitise(d) = [d EXCEPT !.paths = p, !.digestsMatch = b]
  BY DEF Sanitise
<1> HIDE DEF p, b
<1>3. Sanitise(d) \in Document /\ Sanitise(d).paths = p
  BY <1>1, <1>2 DEF Document
<1>4. Sanitise(d).type = d.type /\ Sanitise(d).receipts = d.receipts
  BY <1>2 DEF Document
<1>5. ReceiptsOf(Sanitise(d)) = ReceiptsOf(d)
  BY <1>4 DEF ReceiptsOf
<1>6. ASSUME Idempotent(d) PROVE p = "none"
  <2>1. Sanitise(Sanitise(d)).paths = IF Sanitise(d).paths = "nested" THEN "free" ELSE "none"
    BY <1>3 DEF Sanitise, Document
  <2>2. Sanitise(Sanitise(d)).paths = p
    BY <1>3, <1>6 DEF Idempotent
  <2>3. QED
    BY <2>1, <2>2, <1>3 DEF p
<1>7. QED
  BY <1>3, <1>5, <1>6

LEMMA ReceiptFileFacts ==
  ASSUME NEW d \in Document, NEW k \in ReceiptKey
  PROVE  /\ ReceiptFile(d, k) \in Document
         /\ ReceiptFile(d, k).type = "execution_receipt"
         /\ ReceiptFile(d, k).origin = d.origin /\ ReceiptFile(d, k).paths = d.paths
         /\ ReceiptFile(d, k).schema = (d.receipts[k] # "broken")
<1> DEFINE s == d.receipts[k] # "broken"
           none == [j \in ReceiptKey |-> "none"]
<1>1. s \in BOOLEAN /\ none \in [ReceiptKey -> Quality] /\ "execution_receipt" \in Types
  BY DEF Quality, Types
<1>2. ReceiptFile(d, k) = [d EXCEPT !.type = "execution_receipt", !.schema = s,
                             !.receipts = none]
  BY DEF ReceiptFile
<1> HIDE DEF s, none
<1>3. ReceiptFile(d, k) \in Document
  BY <1>1, <1>2 DEF Document
<1>4. /\ ReceiptFile(d, k).type = "execution_receipt"
      /\ ReceiptFile(d, k).origin = d.origin /\ ReceiptFile(d, k).paths = d.paths
      /\ ReceiptFile(d, k).schema = s
  BY <1>2 DEF Document
<1>5. QED
  BY <1>3, <1>4 DEF s

LEMMA ReceiptsOfFacts ==
  ASSUME NEW d
  PROVE  /\ ReceiptsOf(d) \subseteq ReceiptKey /\ IsFiniteSet(ReceiptsOf(d))
         /\ ReceiptsOf(d) # {} => d.type \in {"local_stage0_bundle", "cloud_stage0"}
         /\ d.type = "cloud_stage0" => ReceiptsOf(d) \subseteq CloudKey
<1>1. /\ ReceiptsOf(d) \subseteq ReceiptKey
      /\ ReceiptsOf(d) # {} => d.type \in {"local_stage0_bundle", "cloud_stage0"}
      /\ d.type = "cloud_stage0" => ReceiptsOf(d) \subseteq CloudKey
  BY DEF ReceiptsOf
<1>2. IsFiniteSet(ReceiptsOf(d))
  BY <1>1, FS_Subset, PublisherAssumption
<1>3. QED
  BY <1>1, <1>2

(* The receipts a published document requires are all there and ready.      *)
LEMMA RequiredReceipts ==
  ASSUME NEW d, Published(d)
  PROVE  /\ d.type = "local_stage0_bundle" /\ d.passed =>
              LocalKey \subseteq ReceiptsOf(d) /\ AllBound(d, LocalKey)
         /\ d.type = "cloud_stage0" =>
              d.passed /\ CloudKey \subseteq ReceiptsOf(d) /\ AllBound(d, CloudKey)
<1>1. ASSUME NEW keys \in SUBSET ReceiptKey, AllBound(d, keys)
      PROVE  keys \subseteq {k \in ReceiptKey : d.receipts[k] # "none"}
  BY <1>1 DEF AllBound
<1>2. LocalKey \subseteq ReceiptKey /\ CloudKey \subseteq ReceiptKey
  BY DEF ReceiptKey
<1>3. ASSUME d.type = "local_stage0_bundle", d.passed
      PROVE  LocalKey \subseteq ReceiptsOf(d) /\ AllBound(d, LocalKey)
  <2>1. AllBound(d, LocalKey)
    BY <1>3 DEF Published, Accepted, ValidateRecursive
  <2>2. QED
    BY <1>1, <1>2, <1>3, <2>1 DEF ReceiptsOf
<1>4. ASSUME d.type = "cloud_stage0"
      PROVE  d.passed /\ CloudKey \subseteq ReceiptsOf(d) /\ AllBound(d, CloudKey)
  <2>1. d.passed /\ AllBound(d, CloudKey)
    BY <1>4 DEF Published, Accepted, ValidateRecursive
  <2>2. QED
    BY <1>1, <1>2, <1>4, <2>1 DEF ReceiptsOf
<1>5. QED
  BY <1>3, <1>4

(* The keys of evidence are none of receipts, and tell the types apart.     *)
LEMMA ManifestKeys ==
  /\ \A t \in Types : ManifestKey(t) \in Key /\ ManifestKey(t) \notin ReceiptKey
  /\ \A t, u \in Types : ManifestKey(t) = ManifestKey(u) => t = u
  /\ ReceiptKey \subseteq Key
  /\ {"local_stage0_bundle", "cloud_stage0", "execution_receipt"} \subseteq Types
BY PublisherAssumption DEF ManifestKey, Key, Types

(* Documents on disk that stay keep every entry as good as it was.          *)
LEMMA DocumentsStay ==
  ASSUME NEW fs, NEW gs, NEW m, Complete(fs, m),
         \A f \in File : fs[f] \in Document => gs[f] = fs[f]
  PROVE  /\ Complete(gs, m)
         /\ \A owed : AllFollow(fs, m, owed) => AllFollow(gs, m, owed)
<1>1. \A k \in Key : m[k] # Absent =>
        /\ m[k] \in Entry /\ m[k].filename \in File /\ m[k].boundTo \in File
        /\ gs[m[k].filename] = fs[m[k].filename] /\ gs[m[k].boundTo] = fs[m[k].boundTo]
  BY DEF Complete, EntryGood, Published, Entry
<1>2. Complete(gs, m)
  BY <1>1 DEF Complete, EntryGood, OfEvidence, OfReceipt
<1>3. {"local_stage0_bundle", "cloud_summary"} \cup LocalKey \cup CloudKey \subseteq Key
  BY ManifestKeys DEF ManifestKey, ReceiptKey
<1>4. ASSUME NEW owed, AllFollow(fs, m, owed) PROVE AllFollow(gs, m, owed)
  BY <1>1, <1>3, <1>4 DEF AllFollow, Follows, Foreign
<1>5. QED
  BY <1>2, <1>4

--------------------------------------------------------------------------------
(* What the steps keep.                                                     *)

LEMMA EmptyFacts ==
  /\ EmptyManifest \in Manifest /\ \A k \in Key : EmptyManifest[k] = Absent
  /\ \A fs : Complete(fs, EmptyManifest)
  /\ \A fs, owed : AllFollow(fs, EmptyManifest, owed)
<1>1. EmptyManifest \in Manifest /\ \A k \in Key : EmptyManifest[k] = Absent
  BY DEF EmptyManifest, Manifest
<1>2. {"local_stage0_bundle", "cloud_summary"} \subseteq Key
  BY ManifestKeys DEF ManifestKey
<1>3. QED
  BY <1>1, <1>2 DEF Complete, AllFollow, Follows

LEMMA NoNull ==
  /\ \A m \in Manifest : m \notin {Absent, Partial}
  /\ \A e \in Entry : e # Absent
  /\ \A d \in Document : d \notin {Absent, Partial}
  /\ Absent # Partial
BY PublisherAssumption

(* A manifest that is not replaced stays good as long as no document is     *)
(* written over.                                                            *)
LEMMA RecordStays ==
  ASSUME OnRecord, manifest' = manifest,
         \A f \in File : files[f] \in Document => files'[f] = files[f]
  PROVE  OnRecord'
<1>1. SUFFICES ASSUME Readable PROVE Complete(files', manifest) /\ AllFollow(files', manifest, {})
  BY DEF OnRecord, Readable
<1>2. Complete(files, manifest) /\ AllFollow(files, manifest, {})
  BY <1>1 DEF OnRecord
<1>3. QED
  BY <1>2, DocumentsStay

(* However a publication ends, the manifest is the old one or the one it    *)
(* has finished in memory.                                                  *)
LEMMA EndsStep ==
  ASSUME IInv, Ends, UNCHANGED <<files, nextFile>>,
         \/ manifest' = manifest
         \/ manifest' = pending /\ Complete(files, pending) /\ AllFollow(files, pending, {})
  PROVE  IInv'
<1>1. TypeOK'
  BY EmptyFacts, NoNull DEF IInv, TypeOK, Ends, Stage
<1>2. RoomLeft' /\ OnDisk' /\ AtWork' /\ InMemory'
  BY DEF IInv, Ends, RoomLeft, OnDisk, AtWork, InMemory, Sanitised, Written, Loading, Moving
<1>3. OnRecord'
  <2>1. CASE manifest' = manifest
    BY <2>1, RecordStays DEF IInv
  <2>2. CASE manifest' = pending /\ Complete(files, pending) /\ AllFollow(files, pending, {})
    BY <2>2 DEF OnRecord
  <2>3. QED
    BY <2>1, <2>2
<1>4. QED
  BY <1>1, <1>2, <1>3 DEF IInv

(* Before the manifest is read there is nothing in memory to be wrong.      *)
LEMMA EarlyStep ==
  ASSUME IInv, UNCHANGED <<files, nextFile, manifest, pending, todo, unread>>,
         pc' \in {"validating", "sanitising", "opening"},
         document' \in Document, dryRun' \in BOOLEAN,
         (dryRun' /\ pc' = "validating")
           \/ nextFile + Cardinality(ReceiptsOf(document')) <= MaxFiles,
         pc' = "opening" => Published(document') /\ document'.type = type'
  PROVE  IInv'
<1>1. TypeOK'
  BY DEF IInv, TypeOK, Stage
<1>2. RoomLeft'
  BY DEF RoomLeft, Owed, Loading, Moving
<1>3. OnDisk' /\ AtWork' /\ InMemory'
  BY DEF IInv, OnDisk, AtWork, InMemory, Sanitised, Written, Loading, Moving
<1>4. OnRecord'
  BY RecordStays DEF IInv
<1>5. QED
  BY <1>1, <1>2, <1>3, <1>4 DEF IInv

LEMMA BeforeWriting ==
  ASSUME IInv,
         (\E d \in Candidate, t \in Types, dry \in BOOLEAN : Start(d, t, dry))
           \/ Validate \/ SanitiseAndRevalidate
  PROVE  IInv'
<1>1. ASSUME NEW d \in Candidate, NEW t \in Types, NEW dry \in BOOLEAN, Start(d, t, dry)
      PROVE  IInv'
  <2>1. d \in Document
    BY PublisherAssumption
  <2>2. /\ UNCHANGED <<files, nextFile, manifest, pending, todo, unread>>
        /\ pc' = "validating" /\ document' = d /\ dryRun' = dry
        /\ dry \/ nextFile + Cardinality(ReceiptsOf(d)) <= MaxFiles
    BY <1>1 DEF Start, disk, Room
  <2>3. QED
    BY <2>1, <2>2, EarlyStep
<1>2. ASSUME Validate PROVE IInv'
  <2>1. /\ UNCHANGED <<files, nextFile, manifest, pending, todo, unread, document, dryRun>>
        /\ pc = "validating" /\ pc' = "sanitising" /\ ~dryRun
    BY <1>2 DEF Validate, Goto, disk, memory, command
  <2>2. document \in Document /\ dryRun \in BOOLEAN
        /\ nextFile + Cardinality(ReceiptsOf(document)) <= MaxFiles
    BY <2>1 DEF IInv, TypeOK, RoomLeft, Owed, Loading, Moving
  <2>3. QED
    BY <2>1, <2>2, EarlyStep
<1>3. ASSUME SanitiseAndRevalidate PROVE IInv'
  <2>1. /\ UNCHANGED <<files, nextFile, manifest, pending, todo, unread, dryRun, type>>
        /\ pc = "sanitising" /\ pc' = "opening"
        /\ document' = Sanitise(document)
        /\ Idempotent(document) /\ Accepted(Sanitise(document), type)
    BY <1>3 DEF SanitiseAndRevalidate, Goto, disk, command
  <2>2. document \in Document /\ dryRun \in BOOLEAN
        /\ nextFile + Cardinality(ReceiptsOf(document)) <= MaxFiles
    BY <2>1 DEF IInv, TypeOK, RoomLeft, Owed, Loading, Moving
  <2>3. /\ document' \in Document /\ ReceiptsOf(document') = ReceiptsOf(document)
        /\ document'.paths = "none"
    BY <2>1, <2>2, SanitiseFacts
  <2>4. document'.type = type /\ Published(document')
    BY <2>1, <2>3 DEF Published, Accepted, ValidateAndLoad
  <2>5. QED
    BY <2>1, <2>2, <2>3, <2>4, EarlyStep
<1>4. QED
  BY <1>1, <1>2, <1>3

LEMMA OpenEvidenceStep ==
  ASSUME IInv, OpenEvidence
  PROVE  IInv'
<1>1. /\ pc = "opening" /\ pc' = "writing" /\ dest' = nextFile
      /\ files' = [files EXCEPT ![nextFile] = Partial] /\ nextFile' = nextFile + 1
      /\ UNCHANGED <<manifest, tmp, type, dryRun, document, pending, todo, unread>>
  BY DEF OpenEvidence, OpenFile, Goto, command
<1>2. /\ nextFile + Cardinality(ReceiptsOf(document)) <= MaxFiles
      /\ Cardinality(ReceiptsOf(document)) \in Nat
      /\ document \in Document
  BY <1>1, ReceiptsOfFacts, FS_CardinalityType DEF IInv, TypeOK, RoomLeft, Owed, Loading, Moving
<1>3. nextFile \in File
  BY <1>2, PublisherAssumption DEF IInv, TypeOK, File
<1>4. TypeOK'
  BY <1>1, <1>2, <1>3, PublisherAssumption DEF IInv, TypeOK, Stage, File
<1>5. RoomLeft'
  BY <1>1, <1>2, PublisherAssumption DEF IInv, TypeOK, RoomLeft, Owed, Loading, Moving
<1>6. files[nextFile] = Absent
  BY <1>3 DEF IInv, OnDisk, File
<1>7. OnDisk'
  BY <1>1, <1>3 DEF IInv, TypeOK, OnDisk, Written, Loading, Moving, File
<1>8. AtWork' /\ InMemory'
  BY <1>1 DEF IInv, AtWork, InMemory, Sanitised, Written, Loading, Moving
<1>9. OnRecord'
  BY <1>1, <1>3, <1>6, NoNull, RecordStays DEF IInv, TypeOK
<1>10. QED
  BY <1>4, <1>5, <1>7, <1>8, <1>9 DEF IInv

LEMMA WriteEvidenceStep ==
  ASSUME IInv, WriteEvidence
  PROVE  IInv'
<1>1. /\ pc = "writing" /\ pc' = "loading"
      /\ files' = [files EXCEPT ![dest] = document]
      /\ UNCHANGED <<nextFile, manifest, tmp, type, dryRun, document, dest, pending, todo, unread>>
  BY DEF WriteEvidence, Goto, memory, command
<1>2. dest \in File /\ files[dest] = Partial /\ document \in Document
  BY <1>1 DEF IInv, OnDisk, TypeOK
<1>3. TypeOK'
  BY <1>1, <1>2 DEF IInv, TypeOK, Stage
<1>4. RoomLeft'
  BY <1>1 DEF IInv, RoomLeft, Owed, Loading, Moving
<1>5. OnDisk'
  BY <1>1, <1>2, NoNull DEF IInv, TypeOK, OnDisk, Written, Loading, Moving
<1>6. AtWork' /\ InMemory'
  BY <1>1 DEF IInv, AtWork, InMemory, Sanitised, Written, Loading, Moving
<1>7. OnRecord'
  BY <1>1, <1>2, NoNull, RecordStays DEF IInv, TypeOK
<1>8. QED
  BY <1>3, <1>4, <1>5, <1>6, <1>7 DEF IInv

(* The old manifest with the entry of the new document: only receipts of    *)
(* this document are owed.                                                  *)
LEMMA LoadManifestStep ==
  ASSUME IInv, NEW raises \in BOOLEAN, LoadManifest(raises)
  PROVE  IInv'
<1> DEFINE key == ManifestKey(type)
           entry == EntryFor(dest, files[dest], type)
           loaded == Loaded(raises)
<1>1. /\ pc = "loading" /\ pc' = "receipts" /\ unread' = raises
      /\ pending' = [loaded EXCEPT ![key] = entry] /\ todo' = ReceiptsOf(document)
      /\ UNCHANGED <<files, nextFile, manifest, tmp, type, dryRun, document, dest>>
  BY DEF LoadManifest, Goto, disk, command
<1>2. /\ Published(document) /\ document.type = type /\ document \in Document
      /\ dest \in File /\ files[dest] = document
  BY <1>1 DEF IInv, AtWork, OnDisk, TypeOK, Sanitised, Written
<1>3. type \in Types /\ key \in Key /\ key \notin ReceiptKey
  BY <1>2, ManifestKeys DEF Document
<1>4. entry \in Entry /\ EntryGood(files, key, entry)
  BY <1>2, <1>3 DEF EntryFor, Entry, EntryGood, OfEvidence
<1>5. /\ loaded \in Manifest /\ Complete(files, loaded) /\ AllFollow(files, loaded, {})
      /\ Readable /\ ~raises => loaded = manifest
  BY EmptyFacts DEF IInv, TypeOK, OnRecord, Loaded, Readable
<1> HIDE DEF key, loaded
<1>6. /\ pending' \in Manifest /\ pending'[key] = entry
      /\ \A k \in Key \ {key} : pending'[k] = loaded[k]
  BY <1>1, <1>3, <1>4, <1>5 DEF Manifest
<1> HIDE DEF entry
<1>7. Complete(files, pending')
  BY <1>4, <1>5, <1>6 DEF Complete
<1>8. entry.filename = dest /\ entry # Absent
  BY <1>4, NoNull DEF entry, EntryFor
<1>9. AllFollow(files, pending', todo')
  <2>1. ASSUME NEW main, NEW keys \in SUBSET ReceiptKey, main \in Key,
               Follows(files, loaded, main, keys, {}),
               key = main /\ document.passed => keys \subseteq ReceiptsOf(document)
        PROVE  Follows(files, pending', main, keys, todo')
    <3>1. \A k \in keys : k \in Key /\ pending'[k] = loaded[k]
      BY <1>3, <1>6, ManifestKeys
    <3>2. CASE key = main
      BY <1>1, <1>2, <1>6, <1>8, <2>1, <3>2 DEF Follows
    <3>3. CASE key # main
      BY <1>6, <2>1, <3>1, <3>3 DEF Follows, Foreign
    <3>4. QED
      BY <3>2, <3>3
  <2>2. key = "local_stage0_bundle" => type = "local_stage0_bundle"
    BY DEF key, ManifestKey
  <2>3. key = "cloud_summary" => type = "cloud_stage0"
    BY <1>3 DEF key, ManifestKey, Types
  <2>4. /\ "local_stage0_bundle" \in Key /\ "cloud_summary" \in Key
        /\ LocalKey \subseteq ReceiptKey /\ CloudKey \subseteq ReceiptKey
    BY ManifestKeys DEF ManifestKey, ReceiptKey
  <2>5. QED
    BY <1>2, <1>5, <2>1, <2>2, <2>3, <2>4, RequiredReceipts DEF AllFollow
<1>10. TypeOK'
  BY <1>1, <1>6, ReceiptsOfFacts DEF IInv, TypeOK, Stage
<1>11. RoomLeft'
  BY <1>1 DEF IInv, RoomLeft, Owed, Loading, Moving
<1>12. OnDisk' /\ AtWork'
  BY <1>1, <1>2 DEF IInv, OnDisk, AtWork, Sanitised, Written, Loading, Moving
<1>13. InMemory'
  <2>1. Readable /\ ~raises => \A k \in Key : manifest[k] # Absent => pending'[k] # Absent
    BY <1>5, <1>6, <1>8
  <2>2. ManifestKey(type') = key
    BY <1>1 DEF key
  <2>3. QED
    BY <1>1, <1>6, <1>7, <1>8, <1>9, <2>1, <2>2 DEF InMemory, Readable
<1>14. OnRecord'
  BY <1>1, RecordStays DEF IInv
<1>15. QED
  BY <1>10, <1>11, <1>12, <1>13, <1>14 DEF IInv

LEMMA OpenReceiptStep ==
  ASSUME IInv, OpenReceipt
  PROVE  IInv'
<1>1. /\ pc = "receipts" /\ pc' = "receipt" /\ todo # {}
      /\ files' = [files EXCEPT ![nextFile] = Partial] /\ nextFile' = nextFile + 1
      /\ UNCHANGED <<manifest, tmp, type, dryRun, document, dest, pending, todo, unread>>
  BY DEF OpenReceipt, OpenFile, Goto, memory, command
<1>2. /\ Cardinality(todo) \in Nat \ {0} /\ nextFile + Cardinality(todo) <= MaxFiles + 1
      /\ document \in Document
  <2>1. IsFiniteSet(todo)
    BY FS_Subset, PublisherAssumption DEF IInv, TypeOK
  <2>2. QED
    BY <1>1, <2>1, FS_CardinalityType, FS_EmptySet
       DEF IInv, TypeOK, RoomLeft, Owed, Loading, Moving
<1>3. nextFile \in File
  BY <1>2, PublisherAssumption DEF IInv, TypeOK, File
<1>4. files[nextFile] = Absent
  BY <1>3 DEF IInv, OnDisk, File
<1>5. \A f \in File : files[f] \in Document => files'[f] = files[f]
  BY <1>1, <1>4, NoNull DEF IInv, TypeOK
<1>6. TypeOK'
  BY <1>1, <1>2, <1>3, PublisherAssumption DEF IInv, TypeOK, Stage, File
<1>7. RoomLeft'
  BY <1>1, <1>2, PublisherAssumption DEF IInv, TypeOK, RoomLeft, Owed, Loading, Moving
<1>8. OnDisk'
  BY <1>1, <1>2, <1>3, <1>5 DEF IInv, TypeOK, OnDisk, Written, Loading, Moving, File
<1>9. AtWork'
  BY <1>1 DEF IInv, AtWork, Sanitised, Written, Loading, Moving
<1>10. InMemory'
  <2>1. Complete(files', pending) /\ AllFollow(files', pending, todo)
    BY <1>1, <1>5, DocumentsStay DEF IInv, InMemory, Loading, Moving
  <2>2. QED
    BY <1>1, <2>1 DEF IInv, InMemory, Loading, Moving, Readable
<1>11. OnRecord'
  BY <1>1, <1>5, RecordStays DEF IInv
<1>12. QED
  BY <1>6, <1>7, <1>8, <1>9, <1>10, <1>11 DEF IInv

(* One receipt is written, bound to the document at work, under its key.    *)
LEMMA WriteReceiptStep ==
  ASSUME IInv, NEW k \in ReceiptKey, WriteReceipt(k)
  PROVE  IInv'
<1> DEFINE name == nextFile - 1
           content == ReceiptFile(document, k)
           entry == EntryFor(name, content, "execution_receipt")
<1>1. /\ pc = "receipt" /\ pc' = "receipts" /\ k \in todo /\ todo' = todo \ {k}
      /\ files' = [files EXCEPT ![name] = content]
      /\ pending' = [pending EXCEPT ![k] = entry]
      /\ UNCHANGED <<nextFile, manifest, tmp, type, dryRun, document, dest, unread>>
  BY DEF WriteReceipt, Goto, command
<1>2. /\ Published(document) /\ document.type = type /\ document \in Document
      /\ dest \in File /\ files[dest] = document
      /\ name \in File /\ files[name] = Partial
      /\ todo \subseteq ReceiptsOf(document)
  BY <1>1 DEF IInv, AtWork, OnDisk, TypeOK, Sanitised, Written, Loading, Moving
<1>3. content \in Document /\ k \in Key /\ k \in ReceiptsOf(document)
  BY <1>1, <1>2, ReceiptFileFacts, ManifestKeys
<1>4. entry \in Entry /\ entry.boundTo = dest /\ entry # Absent
  BY <1>2, <1>3, ManifestKeys, NoNull DEF EntryFor, Entry
<1>5. \A f \in File : files[f] \in Document => files'[f] = files[f]
  BY <1>1, <1>2, NoNull DEF IInv, TypeOK
<1>6. files'[name] = content /\ files'[dest] = document
  BY <1>1, <1>2, <1>5 DEF IInv, TypeOK
<1>7. EntryGood(files', k, entry)
  BY <1>2, <1>3, <1>4, <1>6 DEF EntryGood, OfReceipt, EntryFor
<1> HIDE DEF entry, content
<1>8. /\ pending \in Manifest /\ Complete(files', pending) /\ AllFollow(files', pending, todo)
      /\ pending[ManifestKey(type)] # Absent /\ pending[ManifestKey(type)].filename = dest
  BY <1>1, <1>5, DocumentsStay DEF IInv, TypeOK, InMemory, Loading, Moving
<1>9. /\ pending' \in Manifest /\ pending'[k] = entry
      /\ \A j \in Key \ {k} : pending'[j] = pending[j]
  BY <1>1, <1>3, <1>4, <1>8 DEF Manifest
<1>10. Complete(files', pending')
  BY <1>7, <1>8, <1>9 DEF Complete
<1>11. /\ ManifestKey(type) \in Key \ {k}
       /\ "local_stage0_bundle" \in Key \ {k} /\ "cloud_summary" \in Key \ {k}
       /\ LocalKey \subseteq Key /\ CloudKey \subseteq Key
  BY <1>2, ManifestKeys DEF ManifestKey, ReceiptKey, Document
<1>12. AllFollow(files', pending', todo')
  <2>1. ASSUME NEW main, main \in Key \ {k}, NEW keys \in SUBSET Key,
               Follows(files', pending, main, keys, todo),
               k \in keys => pending[main].filename = dest
                                \/ (k \notin LocalKey /\ type = "local_stage0_bundle")
        PROVE  Follows(files', pending', main, keys, todo')
    <3>1. pending'[main] = pending[main]
      BY <1>9, <2>1
    <3>2. ASSUME NEW j \in keys \ todo', pending[main] # Absent,
                 files'[pending[main].filename].passed
          PROVE  /\ pending'[j] # Absent
                 /\ pending'[j].boundTo = pending[main].filename \/ Foreign(files', pending', j)
      <4>1. CASE j = k
        BY <1>2, <1>4, <1>6, <1>9, <2>1, <3>2, <4>1 DEF Foreign
      <4>2. CASE j # k
        BY <1>1, <1>9, <2>1, <3>2, <4>2 DEF Follows, Foreign
      <4>3. QED
        BY <4>1, <4>2
    <3>3. QED
      BY <3>1, <3>2 DEF Follows
  <2>2. type = "local_stage0_bundle" \/ (type = "cloud_stage0" /\ k \in CloudKey)
    BY <1>2, <1>3, ReceiptsOfFacts
  <2>3. k \in LocalKey => pending["local_stage0_bundle"].filename = dest
    BY <1>8, <2>2, PublisherAssumption DEF ManifestKey
  <2>4. k \in CloudKey => pending["cloud_summary"].filename = dest
                           \/ (k \notin LocalKey /\ type = "local_stage0_bundle")
    BY <1>8, <2>2, PublisherAssumption DEF ManifestKey
  <2>5. QED
    BY <1>8, <1>11, <2>1, <2>3, <2>4 DEF AllFollow
<1>13. TypeOK'
  BY <1>1, <1>2, <1>3, <1>9 DEF IInv, TypeOK, Stage
<1>14. RoomLeft'
  <2>1. IsFiniteSet(todo)
    BY FS_Subset, PublisherAssumption DEF IInv, TypeOK
  <2>2. Cardinality(todo') = Cardinality(todo) - 1 /\ Cardinality(todo) \in Nat
    BY <1>1, <2>1, FS_RemoveElement, FS_CardinalityType
  <2>3. nextFile + Cardinality(todo) <= MaxFiles + 2
    BY <1>1 DEF IInv, RoomLeft, Owed, Loading, Moving
  <2>4. nextFile' + Owed' <= MaxFiles + 1
    BY <1>1, <2>2, <2>3, PublisherAssumption DEF IInv, TypeOK, Owed, Loading, Moving
  <2>5. QED
    BY <1>1, <2>4 DEF RoomLeft
<1>15. OnDisk'
  BY <1>1, <1>2, <1>6 DEF IInv, TypeOK, OnDisk, File, Written, Loading, Moving
<1>16. AtWork'
  BY <1>1, <1>2 DEF IInv, AtWork, Sanitised, Written, Loading, Moving
<1>17. InMemory'
  <2>1. \A j \in ReceiptsOf(document) \ todo' : pending'[j] # Absent /\ pending'[j].boundTo = dest
    BY <1>1, <1>4, <1>9, ReceiptsOfFacts, ManifestKeys DEF IInv, InMemory, Loading, Moving
  <2>2. Readable /\ ~unread => \A j \in Key : manifest[j] # Absent => pending'[j] # Absent
    BY <1>1, <1>4, <1>9 DEF IInv, InMemory, Loading, Moving
  <2>3. QED
    BY <1>1, <1>8, <1>9, <1>10, <1>11, <1>12, <2>1, <2>2 DEF InMemory, Readable
<1>18. OnRecord'
  BY <1>1, <1>5, RecordStays DEF IInv
<1>19. QED
  BY <1>13, <1>14, <1>15, <1>16, <1>17, <1>18 DEF IInv

LEMMA TmpStep ==
  ASSUME IInv, OpenTmp \/ DumpTmp
  PROVE  IInv'
<1>1. /\ pc \in {"receipts", "dumping"} /\ pc' \in {"dumping", "moving"}
      /\ UNCHANGED <<files, nextFile, manifest, type, dryRun, document, dest, pending, todo, unread>>
      /\ pc' = "moving" => tmp' = pending
  BY DEF OpenTmp, DumpTmp, Goto, memory, command
<1>2. todo = {}
  BY DEF IInv, AtWork, OpenTmp, DumpTmp, Goto
<1>3. TypeOK' /\ RoomLeft'
  BY <1>1 DEF IInv, TypeOK, RoomLeft, Stage
<1>4. OnDisk' /\ AtWork'
  BY <1>1, <1>2 DEF IInv, OnDisk, AtWork, Sanitised, Written, Loading, Moving
<1>5. InMemory'
  BY <1>1 DEF IInv, InMemory, Loading, Moving, Readable
<1>6. OnRecord'
  BY <1>1, RecordStays DEF IInv
<1>7. QED
  BY <1>3, <1>4, <1>5, <1>6 DEF IInv

LEMMA MoveTmpStep ==
  ASSUME IInv, MoveTmp
  PROVE  IInv'
<1>1. tmp = pending /\ todo = {} /\ Complete(files, pending) /\ AllFollow(files, pending, todo)
  BY DEF IInv, AtWork, InMemory, Loading, Moving, MoveTmp
<1>2. Ends /\ UNCHANGED <<files, nextFile>> /\ manifest' = pending
  BY <1>1 DEF MoveTmp
<1>3. QED
  BY <1>1, <1>2, EndsStep

(* While the manifest is copied over there is none to be wrong; when the    *)
(* copy is complete it is the one in memory.                                *)
LEMMA CopyStep ==
  ASSUME IInv, CopyOver \/ FinishCopy
  PROVE  IInv'
<1>1. /\ pc \in Moving /\ pc' \in {"copying", "unlinking"}
      /\ UNCHANGED <<files, nextFile, tmp, type, dryRun, document, dest, pending, todo, unread>>
  BY DEF CopyOver, FinishCopy, Goto, memory, command, Moving
<1>2. tmp = pending /\ todo = {} /\ Complete(files, pending) /\ AllFollow(files, pending, todo)
  BY <1>1 DEF IInv, AtWork, InMemory, Loading, Moving
<1>3. \/ manifest' = Partial /\ RenameMayFail /\ pc' = "copying"
      \/ manifest' = pending /\ pending \in Manifest /\ pc' = "unlinking"
  BY <1>2 DEF CopyOver, FinishCopy, Goto, IInv, TypeOK
<1>4. TypeOK' /\ RoomLeft'
  BY <1>1, <1>3, NoNull DEF IInv, TypeOK, RoomLeft, Stage, Moving
<1>5. OnDisk' /\ AtWork'
  BY <1>1, <1>3 DEF IInv, OnDisk, AtWork, Sanitised, Written, Loading, Moving
<1>6. InMemory'
  BY <1>1, <1>3 DEF IInv, InMemory, Loading, Moving, Readable
<1>7. OnRecord'
  BY <1>1, <1>2, <1>3 DEF OnRecord, Readable
<1>8. QED
  BY <1>4, <1>5, <1>6, <1>7 DEF IInv

LEMMA InductiveInvariant == Spec => []IInv
<1>1. Init => IInv
  <2> SUFFICES ASSUME Init PROVE IInv
    OBVIOUS
  <2>1. TypeOK
    <3>1. files \in [File -> Document \cup {Absent, Partial}] /\ nextFile = 1
      BY DEF Init
    <3>2. manifest \in Manifest \cup {Absent} /\ pending \in Manifest
      BY EmptyFacts DEF Init, AtRest
    <3>3. pc = "idle" /\ todo = {} /\ dryRun = FALSE /\ unread = FALSE /\ manifest # Partial
      BY EmptyFacts, NoNull DEF Init, AtRest
    <3>4. nextFile \in Nat \ {0} /\ nextFile <= MaxFiles + 1
      BY <3>1, PublisherAssumption
    <3>5. QED
      BY <3>1, <3>2, <3>3, <3>4 DEF TypeOK, Stage
  <2>2. RoomLeft /\ OnDisk /\ AtWork /\ InMemory
    BY DEF Init, AtRest, RoomLeft, OnDisk, AtWork, InMemory, Sanitised, Written, Loading, Moving
  <2>3. OnRecord
    BY EmptyFacts DEF Init, OnRecord, Readable
  <2>4. QED
    BY <2>1, <2>2, <2>3 DEF IInv
<1>2. IInv /\ [Next]_vars => IInv'
  <2> SUFFICES ASSUME IInv, [Next]_vars PROVE IInv'
    OBVIOUS
  <2>1. CASE StopAtValidation \/ StopAtSanitising \/ UnlinkTmp \/ ManifestFails \/ Crash
    BY <2>1, EndsStep DEF StopAtValidation, StopAtSanitising, UnlinkTmp, ManifestFails, Crash, disk
  <2>2. CASE UNCHANGED vars
    BY <2>2 DEF vars, disk, memory, command, IInv, TypeOK, RoomLeft, Owed, OnDisk, AtWork,
                InMemory, OnRecord, Readable
  <2>3. QED
    BY <2>1, <2>2, BeforeWriting, OpenEvidenceStep, WriteEvidenceStep, LoadManifestStep,
       OpenReceiptStep, WriteReceiptStep, TmpStep, MoveTmpStep, CopyStep DEF Next
<1>3. QED
  BY <1>1, <1>2, PTL DEF Spec

--------------------------------------------------------------------------------
(* What the invariant says of the manifest.                                 *)

LEMMA ExpectedTypes ==
  /\ \A k \in ReceiptKey : ExpectedType(k) = "execution_receipt"
  /\ \A t \in Types : ExpectedType(ManifestKey(t)) \in {"", t}
<1>1. \A k \in ReceiptKey : ExpectedType(k) = "execution_receipt"
  BY DEF ExpectedType
<1>2. ASSUME NEW t \in Types PROVE ExpectedType(ManifestKey(t)) \in {"", t}
  <2> DEFINE key == ManifestKey(t)
             chosen == CHOOSE u \in Types : ManifestKey(u) = key
  <2>1. chosen \in Types /\ ManifestKey(chosen) = key
    OBVIOUS
  <2>2. chosen = t
    BY <2>1, ManifestKeys
  <2>3. key \notin ReceiptKey
    BY ManifestKeys
  <2>4. QED
    BY <2>2, <2>3 DEF ExpectedType
<1>3. QED
  BY <1>1, <1>2

LEMMA EntryIsVerified ==
  ASSUME NEW k \in Key, manifest[k] # Absent, EntryGood(files, k, manifest[k])
  PROVE  EntryVerifies(k) \/ Unseen(k)
<1> DEFINE e == manifest[k]
           found == files[e.filename]
           d == files[e.boundTo]
<1>1. /\ e.sha256 = found /\ found \in Document /\ found \notin {Absent, Partial}
      /\ d \in Document /\ Published(d) /\ Accepted(d, d.type)
  BY NoNull DEF EntryGood, Entry, Published
<1>2. CASE OfEvidence(files, k, e)
  <2>1. found = d /\ e.evidence_type = d.type /\ k = ManifestKey(d.type) /\ d.type \in Types
    BY <1>1, <1>2 DEF OfEvidence, Document
  <2>2. ExpectedType(k) \in {"", d.type}
    BY <2>1, ExpectedTypes
  <2>3. ValidateRecursive(d)
    BY <1>1 DEF Accepted
  <2>4. QED
    BY <1>1, <2>1, <2>2, <2>3 DEF EntryVerifies
<1>3. CASE OfReceipt(files, k, e)
  <2>1. /\ k \in ReceiptsOf(d) /\ e.evidence_type = "execution_receipt"
        /\ found = ReceiptFile(d, k)
    BY <1>1, <1>3 DEF OfReceipt
  <2>2. k \in ReceiptKey
    BY <2>1, ReceiptsOfFacts
  <2>3. /\ ExpectedType(k) = "execution_receipt" /\ found.type = "execution_receipt"
        /\ found.schema = (d.receipts[k] # "broken")
    <3> HIDE DEF d, found
    <3>1. /\ ReceiptFile(d, k).type = "execution_receipt"
          /\ ReceiptFile(d, k).schema = (d.receipts[k] # "broken")
      BY <1>1, <2>2, ReceiptFileFacts
    <3>2. ExpectedType(k) = "execution_receipt"
      BY <2>2, ExpectedTypes
    <3>3. QED
      BY <2>1, <3>1, <3>2
  <2>4. d.receipts[k] = "ready" => EntryVerifies(k)
    <3>1. ASSUME d.receipts[k] = "ready" PROVE ValidateRecursive(found)
      BY <2>3, <3>1 DEF ValidateRecursive
    <3>2. QED
      BY <1>1, <2>1, <2>3, <3>1 DEF EntryVerifies
  <2>5. CASE d.type = "cloud_stage0"
    <3>1. k \in CloudKey /\ AllBound(d, CloudKey)
      BY <1>1, <2>1, <2>5, ReceiptsOfFacts, RequiredReceipts
    <3>2. QED
      BY <2>4, <3>1 DEF AllBound
  <2>6. CASE d.type = "local_stage0_bundle" /\ d.passed /\ k \in LocalKey
    <3>1. AllBound(d, LocalKey)
      BY <1>1, <2>6, RequiredReceipts
    <3>2. QED
      BY <2>4, <2>6, <3>1 DEF AllBound
  <2>7. CASE d.type = "local_stage0_bundle" /\ ~(d.passed /\ k \in LocalKey)
    BY <2>2, <2>7 DEF Unseen, NotRequired
  <2>8. QED
    BY <2>1, <2>5, <2>6, <2>7, ReceiptsOfFacts
<1>4. QED
  BY <1>2, <1>3 DEF EntryGood

(* The verifier agrees with every manifest that can be read, receipts nobody*)
(* validated apart, for any documents and a crash or a failing call at any  *)
(* step; and where os.rename replaces a file, every manifest can be read    *)
(* (main() of publish_evidence.py, verify_manifest()).                      *)
THEOREM WhatIsPublishedVerifies == Spec => []VerifierAgrees
<1>1. IInv => VerifierAgrees
  <2> SUFFICES ASSUME IInv
               PROVE  VerifierAgrees
    OBVIOUS
  <2>1. manifest = Partial => RenameMayFail
    BY DEF IInv, TypeOK
  <2>2. ASSUME Readable, NEW k \in Key PROVE EntryVerifies(k) \/ Unseen(k)
    <3>1. Complete(files, manifest)
      BY <2>2 DEF IInv, OnRecord
    <3>2. CASE manifest[k] = Absent
      BY <3>2 DEF EntryVerifies
    <3>3. CASE manifest[k] # Absent
      BY <3>1, <3>3, EntryIsVerified DEF Complete
    <3>4. QED
      BY <3>2, <3>3
  <2>3. QED
    BY <2>1, <2>2 DEF VerifierAgrees
<1>2. QED
  BY <1>1, InductiveInvariant, PTL

(* The required receipts the manifest names are bound to the evidence it    *)
(* names, however many publications were cut short (_write_receipt_files).  *)
THEOREM ReceiptsAreOfTheirEvidence == Spec => []ReceiptsFollowTheirEvidence
<1>1. IInv => ReceiptsFollowTheirEvidence
  BY DEF IInv, OnRecord, Readable, AllFollow, Follows, Foreign, NotRequired,
         CurrentReceipts, ReceiptsFollowTheirEvidence
<1>2. QED
  BY <1>1, InductiveInvariant, PTL

(* Nothing synthetic and no personal path is ever named by the manifest, and*)
(* sanitising has broken no digest (_validate_and_load, _sanitise_evidence).*)
THEOREM PublishedIsSanitised == Spec => []SanitisedAndStillBound
<1>1. ASSUME NEW k \in Key, NEW e, EntryGood(files, k, e)
      PROVE  LET d == files[e.filename]
             IN  /\ d.paths = "none" /\ d.origin = "real"
                 /\ d.type \in {"local_stage0_bundle", "cloud_stage0"} /\ d.passed =>
                      d.digestsMatch
  <2> DEFINE d == files[e.boundTo]
  <2>1. d \in Document /\ d.paths = "none" /\ d.origin = "real" /\ Published(d)
    BY <1>1 DEF EntryGood, Published, Accepted, ValidateAndLoad
  <2>2. CASE OfEvidence(files, k, e)
    BY <2>1, <2>2, RequiredReceipts DEF OfEvidence, AllBound
  <2>3. CASE OfReceipt(files, k, e)
    <3>1. k \in ReceiptKey /\ files[e.filename] = ReceiptFile(d, k)
      BY <1>1, <2>3, ReceiptsOfFacts DEF EntryGood, OfReceipt
    <3>2. QED
      BY <2>1, <3>1, ReceiptFileFacts
  <2>4. QED
    BY <1>1, <2>2, <2>3 DEF EntryGood
<1>2. IInv => SanitisedAndStillBound
  BY <1>1 DEF IInv, OnRecord, Readable, Complete, SanitisedAndStillBound
<1>3. QED
  BY <1>2, InductiveInvariant, PTL

(* No publication, failure or crash loses an entry under another key, and   *)
(* the file of an entry is never written again, except that a publication   *)
(* that could not read the manifest starts from an empty one and that a copy*)
(* over the manifest may be cut short (_collision_guard_path,               *)
(* _load_manifest, the shutil.move of main()).                              *)
THEOREM NothingIsLost == Spec => NothingIsForgotten
<1>1. ASSUME IInv, [Next]_vars, Readable
      PROVE  \A f \in File : files[f] \in Document => files'[f] = files[f]
  <2>1. CASE files' = files
    BY <2>1
  <2>2. CASE OpenEvidence \/ OpenReceipt
    <3>1. nextFile \in File => files[nextFile] = Absent
      BY <1>1 DEF IInv, TypeOK, OnDisk, File
    <3>2. QED
      BY <1>1, <2>2, <3>1, NoNull DEF OpenEvidence, OpenReceipt, OpenFile, IInv, TypeOK
  <2>3. CASE WriteEvidence
    BY <1>1, <2>3, NoNull DEF WriteEvidence, Goto, IInv, TypeOK, OnDisk
  <2>4. CASE \E k \in ReceiptKey : WriteReceipt(k)
    BY <1>1, <2>4, NoNull DEF WriteReceipt, Goto, IInv, TypeOK, OnDisk
  <2>5. files' = files \/ OpenEvidence \/ OpenReceipt \/ WriteEvidence
          \/ \E k \in ReceiptKey : WriteReceipt(k)
    BY <1>1 DEF Next, vars, disk, memory, command, Start, Validate, StopAtValidation,
       SanitiseAndRevalidate, StopAtSanitising, LoadManifest, OpenTmp, DumpTmp, MoveTmp,
       CopyOver, FinishCopy, UnlinkTmp, ManifestFails, Crash
  <2>6. QED
    BY <2>1, <2>2, <2>3, <2>4, <2>5
<1> DEFINE kept == IF RenameMayFail /\ manifest' = Partial THEN tmp' ELSE manifest'
<1>2. ASSUME IInv, [Next]_vars, Readable
      PROVE  \/ kept = manifest
             \/ /\ kept \in Manifest
                /\ \A k \in Key : manifest[k] # Absent => kept[k] # Absent \/ unread
  <2>1. ASSUME MoveTmp \/ CopyOver
        PROVE  /\ kept \in Manifest
               /\ \A k \in Key : manifest[k] # Absent => kept[k] # Absent \/ unread
    <3>1. pc \in Moving
      BY <2>1 DEF MoveTmp, CopyOver, Goto, Moving
    <3>2. /\ tmp = pending /\ pending \in Manifest
          /\ ~unread => \A k \in Key : manifest[k] # Absent => pending[k] # Absent
      BY <1>2, <3>1 DEF IInv, TypeOK, AtWork, InMemory, Loading
    <3>3. kept = pending
      BY <2>1, <3>2, NoNull DEF MoveTmp, CopyOver
    <3>4. unread \in BOOLEAN
      BY <1>2 DEF IInv, TypeOK
    <3> HIDE DEF kept
    <3>5. QED
      BY <3>2, <3>3, <3>4
  <2>2. ASSUME FinishCopy PROVE FALSE
    <3>1. pc = "copying"
      BY <2>2 DEF FinishCopy, Goto
    <3>2. manifest = Partial
      BY <1>2, <3>1 DEF IInv, AtWork
    <3>3. QED
      BY <1>2, <3>2 DEF Readable
  <2>3. manifest' = manifest \/ MoveTmp \/ CopyOver \/ FinishCopy
    BY <1>2 DEF Next, vars, disk, memory, command, Start, Validate, StopAtValidation,
       SanitiseAndRevalidate, StopAtSanitising, OpenEvidence, WriteEvidence, LoadManifest,
       OpenReceipt, WriteReceipt, OpenTmp, DumpTmp, UnlinkTmp, ManifestFails, Crash
  <2>4. manifest' = manifest => kept = manifest
    BY <1>2 DEF Readable
  <2> HIDE DEF kept
  <2>5. QED
    BY <2>1, <2>2, <2>3, <2>4
<1> HIDE DEF kept
<1>3. ASSUME IInv, [Next]_vars, Readable
      PROVE  /\ kept \notin {Absent, Partial}
             /\ \A k \in Key : manifest[k] # Absent =>
                  /\ kept[k] # Absent \/ unread
                  /\ files'[manifest[k].filename] = files[manifest[k].filename]
  <2>1. \A k \in Key : manifest[k] # Absent =>
          manifest[k].filename \in File /\ files[manifest[k].filename] \in Document
    BY <1>3 DEF IInv, OnRecord, Complete, EntryGood, Entry
  <2>2. QED
    BY <1>1, <1>2, <1>3, <2>1, NoNull DEF Readable
<1> USE DEF kept
<1>4. IInv /\ [Next]_vars =>
        [Readable =>
           /\ kept \notin {Absent, Partial}
           /\ \A k \in Key : manifest[k] # Absent =>
                /\ kept[k] # Absent \/ unread
                /\ files'[manifest[k].filename] = files[manifest[k].filename]]_vars
  BY <1>3
<1>5. QED
  BY <1>4, InductiveInvariant, PTL DEF Spec, NothingIsForgotten
================================================================================
