-------------------------- MODULE ObjectStoreProofs -------------------------
(***************************************************************************)
(* What ObjectStore's run checks on a small instance, for every set of     *)
(* clients, keys, uploads and data, any number of parts and any number of  *)
(* failed writes and crashes: its invariants, and that the two file writes *)
(* of StorageManager::PutObject and DeleteObject implement AtomicObjects.  *)
(***************************************************************************)
EXTENDS ObjectStore, FiniteSetTheorems, TLAPS

-----------------------------------------------------------------------------
(* Plaintexts.                                                             *)

\* A plaintext is a function on an initial segment of the part numbers.
LEMMA PlaintextIntro ==
    ASSUME NEW n \in 0..MaxPart, NEW f \in [1..n -> Data]
    PROVE  f \in Plaintexts
BY DEF Plaintexts

\* The empty plaintext and those of one datum, which PutObject takes.
LEMMA SmallPlaintexts == <<>> \in Plaintexts /\ \A d \in Data : <<d>> \in Plaintexts
<1>1. 0 \in 0..MaxPart /\ 1 \in 0..MaxPart
  BY ConstantAssumption
<1>2. <<>> \in [1..0 -> Data]
  OBVIOUS
<1>3. \A d \in Data : <<d>> \in [1..1 -> Data]
  OBVIOUS
<1> QED
  BY <1>1, <1>2, <1>3, PlaintextIntro

\* The empty list of parts.
LEMMA EmptyList == <<>> \in Lists
<1>1. 0 \in 0..MaxList
  BY ConstantAssumption
<1>2. <<>> \in [1..0 -> Nums \X {Etag(d) : d \in Data}]
  OBVIOUS
<1> QED
  BY <1>1, <1>2 DEF Lists

\* The job of a client that is in no put of an upload.
LEMMA IdleType ==
    ASSUME NEW k \in Keys
    PROVE  /\ Idle(k) \in Jobs
           /\ \A d \in Data : [Idle(k) EXCEPT !.content = <<d>>] \in Jobs
           /\ \A u \in Uploads : [Idle(k) EXCEPT !.upload = u] \in Jobs
BY SmallPlaintexts, EmptyList DEF Idle, Jobs

\* The part numbers up to the first gap are an initial segment: as many
\* numbers as the segment has, each below the next one that is missing.
LEMMA SequentialIsSegment ==
    ASSUME NEW u \in Uploads
    PROVE  \E m \in 0..MaxPart : Sequential(u) = 1..m
<1> DEFINE S == Sequential(u)
           m == Cardinality(S)
<1>0. MaxPart \in Nat /\ MaxPart >= 1
  BY ConstantAssumption
<1>1. IsFiniteSet(Nums) /\ Cardinality(Nums) = MaxPart
  BY <1>0, FS_Interval DEF Nums
<1>2. S \in SUBSET Nums
  BY DEF Sequential
<1>3. IsFiniteSet(S) /\ m \in Nat /\ m <= MaxPart
  BY <1>1, <1>2, FS_Subset, FS_CardinalityType
<1>4. IsFiniteSet(1..m) /\ Cardinality(1..m) = m
  BY <1>3, FS_Interval
<1>5. ASSUME NEW n \in S PROVE n \in 1..m
  <2>1. n \in Nat /\ n >= 1
    BY <1>0, <1>2 DEF Nums
  <2>2. 1..n \in SUBSET S
    BY <1>0, <2>1 DEF Sequential, Nums
  <2>3. Cardinality(1..n) = n
    BY <2>1, FS_Interval
  <2>4. Cardinality(1..n) <= m
    BY <1>3, <2>2, FS_Subset
  <2> QED
    BY <1>3, <2>1, <2>3, <2>4
<1>6. S = 1..m
  BY <1>4, <1>5, FS_Subset
<1> QED
  BY <1>0, <1>3, <1>6

\* A completion that lists 1, 2, ... n lists all the parts there are.
LEMMA ListedAreAll ==
    ASSUME NEW u \in Uploads, NEW list \in Lists, TypeOK, Matches(u, list),
           \A i \in 1..Len(list) : list[i][1] = i
    PROVE  /\ Len(list) \in Nat
           /\ Sequential(u) = 1..Len(list)
           /\ \A i \in 1..Len(list) : list[i][2] = parts[u][i]
<1> DEFINE L == Len(list)
<1>0. MaxPart \in Nat
  BY ConstantAssumption
<1>1. PICK n \in 0..MaxList : list \in [1..n -> Nums \X {Etag(d) : d \in Data}]
  BY DEF Lists
<1>2. n \in Nat
  BY ConstantAssumption
<1>3. L = n
  BY <1>1, <1>2
<1>4. \A i \in 1..L : /\ i \in Nums /\ list[i][2] = parts[u][i]
                      /\ list[i][2] \in {Etag(d) : d \in Data}
  <2> TAKE i \in 1..L
  <2>1. list[i] \in Nums \X {Etag(d) : d \in Data}
    BY <1>1, <1>3
  <2>2. list[i][1] \in Nums /\ list[i][2] \in {Etag(d) : d \in Data}
    BY <2>1
  <2>3. list[i][1] = i /\ parts[u][list[i][1]] = list[i][2]
    BY DEF Matches
  <2> QED
    BY <2>2, <2>3
<1>5. 1..L \in SUBSET PartNums(u)
  BY <1>4, MarkerAssumption DEF PartNums
<1>6. IsFiniteSet(PartNums(u))
  <2>1. IsFiniteSet(Nums)
    BY <1>0, FS_Interval DEF Nums
  <2> QED
    BY <2>1, FS_Subset DEF PartNums
<1>7. Cardinality(1..L) = L
  BY <1>2, <1>3, FS_Interval
<1>8. Cardinality(PartNums(u)) = L
  BY DEF Matches
<1>9. PartNums(u) = 1..L
  BY <1>5, <1>6, <1>7, <1>8, FS_Subset
<1>10. Sequential(u) = 1..L
  <2>1. \A k \in Nums : 1..k \subseteq 1..L <=> k \in 1..L
    BY <1>0, <1>2, <1>3 DEF Nums
  <2>2. 1..L \subseteq Nums
    BY <1>4
  <2> QED
    BY <1>9, <2>1, <2>2 DEF Sequential
<1> QED
  BY <1>2, <1>3, <1>4, <1>10

\* What CompleteMultipartUpload assembles is a plaintext, part by part.
LEMMA AssembleType ==
    ASSUME NEW u \in Uploads, Inv, multipart_mutex = NoClient,
           \A n \in Sequential(u) : file[u][n] # Torn
    PROVE  /\ Assemble(u) \in Plaintexts
           /\ \A n \in Sequential(u) : parts[u][n] = Etag(Assemble(u)[n])
<1>1. \A t \in Clients : pc[t] # "unlink"
  BY ConstantAssumption DEF Inv, LocksHeld
<1>2. \A n \in Sequential(u) : n \in Nums /\ parts[u][n] # None
  BY DEF Sequential, PartNums, Nums
<1>3. \A n \in Sequential(u) : file[u][n] \in Data /\ parts[u][n] = Etag(file[u][n])
  BY <1>1, <1>2 DEF Inv, PartsFit, At
<1>4. PICK m \in 0..MaxPart : Sequential(u) = 1..m
  BY SequentialIsSegment
<1>5. Assemble(u) \in [1..m -> Data]
  BY <1>3, <1>4 DEF Assemble
<1> QED
  BY <1>3, <1>5, PlaintextIntro DEF Assemble

-----------------------------------------------------------------------------
(* The inductive invariant.                                                *)

\* Releasing mutex_ keeps the types.
LEMMA EndPutType ==
    ASSUME TypeOK, NEW t \in Clients, EndPut(t)
    PROVE  /\ job' \in [Clients -> Jobs]
           /\ pc' \in [Clients -> {"idle", "lock", "data", "meta", "delete", "json", "mkdir",
                                   "cleanup", "unlink"}]
           /\ {multipart_mutex', mutex'} \subseteq Clients \cup {NoClient}
<1>1. job[t].key \in Keys
  BY DEF TypeOK, Jobs
<1> QED
  BY <1>1, IdleType DEF EndPut, Goto, TypeOK

\* The uploads are as they were if nobody begins or ends one, or a cleanup.
LEMMA UploadsKept ==
    ASSUME Inv, UNCHANGED uploads, NEW t \in Clients,
           \A s \in Clients \ {t} : pc'[s] = pc[s] /\ job'[s] = job[s],
           {pc[t], pc'[t]} \cap {"json", "mkdir", "unlink"} = {}
    PROVE  FilesOfUploads' /\ PartsFit'
<1>1. /\ At("json")' = At("json") /\ At("mkdir")' = At("mkdir") /\ At("unlink")' = At("unlink")
      /\ \A s \in At("json") \cup At("mkdir") \cup At("unlink") :
            job'[s].upload = job[s].upload
  BY DEF At
<1> QED
  BY <1>1 DEF Inv, FilesOfUploads, PartsFit, uploads

\* Releasing mutex_ disturbs neither the locks nor the uploads.
LEMMA EndPutKeeps ==
    ASSUME Inv, NEW t \in Clients, EndPut(t), pc[t] \in {"data", "meta", "delete"}
    PROVE  LocksHeld' /\ FilesOfUploads' /\ PartsFit' /\ PutsWhatIsListed'
<1>1. \A s \in Clients \ {t} : pc'[s] = pc[s] /\ job'[s] = job[s]
  BY DEF EndPut, Goto, Inv, TypeOK
<1>2. pc'[t] \in {"idle", "cleanup"}
  BY DEF EndPut, Goto, Inv, TypeOK
<1>3. FilesOfUploads' /\ PartsFit'
  BY <1>1, <1>2, UploadsKept DEF EndPut
<1>4. LocksHeld'
  BY ConstantAssumption DEF EndPut, Goto, Inv, TypeOK, LocksHeld, Idle
<1>5. PutsWhatIsListed'
  <2>1. CASE job[t].upload = NoUpload
    <3>1. \A s \in Clients : pc'[s] # "idle" => job'[s] = job[s] /\ pc[s] # "idle"
      BY <2>1 DEF EndPut, Goto, Inv, TypeOK
    <3> QED
      BY <3>1 DEF Inv, PutsWhatIsListed
  <2>2. CASE job[t].upload # NoUpload
    <3>1. UNCHANGED job /\ pc' = [pc EXCEPT ![t] = "cleanup"]
      BY <2>2 DEF EndPut, Goto
    <3> QED
      BY <3>1 DEF Inv, TypeOK, PutsWhatIsListed
  <2> QED
    BY <2>1, <2>2
<1> QED
  BY <1>3, <1>4, <1>5

\* A call of PutObject.
LEMMA PutObjectInv ==
    ASSUME Inv, NEW t \in Clients, NEW k \in Keys, NEW d \in Data, PutObject(t, k, d)
    PROVE  Inv'
<1> DEFINE j == [Idle(k) EXCEPT !.content = <<d>>]
<1>0. j \in Jobs /\ j.upload = NoUpload /\ j.list = <<>>
  BY IdleType DEF Idle
<1> HIDE DEF j
<1>1. /\ pc[t] = "idle" /\ pc' = [pc EXCEPT ![t] = "lock"]
      /\ job' = [job EXCEPT ![t] = j]
      /\ UNCHANGED <<objects, uploads, locks, faults, crashes>>
  BY DEF PutObject, Goto, j
<1> USE DEF objects, uploads, locks
<1>2. TypeOK'
  BY <1>0, <1>1 DEF Inv, TypeOK
<1>3. LocksHeld'
  BY <1>0, <1>1 DEF Inv, TypeOK, LocksHeld
<1>4. HalfDone'
  BY <1>1 DEF Inv, TypeOK, HalfDone
<1>5. ObjectsFit'
  BY <1>1 DEF Inv, TypeOK, ObjectsFit, Fits, At
<1>6. FilesOfUploads' /\ PartsFit'
  BY <1>1 DEF Inv, TypeOK, FilesOfUploads, PartsFit, At
<1>7. PutsWhatIsListed'
  BY <1>0, <1>1 DEF Inv, TypeOK, PutsWhatIsListed
<1> QED
  BY <1>2, <1>3, <1>4, <1>5, <1>6, <1>7 DEF Inv

\* PutObject takes mutex_.
LEMMA LockObjectsInv ==
    ASSUME Inv, NEW t \in Clients, LockObjects(t)
    PROVE  Inv'
<1> USE DEF LockObjects, Goto, objects, uploads, locks
<1>2. TypeOK'
  BY DEF Inv, TypeOK
<1>3. LocksHeld'
  BY ConstantAssumption DEF Inv, TypeOK, LocksHeld
<1>4. HalfDone'
  BY DEF Inv, TypeOK, HalfDone
<1>5. ObjectsFit'
  BY DEF Inv, TypeOK, ObjectsFit, Fits, At
<1>6. FilesOfUploads' /\ PartsFit'
  BY DEF Inv, TypeOK, FilesOfUploads, PartsFit, At
<1>7. PutsWhatIsListed'
  BY DEF Inv, TypeOK, PutsWhatIsListed
<1> QED
  BY <1>2, <1>3, <1>4, <1>5, <1>6, <1>7 DEF Inv

\* A put that fails before it has written anything.
LEMMA PutFailsInv ==
    ASSUME Inv, NEW t \in Clients, PutFails(t)
    PROVE  Inv'
<1> USE DEF PutFails, EndPut, Goto, Fault, objects, uploads, locks
<1>1. job[t].key \in Keys /\ Idle(job[t].key) \in Jobs
  BY IdleType DEF Inv, TypeOK, Jobs
<1>2. TypeOK'
  BY <1>1, EndPutType DEF Inv, TypeOK
<1>3. HalfDone'
  BY ConstantAssumption DEF Inv, TypeOK, HalfDone, LocksHeld
<1>4. ObjectsFit'
  BY DEF Inv, TypeOK, ObjectsFit, Fits, At
<1> QED
  BY <1>2, <1>3, <1>4, EndPutKeeps DEF Inv

\* The data file is written: the put is between its writes.
LEMMA WriteObjectInv ==
    ASSUME Inv, NEW t \in Clients, WriteObject(t)
    PROVE  Inv'
<1> USE DEF WriteObject, Goto, Fault, objects, uploads, locks
<1>1. job[t].key \in Keys /\ job[t].content \in Plaintexts
  BY DEF Inv, TypeOK, Jobs
<1>2. TypeOK'
  BY <1>1 DEF Inv, TypeOK
<1>3. LocksHeld'
  BY DEF Inv, TypeOK, LocksHeld
<1>4. HalfDone'
  BY <1>1 DEF Inv, TypeOK, HalfDone, LocksHeld
<1>5. ObjectsFit'
  BY <1>1 DEF Inv, TypeOK, ObjectsFit, Fits, At
<1>6. FilesOfUploads' /\ PartsFit'
  BY DEF Inv, TypeOK, FilesOfUploads, PartsFit, At
<1>7. PutsWhatIsListed'
  BY DEF Inv, TypeOK, PutsWhatIsListed
<1> QED
  BY <1>2, <1>3, <1>4, <1>5, <1>6, <1>7 DEF Inv

\* The metadata are written, and the two files fit, or the key is noted.
LEMMA WriteMetaInv ==
    ASSUME Inv, NEW t \in Clients, WriteMeta(t)
    PROVE  Inv'
<1> USE DEF WriteMeta, EndPut, Goto, Fault, objects, uploads, locks
<1>1. /\ job[t].key \in Keys /\ job[t].content \in Plaintexts
      /\ Idle(job[t].key) \in Jobs
  BY IdleType DEF Inv, TypeOK, Jobs
<1>2. TypeOK'
  <2>1. meta' \in [Keys -> {Etag(x) : x \in Plaintexts} \cup {None, Torn}]
    <3>1. /\ meta \in [Keys -> {Etag(x) : x \in Plaintexts} \cup {None, Torn}]
          /\ Etag(job[t].content) \in {Etag(x) : x \in Plaintexts}
          /\ \/ meta' = meta
             \/ \E x \in {Torn, Etag(job[t].content)} : meta' = [meta EXCEPT ![job[t].key] = x]
      BY <1>1 DEF Inv, TypeOK
    <3> QED
      BY <1>1, <3>1
  <2>2. faults' \in Nat /\ unpaired' \subseteq Keys
    BY <1>1 DEF Inv, TypeOK
  <2> QED
    BY <2>1, <2>2, EndPutType DEF Inv, TypeOK
<1>3. HalfDone'
  BY ConstantAssumption DEF Inv, TypeOK, HalfDone, LocksHeld
<1>4. ObjectsFit'
  <2>1. \A k \in Keys \ {job[t].key} : meta'[k] = meta[k] /\ (k \in unpaired' <=> k \in unpaired)
    BY <1>1 DEF Inv, TypeOK
  <2>2. job[t].key \in unpaired' \/ meta'[job[t].key] \in {Etag(job[t].content), Torn}
    BY <1>1 DEF Inv, TypeOK
  <2>3. object[job[t].key] \in {job[t].content, Torn}
    BY DEF Inv, HalfDone
  <2>4. \A s \in At("meta") : s = t
    BY DEF Inv, LocksHeld, At
  <2> QED
    BY <2>1, <2>2, <2>3, <2>4 DEF Inv, ObjectsFit, Fits
<1> QED
  BY <1>2, <1>3, <1>4, EndPutKeeps DEF Inv

\* The data file is removed under mutex_.
LEMMA DeleteObjectInv ==
    ASSUME Inv, NEW t \in Clients, NEW k \in Keys, DeleteObject(t, k)
    PROVE  Inv'
<1> USE DEF DeleteObject, Goto, objects, uploads, locks
<1>1. Idle(k) \in Jobs /\ Idle(k).upload = NoUpload /\ Idle(k).list = <<>> /\ Idle(k).key = k
  BY IdleType DEF Idle
<1>2. TypeOK'
  BY <1>1 DEF Inv, TypeOK
<1>3. LocksHeld'
  BY <1>1, ConstantAssumption DEF Inv, TypeOK, LocksHeld
<1>4. HalfDone'
  BY <1>1, ConstantAssumption DEF Inv, TypeOK, HalfDone, LocksHeld
<1>5. ObjectsFit'
  BY <1>1, ConstantAssumption DEF Inv, TypeOK, ObjectsFit, LocksHeld, Fits, At
<1>6. FilesOfUploads' /\ PartsFit'
  BY DEF Inv, TypeOK, FilesOfUploads, PartsFit, At
<1>7. PutsWhatIsListed'
  BY <1>1 DEF Inv, TypeOK, PutsWhatIsListed
<1> QED
  BY <1>2, <1>3, <1>4, <1>5, <1>6, <1>7 DEF Inv

\* The .meta file is removed.
LEMMA DeleteMetaInv ==
    ASSUME Inv, NEW t \in Clients, DeleteMeta(t)
    PROVE  Inv'
<1> USE DEF DeleteMeta, EndPut, Goto, objects, uploads, locks
<1>1. job[t].key \in Keys /\ Idle(job[t].key) \in Jobs
  BY IdleType DEF Inv, TypeOK, Jobs
<1>2. TypeOK'
  BY <1>1, EndPutType DEF Inv, TypeOK
<1>3. HalfDone'
  BY ConstantAssumption DEF Inv, TypeOK, HalfDone, LocksHeld
<1>4. ObjectsFit'
  BY <1>1, ConstantAssumption DEF Inv, TypeOK, ObjectsFit, HalfDone, LocksHeld, Fits, At
<1> QED
  BY <1>2, <1>3, <1>4, EndPutKeeps DEF Inv

\* Nobody initiates or cleans up an upload while multipart_mutex_ is free.
LEMMA NoCleanup ==
    ASSUME Inv, multipart_mutex = NoClient
    PROVE  \A t \in Clients : /\ pc[t] \notin {"json", "mkdir", "cleanup", "unlink"}
                              /\ job[t].upload = NoUpload
BY ConstantAssumption DEF Inv, LocksHeld

\* The conjuncts about objects and jobs hold on if neither changes.
LEMMA ObjectsKept ==
    ASSUME Inv, UNCHANGED <<objects, locks, pc, job>>
    PROVE  LocksHeld' /\ HalfDone' /\ ObjectsFit' /\ PutsWhatIsListed'
BY DEF Inv, LocksHeld, HalfDone, ObjectsFit, Fits, PutsWhatIsListed, At, objects, locks

\* A new upload is entered.
LEMMA InitiateInv ==
    ASSUME Inv, NEW t \in Clients, NEW u \in Uploads, NEW k \in Keys,
           InitiateMultipartUpload(t, u, k)
    PROVE  Inv'
<1> DEFINE j == [Idle(k) EXCEPT !.upload = u]
<1>0. /\ multipart_mutex = NoClient /\ multipart_mutex' = t /\ u \notin issued
      /\ pc[t] = "idle" /\ pc' = [pc EXCEPT ![t] = "json"]
      /\ job' = [job EXCEPT ![t] = j]
      /\ issued' = issued \cup {u} /\ active' = active \cup {u}
      /\ upkey' = [upkey EXCEPT ![u] = k]
      /\ UNCHANGED <<objects, parts, saved, dirs, file, orphans, mutex, faults, crashes>>
  BY DEF InitiateMultipartUpload, Goto
<1>1. j \in Jobs /\ j.upload = u /\ j.list = <<>>
  BY IdleType DEF Idle
<1> HIDE DEF j
<1>2. TypeOK'
  BY <1>0, <1>1 DEF Inv, TypeOK, objects
<1>3. LocksHeld'
  BY <1>0, <1>1, NoCleanup, ConstantAssumption DEF Inv, TypeOK, LocksHeld
<1>4. HalfDone'
  BY <1>0 DEF Inv, TypeOK, HalfDone, objects
<1>5. ObjectsFit'
  BY <1>0 DEF Inv, TypeOK, ObjectsFit, Fits, At, objects
<1>6. FilesOfUploads' /\ PartsFit'
  <2>1. /\ \A s \in Clients \ {t} : pc'[s] = pc[s] /\ pc[s] \notin {"json", "mkdir", "unlink"}
        /\ pc'[t] = "json" /\ job'[t].upload = u
    BY <1>0, <1>1, NoCleanup DEF Inv, TypeOK
  <2>2. At("json")' = {t} /\ At("mkdir")' = {} /\ At("unlink")' = {} /\ At("unlink") = {}
    BY <1>0, <2>1 DEF At
  <2>3. \A v \in active : v \in dirs
    BY <1>0, NoCleanup DEF Inv, FilesOfUploads, At
  <2> QED
    BY <1>0, <2>1, <2>2, <2>3 DEF Inv, FilesOfUploads, PartsFit
<1>7. PutsWhatIsListed'
  BY <1>0, <1>1 DEF Inv, TypeOK, PutsWhatIsListed
<1> QED
  BY <1>2, <1>3, <1>4, <1>5, <1>6, <1>7 DEF Inv

\* Its JSON file is written, or not.
LEMMA SaveNewUploadInv ==
    ASSUME Inv, NEW t \in Clients, SaveNewUpload(t)
    PROVE  Inv'
<1>0. /\ pc[t] = "json" /\ pc' = [pc EXCEPT ![t] = "mkdir"]
      /\ saved' \in {saved, saved \cup {job[t].upload}}
      /\ UNCHANGED <<objects, active, upkey, parts, dirs, file, issued, orphans, locks, job,
                     crashes>>
  BY DEF SaveNewUpload, save_upload_meta, Goto
<1>1. faults' \in Nat
  <2>1. faults \in Nat /\ (UNCHANGED faults \/ Fault)
    BY DEF SaveNewUpload, Inv, TypeOK
  <2> QED
    BY <2>1 DEF Fault
<1>2. job[t].upload \in active
  BY <1>0 DEF Inv, FilesOfUploads, At
<1> USE DEF objects, locks
<1>3. TypeOK'
  BY <1>0, <1>1, <1>2 DEF Inv, TypeOK
<1>4. LocksHeld'
  BY <1>0 DEF Inv, TypeOK, LocksHeld
<1>5. HalfDone'
  BY <1>0 DEF Inv, TypeOK, HalfDone
<1>6. ObjectsFit'
  BY <1>0 DEF Inv, TypeOK, ObjectsFit, Fits, At
<1>7. FilesOfUploads' /\ PartsFit'
  <2>1. /\ (At("json") \cup At("mkdir"))' = At("json") \cup At("mkdir")
        /\ At("unlink")' = At("unlink")
    BY <1>0 DEF At, Inv, TypeOK
  <2> QED
    BY <1>0, <1>2, <2>1 DEF Inv, FilesOfUploads, PartsFit
<1>8. PutsWhatIsListed'
  BY <1>0 DEF Inv, TypeOK, PutsWhatIsListed
<1> QED
  BY <1>3, <1>4, <1>5, <1>6, <1>7, <1>8 DEF Inv

\* Its directory is created.
LEMMA CreateDirectoryInv ==
    ASSUME Inv, NEW t \in Clients, CreateDirectory(t)
    PROVE  Inv'
<1>0. /\ pc[t] = "mkdir" /\ pc' = [pc EXCEPT ![t] = "idle"]
      /\ dirs' = dirs \cup {job[t].upload} /\ multipart_mutex' = NoClient
      /\ job' = [job EXCEPT ![t] = Idle(job[t].key)]
      /\ UNCHANGED <<objects, active, upkey, parts, saved, file, issued, orphans, mutex, faults,
                     crashes>>
  BY DEF CreateDirectory, Goto
<1>1. /\ job[t].upload \in active /\ multipart_mutex = t /\ job[t].key \in Keys
      /\ Idle(job[t].key) \in Jobs /\ Idle(job[t].key).upload = NoUpload
  BY <1>0, IdleType DEF Inv, TypeOK, LocksHeld, FilesOfUploads, At, Jobs, Idle
<1>2. \A s \in Clients \ {t} :
          pc[s] \notin {"json", "mkdir", "cleanup", "unlink"} /\ job[s].upload = NoUpload
  BY <1>1 DEF Inv, LocksHeld
<1>3. \A s \in Clients \ {t} : pc'[s] = pc[s] /\ job'[s] = job[s]
  BY <1>0 DEF Inv, TypeOK
<1> USE DEF objects
<1>4. TypeOK'
  BY <1>0, <1>1 DEF Inv, TypeOK
<1>5. LocksHeld'
  BY <1>0, <1>1, <1>2 DEF Inv, TypeOK, LocksHeld
<1>6. HalfDone'
  BY <1>0 DEF Inv, TypeOK, HalfDone
<1>7. ObjectsFit'
  BY <1>0 DEF Inv, TypeOK, ObjectsFit, Fits, At
<1>8. FilesOfUploads' /\ PartsFit'
  <2>1. /\ pc'[t] = "idle"
        /\ At("json") \cup At("mkdir") \cup At("unlink") = {t}
    BY <1>0, <1>2 DEF At, Inv, TypeOK
  <2>2. /\ At("json")' = {} /\ At("mkdir")' = {} /\ At("unlink")' = {} /\ At("unlink") = {}
    BY <1>0, <1>2, <1>3, <2>1 DEF At
  <2> QED
    BY <1>0, <1>1, <2>1, <2>2 DEF Inv, FilesOfUploads, PartsFit
<1>9. PutsWhatIsListed'
  <2>1. \A s \in Clients : pc'[s] # "idle" => job'[s] = job[s] /\ pc[s] # "idle"
    BY <1>0 DEF Inv, TypeOK
  <2> QED
    BY <2>1 DEF Inv, PutsWhatIsListed
<1> QED
  BY <1>4, <1>5, <1>6, <1>7, <1>8, <1>9 DEF Inv

\* A part is sent, perhaps again: its file and its etag are of the same data.
LEMMA UploadPartInv ==
    ASSUME Inv, NEW t \in Clients, NEW u \in Uploads, NEW n \in Nums, NEW d \in Data,
           UploadPart(t, u, n, d)
    PROVE  Inv'
<1> USE DEF UploadPart, save_upload_meta, Fault
<1>1. LocksHeld' /\ HalfDone' /\ ObjectsFit' /\ PutsWhatIsListed'
  BY ObjectsKept
<1>2. TypeOK'
  <2>1. parts' \in [Uploads -> [Nums -> {Etag(e) : e \in Data} \cup {None}]]
    BY DEF Inv, TypeOK
  <2>2. file' \in [Uploads -> [Nums -> Data \cup {None, Torn}]]
    <3>1. \E x \in {d, Torn} : file' = [file EXCEPT ![u][n] = x]
      BY Zenon
    <3> QED
      BY <3>1 DEF Inv, TypeOK
  <2>3. faults' \in Nat
    BY DEF Inv, TypeOK
  <2> QED
    BY <2>1, <2>2, <2>3 DEF Inv, TypeOK, objects, locks
<1>3. FilesOfUploads'
  BY NoCleanup DEF Inv, FilesOfUploads, At
<1>4. PartsFit'
  BY NoCleanup DEF Inv, TypeOK, PartsFit, At
<1> QED
  BY <1>1, <1>2, <1>3, <1>4 DEF Inv

\* A completion begins: what it is about to put is what it lists.
LEMMA CompleteInv ==
    ASSUME Inv, NEW t \in Clients, NEW u \in Uploads, NEW list \in Lists,
           CompleteMultipartUpload(t, u, list)
    PROVE  Inv'
<1> DEFINE j == [key |-> upkey[u], content |-> Assemble(u), upload |-> u, list |-> list]
<1>0. /\ multipart_mutex = NoClient /\ multipart_mutex' = t
      /\ pc[t] = "idle" /\ pc' = [pc EXCEPT ![t] = "lock"]
      /\ job' = [job EXCEPT ![t] = j]
      /\ UNCHANGED <<objects, uploads, mutex, faults, crashes>>
  BY DEF CompleteMultipartUpload, Goto
<1>1. j \in Jobs
  <2>1. Assemble(u) \in Plaintexts
    BY AssembleType DEF CompleteMultipartUpload
  <2>2. upkey[u] \in Keys
    BY DEF Inv, TypeOK
  <2> QED
    BY <2>1, <2>2 DEF Jobs
<1>2. TypeOK'
  BY <1>0, <1>1 DEF Inv, TypeOK, objects, uploads
<1>3. LocksHeld'
  BY <1>0, NoCleanup DEF Inv, TypeOK, LocksHeld
<1>4. HalfDone'
  BY <1>0 DEF Inv, TypeOK, HalfDone, objects
<1>5. ObjectsFit'
  BY <1>0 DEF Inv, TypeOK, ObjectsFit, Fits, At, objects
<1>6. FilesOfUploads' /\ PartsFit'
  <2>1. /\ \A s \in Clients \ {t} : pc'[s] = pc[s] /\ job'[s] = job[s]
        /\ {pc[t], pc'[t]} \cap {"json", "mkdir", "unlink"} = {}
    BY <1>0 DEF Inv, TypeOK
  <2> QED
    BY <1>0, <2>1, UploadsKept
<1>7. PutsWhatIsListed'
  <2>1. ASSUME \A i \in 1..Len(list) : list[i][1] = i
        PROVE  /\ Len(Assemble(u)) = Len(list)
               /\ \A i \in 1..Len(list) : list[i][2] = Etag(Assemble(u)[i])
    <3>1. /\ Len(list) \in Nat /\ Sequential(u) = 1..Len(list)
          /\ \A i \in 1..Len(list) : list[i][2] = parts[u][i]
      BY <2>1, ListedAreAll DEF CompleteMultipartUpload, Inv
    <3>2. \A n \in Sequential(u) : parts[u][n] = Etag(Assemble(u)[n])
      BY AssembleType DEF CompleteMultipartUpload
    <3>3. Len(Assemble(u)) = Len(list)
      BY <3>1 DEF Assemble
    <3> QED
      BY <3>1, <3>2, <3>3
  <2>2. \A s \in Clients \ {t} : job'[s] = job[s] /\ pc'[s] = pc[s]
    BY <1>0 DEF Inv, TypeOK
  <2>3. job'[t].list = list /\ job'[t].content = Assemble(u)
    BY <1>0 DEF Inv, TypeOK
  <2>4. PutsWhatIsListed
    BY DEF Inv
  <2> SUFFICES ASSUME NEW s \in Clients, job'[s].list # <<>>, pc'[s] # "idle",
                      \A i \in 1..Len(job'[s].list) : job'[s].list[i][1] = i
               PROVE  /\ Len(job'[s].content) = Len(job'[s].list)
                      /\ \A i \in 1..Len(job'[s].list) :
                            job'[s].list[i][2] = Etag(job'[s].content[i])
    BY DEF PutsWhatIsListed
  <2>5. CASE s = t
    BY <2>1, <2>3, <2>5
  <2>6. CASE s # t
    BY <2>2, <2>4, <2>6 DEF PutsWhatIsListed
  <2> QED
    BY <2>5, <2>6
<1> QED
  BY <1>2, <1>3, <1>4, <1>5, <1>6, <1>7 DEF Inv

\* An abort begins.
LEMMA AbortInv ==
    ASSUME Inv, NEW t \in Clients, NEW u \in Uploads, AbortMultipartUpload(t, u)
    PROVE  Inv'
<1> DEFINE j == [Idle(upkey[u]) EXCEPT !.upload = u]
<1>0. /\ multipart_mutex = NoClient /\ multipart_mutex' = t
      /\ pc[t] = "idle" /\ pc' = [pc EXCEPT ![t] = "cleanup"]
      /\ job' = [job EXCEPT ![t] = j]
      /\ UNCHANGED <<objects, uploads, mutex, faults, crashes>>
  BY DEF AbortMultipartUpload, Goto
<1>1. j \in Jobs /\ j.upload = u /\ j.list = <<>>
  <2>1. upkey[u] \in Keys
    BY DEF Inv, TypeOK
  <2> QED
    BY <2>1, IdleType DEF Idle
<1> HIDE DEF j
<1>2. TypeOK'
  BY <1>0, <1>1 DEF Inv, TypeOK, objects, uploads
<1>3. LocksHeld'
  BY <1>0, <1>1, NoCleanup, ConstantAssumption DEF Inv, TypeOK, LocksHeld
<1>4. HalfDone'
  BY <1>0 DEF Inv, TypeOK, HalfDone, objects
<1>5. ObjectsFit'
  BY <1>0 DEF Inv, TypeOK, ObjectsFit, Fits, At, objects
<1>6. FilesOfUploads' /\ PartsFit'
  <2>1. /\ \A s \in Clients \ {t} : pc'[s] = pc[s] /\ job'[s] = job[s]
        /\ {pc[t], pc'[t]} \cap {"json", "mkdir", "unlink"} = {}
    BY <1>0 DEF Inv, TypeOK
  <2> QED
    BY <1>0, <2>1, UploadsKept
<1>7. PutsWhatIsListed'
  BY <1>0, <1>1 DEF Inv, TypeOK, PutsWhatIsListed
<1> QED
  BY <1>2, <1>3, <1>4, <1>5, <1>6, <1>7 DEF Inv

\* The directory of the upload goes.
LEMMA RemovePartsInv ==
    ASSUME Inv, NEW t \in Clients, RemoveParts(t)
    PROVE  Inv'
<1> USE DEF RemoveParts, Goto, objects, locks
<1>0. job[t].upload \in Uploads /\ multipart_mutex = t
  BY DEF Inv, TypeOK, LocksHeld, Jobs
<1>1. \A s \in Clients : pc[s] = "unlink" => s = t
  BY <1>0 DEF Inv, LocksHeld
<1>2. TypeOK'
  BY <1>0 DEF Inv, TypeOK
<1>3. LocksHeld'
  BY DEF Inv, TypeOK, LocksHeld
<1>4. HalfDone'
  BY DEF Inv, TypeOK, HalfDone
<1>5. ObjectsFit'
  BY DEF Inv, TypeOK, ObjectsFit, Fits, At
<1>6. FilesOfUploads'
  BY <1>1 DEF Inv, TypeOK, FilesOfUploads, At
<1>7. PartsFit'
  BY <1>0, <1>1 DEF Inv, TypeOK, PartsFit, At
<1>8. PutsWhatIsListed'
  BY DEF Inv, TypeOK, PutsWhatIsListed
<1> QED
  BY <1>2, <1>3, <1>4, <1>5, <1>6, <1>7, <1>8 DEF Inv

\* The JSON file and the upload itself go.
LEMMA RemoveUploadInv ==
    ASSUME Inv, NEW t \in Clients, RemoveUpload(t)
    PROVE  Inv'
<1> USE DEF RemoveUpload, Goto, objects, locks
<1>0. job[t].upload \in Uploads /\ multipart_mutex = t /\ job[t].key \in Keys
  BY DEF Inv, TypeOK, LocksHeld, Jobs
<1>1. \A s \in Clients \ {t} : pc[s] # "unlink" /\ job[s].upload = NoUpload
  BY <1>0 DEF Inv, LocksHeld
<1>2. Idle(job[t].key) \in Jobs /\ Idle(job[t].key).upload = NoUpload
  BY <1>0, IdleType DEF Idle
<1>3. TypeOK'
  BY <1>0, <1>2 DEF Inv, TypeOK
<1>4. LocksHeld'
  BY <1>1, <1>2 DEF Inv, TypeOK, LocksHeld
<1>5. HalfDone'
  BY DEF Inv, TypeOK, HalfDone
<1>6. ObjectsFit'
  BY DEF Inv, TypeOK, ObjectsFit, Fits, At
<1>7. FilesOfUploads'
  <2>1. /\ At("json")' = {} /\ At("mkdir")' = {} /\ At("unlink")' = {}
        /\ At("json") = {} /\ At("mkdir") = {} /\ At("unlink") = {t}
    BY <1>0, <1>1 DEF At, Inv, TypeOK, LocksHeld
  <2>2. job[t].upload \notin dirs
    BY <2>1 DEF Inv, FilesOfUploads
  <2>3. (dirs \cup saved)' \subseteq (active \cup orphans)'
    BY <2>2 DEF Inv, FilesOfUploads
  <2> QED
    BY <2>1, <2>2, <2>3 DEF Inv, FilesOfUploads
<1>8. PartsFit'
  BY <1>0, <1>1 DEF Inv, TypeOK, PartsFit, At
<1>9. PutsWhatIsListed'
  <2>1. \A s \in Clients : pc'[s] # "idle" => job'[s] = job[s] /\ pc[s] # "idle"
    BY DEF Inv, TypeOK
  <2> QED
    BY <2>1 DEF Inv, PutsWhatIsListed
<1> QED
  BY <1>3, <1>4, <1>5, <1>6, <1>7, <1>8, <1>9 DEF Inv

\* A crash changes at most the file being written, whose key it marks.
LEMMA CrashObjects ==
    ASSUME Inv, Crash
    PROVE  /\ object' \in [Keys -> Plaintexts \cup {None, Torn}]
           /\ meta' \in [Keys -> {Etag(x) : x \in Plaintexts} \cup {None, Torn}]
           /\ \A k \in Keys : object'[k] # object[k] =>
                 \E t \in Clients : pc[t] = "data" /\ mutex = t /\ job[t].key = k
           /\ \A k \in Keys : meta'[k] # meta[k] =>
                 \E t \in Clients : pc[t] = "meta" /\ mutex = t /\ job[t].key = k
<1>1. \A t \in Clients : job[t].key \in Keys /\ job[t].content \in Plaintexts
  BY DEF Inv, TypeOK, Jobs
<1>2. object \in [Keys -> Plaintexts \cup {None, Torn}]
  BY DEF Inv, TypeOK
<1>3. meta \in [Keys -> {Etag(x) : x \in Plaintexts} \cup {None, Torn}]
  BY DEF Inv, TypeOK
<1>4. \/ object' = object
      \/ \E t \in At("data") : \E x \in {Torn, job[t].content} :
            object' = [object EXCEPT ![job[t].key] = x]
  BY DEF Crash
<1>5. \/ meta' = meta
      \/ \E t \in At("meta") : \E x \in {Torn, Etag(job[t].content)} :
            meta' = [meta EXCEPT ![job[t].key] = x]
  BY DEF Crash
<1>6. \A t \in At("data") \cup At("meta") : mutex = t /\ t \in Clients
  BY DEF At, Inv, LocksHeld
<1>7. \A k \in Keys : object'[k] # object[k] =>
                 \E t \in Clients : pc[t] = "data" /\ mutex = t /\ job[t].key = k
  BY <1>1, <1>2, <1>4, <1>6 DEF At
<1>8. \A k \in Keys : meta'[k] # meta[k] =>
                 \E t \in Clients : pc[t] = "meta" /\ mutex = t /\ job[t].key = k
  BY <1>1, <1>3, <1>5, <1>6 DEF At
<1>9. object' \in [Keys -> Plaintexts \cup {None, Torn}]
  BY <1>1, <1>2, <1>4 DEF At
<1>10. meta' \in [Keys -> {Etag(x) : x \in Plaintexts} \cup {None, Torn}]
  BY <1>1, <1>3, <1>5 DEF At
<1> QED
  BY <1>7, <1>8, <1>9, <1>10

\* After a crash every client is idle, no upload is active, and the keys
\* whose files may not fit are marked.
LEMMA CrashInv ==
    ASSUME Inv, Crash
    PROVE  Inv'
<1>1. \A t \in Clients : job[t].key \in Keys
  BY DEF Inv, TypeOK, Jobs
<1>2. /\ pc' = [t \in Clients |-> "idle"]
      /\ job' = [t \in Clients |-> Idle(job[t].key)]
      /\ active' = {} /\ orphans' = orphans \cup active
      /\ parts' = [u \in Uploads |-> [n \in Nums |-> None]]
      /\ multipart_mutex' = NoClient /\ mutex' = NoClient
      /\ unpaired' = unpaired \cup {job[t].key : t \in {t \in Clients : mutex = t}}
      /\ crashes' = crashes + 1
      /\ UNCHANGED <<upkey, saved, dirs, file, issued, faults>>
  BY DEF Crash
<1>3. job' \in [Clients -> Jobs]
  BY <1>1, <1>2, IdleType
<1>4. TypeOK'
  BY <1>1, <1>2, <1>3, CrashObjects DEF Inv, TypeOK
<1>5. LocksHeld' /\ HalfDone'
  BY <1>2 DEF LocksHeld, HalfDone, Idle
<1>6. ObjectsFit'
  <2> SUFFICES ASSUME NEW k \in Keys, k \notin unpaired'
               PROVE  Fits(k)'
    BY DEF ObjectsFit
  <2>1. \A t \in Clients : mutex = t => job[t].key # k
    BY <1>2
  <2>2. k \notin unpaired /\ \A t \in At("meta") : job[t].key # k
    BY <1>2, <2>1 DEF At, Inv, LocksHeld
  <2>3. Fits(k)
    BY <2>2 DEF Inv, ObjectsFit
  <2>4. object'[k] = object[k] /\ meta'[k] = meta[k]
    BY <2>1, CrashObjects
  <2> QED
    BY <2>3, <2>4 DEF Fits
<1>7. FilesOfUploads'
  BY <1>2 DEF Inv, FilesOfUploads, At
<1>8. PartsFit' /\ PutsWhatIsListed'
  BY <1>2 DEF PartsFit, PutsWhatIsListed
<1> QED
  BY <1>4, <1>5, <1>6, <1>7, <1>8 DEF Inv

\* Every step keeps the invariant.
LEMMA InvStep ==
    ASSUME Inv, [Next]_vars
    PROVE  Inv'
<1>1. CASE UNCHANGED vars
  <2>1. UNCHANGED <<objects, uploads, locks, pc, job, faults, crashes>>
    BY <1>1 DEF vars
  <2>2. TypeOK'
    BY <2>1 DEF Inv, TypeOK, objects, uploads, locks
  <2>3. FilesOfUploads' /\ PartsFit'
    BY <2>1 DEF Inv, FilesOfUploads, PartsFit, At, uploads
  <2> QED
    BY <2>1, <2>2, <2>3, ObjectsKept DEF Inv
<1>2. ASSUME NEW t \in Clients, Client(t) PROVE Inv'
  BY <1>2, PutObjectInv, LockObjectsInv, PutFailsInv, WriteObjectInv, WriteMetaInv,
     DeleteObjectInv, DeleteMetaInv, InitiateInv, UploadPartInv, CompleteInv, AbortInv,
     SaveNewUploadInv, CreateDirectoryInv, RemovePartsInv, RemoveUploadInv DEF Client
<1> QED
  BY <1>1, <1>2, CrashInv DEF Next

\* The invariant holds of an empty store.
LEMMA InvInit == Init => Inv
<1> SUFFICES ASSUME Init PROVE Inv
  OBVIOUS
<1>1. job \in [Clients -> Jobs]
  BY IdleType DEF Init
<1>2. TypeOK
  BY <1>1 DEF Init, TypeOK
<1>3. LocksHeld /\ HalfDone
  BY DEF Init, LocksHeld, HalfDone, Idle
<1>4. ObjectsFit
  BY DEF Init, ObjectsFit, Fits
<1>5. FilesOfUploads /\ PartsFit /\ PutsWhatIsListed
  BY DEF Init, FilesOfUploads, PartsFit, PutsWhatIsListed, At
<1> QED
  BY <1>2, <1>3, <1>4, <1>5 DEF Inv

(* The inductive invariant of StorageManager's two mutexes, its object files *)
(* and its uploads; it contains PutsWhatIsListed and the types.              *)
THEOREM StoreInvariant == Spec => []Inv
BY InvInit, InvStep, PTL DEF Spec

(* Type correctness; what CompleteMultipartUpload assembles is a plaintext, *)
(* whatever parts were sent, sent again, torn or lost.                      *)
THEOREM StoreTypeCorrect == Spec => []TypeOK
<1>1. Inv => TypeOK
  BY DEF Inv
<1> QED
  BY <1>1, StoreInvariant, PTL

(* The etag GetObject returns is that of the data it returns, for every key *)
(* whose put or delete no crash cut short and whose last put opened its     *)
(* .meta file.                                                              *)
THEOREM StoreEtagFits == Spec => []EtagFitsObject
<1>1. Inv => EtagFitsObject
  <2> SUFFICES ASSUME Inv, NEW k \in Keys \ unpaired, Quiet,
                      GetObject(k) \notin {None, Torn}
               PROVE  meta[k] = Etag(object[k])
    BY DEF EtagFitsObject
  <2>1. Fits(k)
    BY DEF Inv, ObjectsFit, Quiet
  <2>2. object[k] # None /\ Torn \notin {object[k], meta[k]}
    BY DEF GetObject
  <2> QED
    BY <2>1, <2>2 DEF Fits
<1> QED
  BY <1>1, StoreInvariant, PTL

(* CompleteMultipartUpload puts what its list says, in its order.           *)
THEOREM StorePutsWhatIsListed == Spec => []PutsWhatIsListed
<1>1. Inv => PutsWhatIsListed
  BY DEF Inv
<1> QED
  BY <1>1, StoreInvariant, PTL

(* While no call holds multipart_mutex_, the files on disk are those of     *)
(* active uploads and of the ones a crash made the process forget, and each *)
(* active upload has its directory.                                         *)
THEOREM StoreFilesOfUploads == Spec => []FilesOfActiveUploads
<1>1. Inv => FilesOfActiveUploads
  <2> SUFFICES ASSUME Inv, multipart_mutex = NoClient
               PROVE  /\ dirs \cup saved \subseteq active \cup orphans
                      /\ active \subseteq dirs
    BY DEF FilesOfActiveUploads
  <2> QED
    BY NoCleanup DEF Inv, FilesOfUploads, At
<1> QED
  BY <1>1, StoreInvariant, PTL

-----------------------------------------------------------------------------
(* The refinement: every step is one of AtomicObjects or leaves its         *)
(* variables as they are.                                                   *)

\* A step of t changes at most t's own call.
LEMMA CallsOfOthers ==
    ASSUME NEW t \in Clients,
           \A s \in Clients \ {t} : pc'[s] = pc[s] /\ job'[s] = job[s]
    PROVE  /\ t \notin InCall /\ t \notin InCall' => ObjectCalls' = ObjectCalls
           /\ t \notin InCall /\ t \in InCall' =>
                 /\ ObjectCalls' = ObjectCalls \cup {CallOf(t)'}
                 /\ CallOf(t)' \notin ObjectCalls
           /\ t \in InCall /\ t \notin InCall' =>
                 ObjectCalls' = ObjectCalls \ {CallOf(t)}
           /\ t \in InCall /\ t \in InCall' =>
                 ObjectCalls' = (ObjectCalls \ {CallOf(t)}) \cup {CallOf(t)'}
<1>1. \A s \in Clients \ {t} : s \in InCall' <=> s \in InCall
  BY DEF InCall, At
<1>2. \A s \in Clients \ {t} : CallOf(s)' = CallOf(s)
  BY DEF CallOf
<1>3. InCall \subseteq Clients /\ InCall' \subseteq Clients
  BY DEF InCall, At
<1>4. /\ \A s \in Clients \ {t} : CallOf(s) # CallOf(t) /\ CallOf(s) # CallOf(t)'
  BY DEF CallOf
<1> QED
  BY <1>1, <1>2, <1>3, <1>4 DEF ObjectCalls

\* The call of a client before and after its effect.
LEMMA CallShape ==
    ASSUME NEW t \in Clients
    PROVE  /\ pc[t] \in {"lock", "data"} =>
                 CallOf(t) = [client |-> t, key |-> job[t].key, done |-> FALSE,
                              new |-> Entry(job[t].content)]
           /\ pc[t] = "meta" =>
                 CallOf(t) = [client |-> t, key |-> job[t].key, done |-> TRUE,
                              new |-> Entry(job[t].content)]
           /\ pc[t] = "delete" =>
                 CallOf(t) = [client |-> t, key |-> job[t].key, done |-> TRUE,
                              new |-> None]
<1>1. CASE pc[t] \in {"lock", "data"}
  <2>1. (pc[t] \in {"meta", "delete"}) = FALSE /\ pc[t] # "delete" /\ pc[t] # "meta"
    BY <1>1
  <2> QED
    BY <2>1 DEF CallOf
<1>2. CASE pc[t] \in {"meta", "delete"}
  <2>1. (pc[t] \in {"meta", "delete"}) = TRUE /\ pc[t] \notin {"lock", "data"}
    BY <1>2
  <2>2. pc[t] = "meta" => pc[t] # "delete"
    OBVIOUS
  <2> QED
    BY <2>1, <2>2 DEF CallOf
<1> QED
  BY <1>1, <1>2

\* A client outside PutObject and DeleteObject has no call.
LEMMA IdleHasNoCall ==
    ASSUME NEW t \in Clients, t \notin InCall
    PROVE  \A c \in ObjectCalls : c.client # t
BY DEF ObjectCalls, CallOf

\* The value of a key: while its put is between its two writes, that of the
\* put, unless its data file is torn; what GetObject returns otherwise.
LEMMA ValueOf ==
    ASSUME NEW k \in Keys
    PROVE  /\ (\E t \in At("meta") : job[t].key = k) =>
                 ObjectValue(k) = IF object[k] = Torn THEN Torn ELSE Entry(object[k])
           /\ (\A t \in At("meta") : job[t].key # k) => ObjectValue(k) = GetObject(k)
<1>1. object[k] = Torn => GetObject(k) = Torn
  BY ConstantAssumption DEF GetObject
<1> QED
  BY <1>1 DEF ObjectValue

\* The values depend on the two files and on the puts between their writes.
LEMMA ValuesKept ==
    ASSUME UNCHANGED <<object, meta>>, At("meta")' = At("meta"),
           \A t \in At("meta") : job'[t].key = job[t].key
    PROVE  [k \in Keys |-> ObjectValue(k)]' = [k \in Keys |-> ObjectValue(k)]
<1>1. \A k \in Keys : ObjectValue(k)' = ObjectValue(k)
  BY DEF ObjectValue, GetObject
<1> QED
  BY <1>1

\* The steps of the uploads change no value and no call.
LEMMA UploadsRefine ==
    ASSUME Inv, NEW t \in Clients, UNCHANGED <<objects, crashes>>,
           \A s \in Clients \ {t} : pc'[s] = pc[s] /\ job'[s] = job[s],
           pc[t] \in {"idle", "json", "mkdir", "cleanup", "unlink"},
           pc'[t] \in {"idle", "json", "mkdir", "cleanup", "unlink"}
    PROVE  /\ [k \in Keys |-> ObjectValue(k)]' = [k \in Keys |-> ObjectValue(k)]
           /\ ObjectCalls' = ObjectCalls
<1>1. t \notin InCall /\ t \notin InCall'
  BY DEF InCall, At
<1>2. ObjectCalls' = ObjectCalls
  BY <1>1, CallsOfOthers
<1>3. At("meta")' = At("meta") /\ \A s \in At("meta") : job'[s].key = job[s].key
  BY DEF At
<1> QED
  BY <1>2, <1>3, ValuesKept DEF objects

\* A put is called, by a client or by CompleteMultipartUpload.
LEMMA CallRefines ==
    ASSUME Inv, NEW t \in Clients, UNCHANGED <<objects, faults, crashes>>,
           \A s \in Clients \ {t} : pc'[s] = pc[s] /\ job'[s] = job[s],
           pc[t] = "idle", pc'[t] = "lock",
           job'[t].key \in Keys, job'[t].content \in Plaintexts
    PROVE  Atomic!Call(t)
<1>1. t \notin InCall /\ t \in InCall'
  BY DEF InCall, At
<1>2. CallOf(t)' \in [client : {t}, key : Keys, done : {FALSE},
                      new : {Entry(x) : x \in Plaintexts}]
  <2>1. (pc'[t] \in {"meta", "delete"}) = FALSE
    OBVIOUS
  <2>2. CallOf(t)' = [client |-> t, key |-> job'[t].key, done |-> FALSE,
                      new |-> Entry(job'[t].content)]
    BY <2>1 DEF CallOf
  <2> QED
    BY <2>2
<1>3. At("meta")' = At("meta") /\ \A s \in At("meta") : job'[s].key = job[s].key
  BY DEF At
<1>4. [k \in Keys |-> ObjectValue(k)]' = [k \in Keys |-> ObjectValue(k)]
  BY <1>3, ValuesKept DEF objects
<1>5. /\ ObjectCalls' = ObjectCalls \cup {CallOf(t)'}
      /\ CallOf(t)' \in ObjectCalls' \ ObjectCalls
  BY <1>1, CallsOfOthers
<1>6. Atomic!Idle(t)
  BY <1>1, IdleHasNoCall DEF Atomic!Idle
<1>7. UNCHANGED (faults + crashes)
  OBVIOUS
<1> QED
  BY <1>2, <1>4, <1>5, <1>6, <1>7 DEF Atomic!Call

\* What a client leaves to the others: EndPut and Goto touch one entry.
LEMMA OthersKept ==
    ASSUME Inv, NEW t \in Clients, EndPut(t)
    PROVE  /\ \A s \in Clients \ {t} : pc'[s] = pc[s] /\ job'[s] = job[s]
           /\ pc'[t] \in {"idle", "cleanup"}
           /\ crashes' = crashes
BY DEF EndPut, Goto, Inv, TypeOK

\* Taking mutex_ is not visible.
LEMMA LockRefines ==
    ASSUME Inv, NEW t \in Clients, LockObjects(t)
    PROVE  UNCHANGED <<[k \in Keys |-> ObjectValue(k)], ObjectCalls, faults + crashes>>
<1>0. /\ pc' = [pc EXCEPT ![t] = "data"] /\ pc[t] = "lock"
      /\ UNCHANGED <<object, meta, job, faults, crashes>>
  BY DEF LockObjects, Goto, objects
<1>1. InCall' = InCall
  BY <1>0 DEF InCall, At, Inv, TypeOK
<1>2. \A s \in Clients : CallOf(s)' = CallOf(s)
  <2>1. \A s \in Clients : /\ (pc'[s] \in {"meta", "delete"}) = (pc[s] \in {"meta", "delete"})
                            /\ (pc'[s] = "delete") = (pc[s] = "delete")
    BY <1>0 DEF Inv, TypeOK
  <2> QED
    BY <1>0, <2>1 DEF CallOf
<1>3. InCall \subseteq Clients
  BY DEF InCall, At
<1>4. ObjectCalls' = ObjectCalls
  BY <1>1, <1>2, <1>3 DEF ObjectCalls
<1>5. At("meta")' = At("meta") /\ \A s \in At("meta") : job'[s].key = job[s].key
  BY <1>0 DEF At, Inv, TypeOK
<1>6. [k \in Keys |-> ObjectValue(k)]' = [k \in Keys |-> ObjectValue(k)]
  BY <1>0, <1>5, ValuesKept
<1> QED
  BY <1>0, <1>4, <1>6

\* A put that fails before its first write is a mishap without a trace.
LEMMA PutFailsRefines ==
    ASSUME Inv, NEW t \in Clients, PutFails(t)
    PROVE  \E c \in ObjectCalls : Atomic!Mishap(c)
<1>0. pc[t] = "data" /\ EndPut(t) /\ UNCHANGED objects /\ faults' = faults + 1
  BY DEF PutFails, Fault
<1>1. t \in InCall /\ t \notin InCall'
  BY <1>0, OthersKept DEF InCall, At
<1>2. ObjectCalls' = ObjectCalls \ {CallOf(t)} /\ CallOf(t) \in ObjectCalls
  BY <1>0, <1>1, OthersKept, CallsOfOthers DEF ObjectCalls
<1>3. At("meta")' = At("meta") /\ \A s \in At("meta") : job'[s].key = job[s].key
  BY <1>0, OthersKept DEF At
<1>4. [k \in Keys |-> ObjectValue(k)]' = [k \in Keys |-> ObjectValue(k)]
  BY <1>0, <1>3, ValuesKept DEF objects
<1>5. faults' + crashes' = (faults + crashes) + 1
  <2>1. crashes' = crashes /\ faults \in Nat /\ crashes \in Nat
    BY <1>0, OthersKept DEF Inv, TypeOK
  <2> QED
    BY <1>0, <2>1
<1>6. CallOf(t).key \in Keys
  BY DEF CallOf, Inv, TypeOK, Jobs
<1>7. [[k \in Keys |-> ObjectValue(k)] EXCEPT
          ![CallOf(t).key] = [k \in Keys |-> ObjectValue(k)][CallOf(t).key]]
        = [k \in Keys |-> ObjectValue(k)]
  BY <1>6
<1> QED
  BY <1>2, <1>4, <1>5, <1>7 DEF Atomic!Mishap

\* A call that has taken effect is the same call, done.
LEMMA DoneCall ==
    ASSUME NEW t, NEW k, NEW x
    PROVE  [[client |-> t, key |-> k, done |-> FALSE, new |-> x] EXCEPT !.done = TRUE]
             = [client |-> t, key |-> k, done |-> TRUE, new |-> x]
<1>1. ASSUME NEW a, NEW b
      PROVE  [[client |-> t, key |-> k, done |-> a, new |-> x] EXCEPT !.done = b]
               = [client |-> t, key |-> k, done |-> b, new |-> x]
  OBVIOUS
<1> QED
  BY <1>1

\* The values after the data file of t's key is written.
LEMMA ValuesWritten ==
    ASSUME Inv, NEW t \in Clients, pc[t] = "data", pc'[t] = "meta", job' = job, meta' = meta,
           \A s \in Clients \ {t} : pc'[s] = pc[s],
           NEW x \in Plaintexts \cup {Torn}, object' = [object EXCEPT ![job[t].key] = x]
    PROVE  [k \in Keys |-> ObjectValue(k)]' =
             [[k \in Keys |-> ObjectValue(k)] EXCEPT
                 ![job[t].key] = IF x = Torn THEN Torn ELSE Entry(x)]
<1>1. job[t].key \in Keys /\ object \in [Keys -> Plaintexts \cup {None, Torn}]
  BY DEF Inv, TypeOK, Jobs
<1>2. At("meta")' = {t} /\ At("meta") = {}
  BY DEF At, Inv, LocksHeld
<1>3. ObjectValue(job[t].key)' = IF x = Torn THEN Torn ELSE Entry(x)
  BY <1>1, <1>2, ConstantAssumption DEF ObjectValue, GetObject
<1>4. \A k \in Keys \ {job[t].key} : ObjectValue(k)' = ObjectValue(k)
  BY <1>1, <1>2 DEF ObjectValue, GetObject
<1> QED
  BY <1>1, <1>3, <1>4

\* The put takes effect when its data file is written; a torn write is a mishap.
LEMMA WriteObjectRefines ==
    ASSUME Inv, NEW t \in Clients, WriteObject(t)
    PROVE  \E c \in ObjectCalls : Atomic!Effect(c) \/ Atomic!Mishap(c)
<1> DEFINE c == CallOf(t)
           key == job[t].key
<1>0. /\ pc[t] = "data" /\ pc' = [pc EXCEPT ![t] = "meta"]
      /\ UNCHANGED <<meta, job, crashes>>
  BY DEF WriteObject, Goto
<1>1. /\ pc'[t] = "meta"
      /\ \A s \in Clients \ {t} : pc'[s] = pc[s] /\ job'[s] = job[s]
  BY <1>0 DEF Inv, TypeOK
<1>2. t \in InCall /\ t \in InCall'
  BY <1>0, <1>1 DEF InCall, At
<1>3. key \in Keys /\ job[t].content \in Plaintexts
  BY DEF Inv, TypeOK, Jobs
<1>4. c = [client |-> t, key |-> key, done |-> FALSE, new |-> Entry(job[t].content)]
  BY <1>0, CallShape
<1>5. c' = [client |-> t, key |-> key, done |-> TRUE, new |-> Entry(job[t].content)]
  <2>1. (pc'[t] \in {"meta", "delete"}) = TRUE
    BY <1>1
  <2> QED
    BY <1>0, <1>1, <2>1 DEF CallOf
<1>6. c \in ObjectCalls /\ ObjectCalls' = (ObjectCalls \ {c}) \cup {[c EXCEPT !.done = TRUE]}
  <2>1. c' = [c EXCEPT !.done = TRUE]
    BY <1>4, <1>5, DoneCall
  <2> QED
    BY <1>1, <1>2, <2>1, CallsOfOthers DEF ObjectCalls
<1>7. CASE object' = [object EXCEPT ![key] = job[t].content] /\ UNCHANGED faults
  <2>1. job[t].content # Torn
    BY <1>3, MarkerAssumption
  <2>2. [k \in Keys |-> ObjectValue(k)]' =
          [[k \in Keys |-> ObjectValue(k)] EXCEPT ![key] = Entry(job[t].content)]
    BY <1>0, <1>1, <1>3, <1>7, <2>1, ValuesWritten
  <2>3. ~c.done /\ c.key = key /\ c.new = Entry(job[t].content)
    BY <1>4
  <2>4. UNCHANGED (faults + crashes)
    BY <1>0, <1>7
  <2> HIDE DEF c, key
  <2>5. Atomic!Effect(c)
    BY <1>6, <2>2, <2>3, <2>4 DEF Atomic!Effect
  <2> QED
    BY <1>6, <2>5
<1>8. CASE object' = [object EXCEPT ![key] = Torn] /\ Fault
  <2>1. [k \in Keys |-> ObjectValue(k)]' =
          [[k \in Keys |-> ObjectValue(k)] EXCEPT ![key] = Torn]
    BY <1>0, <1>1, <1>8, ValuesWritten
  <2>2. c.key = key
    BY <1>4
  <2>3. faults' + crashes' = (faults + crashes) + 1
    BY <1>0, <1>8 DEF Fault, Inv, TypeOK
  <2> HIDE DEF c, key
  <2>4. Atomic!Mishap(c)
    BY <1>6, <2>1, <2>2, <2>3 DEF Atomic!Mishap
  <2> QED
    BY <1>6, <2>4
<1> QED
  BY <1>7, <1>8 DEF WriteObject

\* A call that ends is dropped, and was there.
LEMMA EndPutCalls ==
    ASSUME Inv, NEW t \in Clients, EndPut(t), pc[t] \in {"meta", "delete"}
    PROVE  /\ CallOf(t) \in ObjectCalls /\ ObjectCalls' = ObjectCalls \ {CallOf(t)}
           /\ CallOf(t).done /\ CallOf(t).key = job[t].key
           /\ At("meta")' = {} /\ \A s \in At("meta") : s = t
<1>1. t \in InCall /\ t \notin InCall'
  BY OthersKept DEF InCall, At
<1>2. CallOf(t) \in ObjectCalls /\ ObjectCalls' = ObjectCalls \ {CallOf(t)}
  BY <1>1, OthersKept, CallsOfOthers DEF ObjectCalls
<1>3. CallOf(t).done /\ CallOf(t).key = job[t].key
  BY CallShape
<1>4. \A s \in At("meta") : s = t
  BY DEF At, Inv, LocksHeld
<1>5. At("meta")' = {}
  BY <1>4, OthersKept DEF At
<1> QED
  BY <1>2, <1>3, <1>4, <1>5

\* The put returns once its metadata are written; torn or old metadata are a mishap.
LEMMA WriteMetaRefines ==
    ASSUME Inv, NEW t \in Clients, WriteMeta(t)
    PROVE  \E c \in ObjectCalls : Atomic!Return(c) \/ Atomic!Mishap(c)
<1>a. PICK key \in Keys : key = job[t].key
  BY DEF Inv, TypeOK, Jobs
<1> DEFINE value == [k \in Keys |-> ObjectValue(k)]
<1>0. pc[t] = "meta" /\ EndPut(t) /\ UNCHANGED object
  BY DEF WriteMeta
<1>1. /\ CallOf(t) \in ObjectCalls /\ ObjectCalls' = ObjectCalls \ {CallOf(t)}
      /\ CallOf(t).done /\ CallOf(t).key = key
      /\ At("meta")' = {} /\ \A s \in At("meta") : s = t
  BY <1>0, <1>a, EndPutCalls
<1>2. key \in Keys /\ job[t].content \in Plaintexts /\ object[key] \in {job[t].content, Torn}
  BY <1>0, <1>a DEF Inv, TypeOK, Jobs, HalfDone
<1>3. object[key] # None /\ Etag(job[t].content) # Torn
  BY <1>2, ConstantAssumption, MarkerAssumption
<1>4. ObjectValue(key) = IF object[key] = Torn THEN Torn ELSE Entry(object[key])
  BY <1>0, <1>a, <1>2, ValueOf DEF At
<1>5. ObjectValue(key)' = GetObject(key)'
  BY <1>1 DEF ObjectValue
<1>6. ASSUME NEW k \in Keys \ {key}, meta'[k] = meta[k] PROVE ObjectValue(k)' = ObjectValue(k)
  BY <1>0, <1>a, <1>1, <1>6 DEF ObjectValue, GetObject
<1>7. CASE meta' = [meta EXCEPT ![key] = Etag(job[t].content)] /\ UNCHANGED faults
  <2>1. meta'[key] = Etag(job[t].content) /\ \A k \in Keys \ {key} : meta'[k] = meta[k]
    BY <1>2, <1>7 DEF Inv, TypeOK
  <2>2. ObjectValue(key)' = ObjectValue(key)
    BY <1>0, <1>2, <1>3, <1>4, <1>5, <2>1 DEF GetObject, Entry
  <2>3. \A k \in Keys : ObjectValue(k)' = ObjectValue(k)
    BY <1>6, <2>1, <2>2
  <2>4. value' = value
    BY <2>3
  <2>5. UNCHANGED (faults + crashes)
    BY <1>0, <1>7, OthersKept
  <2>6. Atomic!Return(CallOf(t))
    BY <1>1, <2>4, <2>5 DEF Atomic!Return
  <2> QED
    BY <1>1, <2>6
<1>8. CASE meta' = [meta EXCEPT ![key] = Torn] /\ Fault
  <2>1. meta'[key] = Torn /\ \A k \in Keys \ {key} : meta'[k] = meta[k]
    BY <1>2, <1>8 DEF Inv, TypeOK
  <2>2. ObjectValue(key)' = Torn
    BY <1>0, <1>3, <1>5, <2>1 DEF GetObject
  <2>3. \A k \in Keys \ {key} : ObjectValue(k)' = ObjectValue(k)
    BY <1>6, <2>1
  <2>4. value' = [value EXCEPT ![key] = Torn]
    BY <1>2, <2>2, <2>3
  <2>5. faults' + crashes' = (faults + crashes) + 1
    <3>1. crashes' = crashes /\ faults \in Nat /\ crashes \in Nat
      BY <1>0, OthersKept DEF Inv, TypeOK
    <3> QED
      BY <1>8, <3>1 DEF Fault
  <2>6. Atomic!Mishap(CallOf(t))
    BY <1>1, <2>4, <2>5 DEF Atomic!Mishap
  <2> QED
    BY <1>1, <2>6
<1>9. CASE UNCHANGED meta /\ Fault
  <2>1. ObjectValue(key)' = IF Torn \in {object[key], meta[key]} THEN Torn
                            ELSE [data |-> object[key], etag |-> meta[key]]
    BY <1>0, <1>3, <1>5, <1>9 DEF GetObject
  <2>2. \A k \in Keys \ {key} : ObjectValue(k)' = ObjectValue(k)
    BY <1>6, <1>9
  <2>3. ObjectValue(key)' \in {Torn} \cup Atomic!Unpaired(CallOf(t))
    <3>1. CASE Torn \in {object[key], meta[key]}
      BY <2>1, <3>1
    <3>2. CASE Torn \notin {object[key], meta[key]}
      <4> DEFINE x == [data |-> object[key], etag |-> meta[key]]
      <4>1. object[key] = job[t].content
        BY <1>2, <3>2
      <4>2. /\ CallOf(t).done /\ CallOf(t).new = Entry(job[t].content)
            /\ CallOf(t).new.data = job[t].content
        BY <1>0, CallShape DEF Entry
      <4>3. meta[key] \in {Etag(y) : y \in Plaintexts} \cup {None}
        BY <3>2 DEF Inv, TypeOK
      <4>4. x \in Values /\ Entry(job[t].content) \in Values
        BY <1>2, <4>1, <4>3 DEF Values, Entry
      <4>5. x \notin {None, Torn} /\ CallOf(t).new # None
        BY <4>2, <4>4, MarkerAssumption
      <4> QED
        BY <2>1, <3>2, <4>1, <4>2, <4>4, <4>5 DEF Atomic!Unpaired
    <3> QED
      BY <3>1, <3>2
  <2>4. value' = [value EXCEPT ![key] = ObjectValue(key)']
    BY <1>2, <2>2
  <2>5. faults' + crashes' = (faults + crashes) + 1
    <3>1. crashes' = crashes /\ faults \in Nat /\ crashes \in Nat
      BY <1>0, OthersKept DEF Inv, TypeOK
    <3> QED
      BY <1>9, <3>1 DEF Fault
  <2>6. Atomic!Mishap(CallOf(t))
    BY <1>1, <2>3, <2>4, <2>5 DEF Atomic!Mishap
  <2> QED
    BY <1>1, <2>6
<1> QED
  BY <1>a, <1>7, <1>8, <1>9 DEF WriteMeta

\* A delete takes effect when the data file is removed ...
LEMMA DeleteObjectRefines ==
    ASSUME Inv, NEW t \in Clients, NEW key \in Keys, DeleteObject(t, key)
    PROVE  Atomic!Delete(t, key)
<1> DEFINE value == [k \in Keys |-> ObjectValue(k)]
<1>0. /\ pc[t] = "idle" /\ pc' = [pc EXCEPT ![t] = "delete"] /\ mutex = NoClient
      /\ job' = [job EXCEPT ![t] = Idle(key)] /\ object' = [object EXCEPT ![key] = None]
      /\ UNCHANGED <<meta, faults, crashes>>
  BY DEF DeleteObject, Goto
<1>1. /\ pc'[t] = "delete" /\ job'[t].key = key
      /\ \A s \in Clients \ {t} : pc'[s] = pc[s] /\ job'[s] = job[s]
  BY <1>0 DEF Inv, TypeOK, Idle
<1>2. t \notin InCall /\ t \in InCall'
  BY <1>0, <1>1 DEF InCall, At
<1>3. CallOf(t)' = [client |-> t, key |-> key, new |-> None, done |-> TRUE]
  <2>1. (pc'[t] \in {"meta", "delete"}) = TRUE
    BY <1>1
  <2> QED
    BY <1>1, <2>1 DEF CallOf
<1>4. ObjectCalls' = ObjectCalls
         \cup {[client |-> t, key |-> key, new |-> None, done |-> TRUE]}
  BY <1>1, <1>2, <1>3, CallsOfOthers
<1>5. At("meta") = {} /\ At("meta")' = {}
  BY <1>0, <1>1, ConstantAssumption DEF At, Inv, LocksHeld
<1>6. /\ object'[key] = None /\ \A k \in Keys \ {key} : object'[k] = object[k]
  BY <1>0 DEF Inv, TypeOK
<1>7. ObjectValue(key)' = None
  BY <1>5, <1>6 DEF ObjectValue, GetObject
<1>8. \A k \in Keys \ {key} : ObjectValue(k)' = ObjectValue(k)
  BY <1>0, <1>5, <1>6 DEF ObjectValue, GetObject
<1>9. value' = [value EXCEPT ![key] = None]
  BY <1>7, <1>8
<1>10. Atomic!Idle(t)
  BY <1>2, IdleHasNoCall DEF Atomic!Idle
<1>11. UNCHANGED (faults + crashes)
  BY <1>0
<1> QED
  BY <1>4, <1>9, <1>10, <1>11 DEF Atomic!Delete

\* ... and returns once the .meta file is removed.
LEMMA DeleteMetaRefines ==
    ASSUME Inv, NEW t \in Clients, DeleteMeta(t)
    PROVE  \E c \in ObjectCalls : Atomic!Return(c)
<1>a. PICK key \in Keys : key = job[t].key
  BY DEF Inv, TypeOK, Jobs
<1> DEFINE value == [k \in Keys |-> ObjectValue(k)]
<1>0. pc[t] = "delete" /\ EndPut(t) /\ UNCHANGED <<object, faults>>
  BY DEF DeleteMeta
<1>1. /\ CallOf(t) \in ObjectCalls /\ ObjectCalls' = ObjectCalls \ {CallOf(t)}
      /\ CallOf(t).done
      /\ At("meta")' = {} /\ \A s \in At("meta") : s = t
  BY <1>0, EndPutCalls
<1>2. At("meta") = {}
  BY <1>0, <1>1 DEF At
<1>3. key \in Keys /\ object[key] = None
  BY <1>0, <1>a DEF Inv, TypeOK, Jobs, HalfDone
<1>4. \A k \in Keys \ {key} : meta'[k] = meta[k]
  BY <1>a DEF DeleteMeta, Inv, TypeOK
<1>5. \A k \in Keys : ObjectValue(k)' = ObjectValue(k)
  BY <1>0, <1>1, <1>2, <1>3, <1>4 DEF ObjectValue, GetObject
<1>6. value' = value
  BY <1>5
<1>7. UNCHANGED (faults + crashes)
  BY <1>0, OthersKept
<1>8. Atomic!Return(CallOf(t))
  BY <1>1, <1>6, <1>7 DEF Atomic!Return
<1> QED
  BY <1>1, <1>8

\* A crash drops the calls and leaves remains of the one that holds mutex_.
LEMMA CrashRefines ==
    ASSUME Inv, Crash
    PROVE  Atomic!Crash
<1> DEFINE value == [k \in Keys |-> ObjectValue(k)]
           Remains == Values \cup {None, Torn}
<1>1. InCall' = {} /\ At("meta")' = {} /\ ObjectCalls' = {}
  BY DEF Crash, InCall, At, ObjectCalls
<1>2. faults' + crashes' = (faults + crashes) + 1
  BY DEF Crash, Inv, TypeOK
<1>3. \A k \in Keys : ObjectValue(k)' = GetObject(k)'
  BY <1>1 DEF ObjectValue
<1>4. \A k \in Keys : GetObject(k)' \in Remains
  <2>1. object' \in [Keys -> Plaintexts \cup {None, Torn}]
    BY CrashObjects
  <2>2. meta' \in [Keys -> {Etag(x) : x \in Plaintexts} \cup {None, Torn}]
    BY CrashObjects
  <2> QED
    BY <2>1, <2>2 DEF GetObject, Values
<1>5. CASE \E t \in Clients : pc[t] \in {"data", "meta"}
  <2>1. PICK t \in Clients : pc[t] \in {"data", "meta"}
    BY <1>5
  <2>2. PICK key \in Keys : key = job[t].key
    BY DEF Inv, TypeOK, Jobs
  <2>3. \A s \in Clients : pc[s] \in {"data", "meta"} => s = t
    BY <2>1 DEF Inv, LocksHeld
  <2>4. CallOf(t) \in ObjectCalls /\ CallOf(t).key = key
    BY <2>1, <2>2 DEF ObjectCalls, InCall, At, CallOf
  <2>5. \A k \in Keys \ {key} : object'[k] = object[k] /\ meta'[k] = meta[k]
    BY <2>2, <2>3, CrashObjects
  <2>6. \A k \in Keys \ {key} : ObjectValue(k) = GetObject(k)
    BY <2>2, <2>3, ValueOf DEF At
  <2>7. \A k \in Keys \ {key} : ObjectValue(k)' = ObjectValue(k)
    BY <1>3, <2>5, <2>6 DEF GetObject
  <2>8. value' = [value EXCEPT ![key] = GetObject(key)']
    BY <1>3, <2>7
  <2>9. \E c \in ObjectCalls, x \in Remains : value' = [value EXCEPT ![c.key] = x]
    BY <1>4, <2>4, <2>8
  <2> QED
    BY <1>1, <1>2, <2>9 DEF Atomic!Crash
<1>6. CASE \A t \in Clients : pc[t] \notin {"data", "meta"}
  <2>1. \A k \in Keys : object'[k] = object[k] /\ meta'[k] = meta[k]
    BY <1>6, CrashObjects
  <2>2. \A k \in Keys : ObjectValue(k) = GetObject(k)
    BY <1>6, ValueOf DEF At
  <2>3. \A k \in Keys : ObjectValue(k)' = ObjectValue(k)
    BY <1>3, <2>1, <2>2 DEF GetObject
  <2>4. value' = value
    BY <2>3
  <2> QED
    BY <1>1, <1>2, <2>4 DEF Atomic!Crash
<1> QED
  BY <1>5, <1>6

\* The steps of a client.
LEMMA ClientRefines ==
    ASSUME Inv, NEW t \in Clients, Client(t)
    PROVE  [Atomic!Next]_Atomic!avars
<1> USE DEF Atomic!avars
<1>1. CASE \E k \in Keys, d \in Data : PutObject(t, k, d)
  <2>1. PICK k \in Keys, d \in Data : PutObject(t, k, d)
    BY <1>1
  <2>2. [Idle(k) EXCEPT !.content = <<d>>].key \in Keys
        /\ [Idle(k) EXCEPT !.content = <<d>>].content \in Plaintexts
    BY SmallPlaintexts DEF Idle
  <2>3. Atomic!Call(t)
    BY <2>1, <2>2, CallRefines DEF PutObject, Goto, Inv, TypeOK
  <2> QED
    BY <2>3 DEF Atomic!Next
<1>2. CASE \E k \in Keys : DeleteObject(t, k)
  BY <1>2, DeleteObjectRefines DEF Atomic!Next
<1>3. CASE LockObjects(t)
  BY <1>3, LockRefines
<1>4. CASE PutFails(t)
  BY <1>4, PutFailsRefines DEF Atomic!Next
<1>5. CASE WriteObject(t)
  BY <1>5, WriteObjectRefines DEF Atomic!Next
<1>6. CASE WriteMeta(t)
  BY <1>6, WriteMetaRefines DEF Atomic!Next
<1>7. CASE DeleteMeta(t)
  BY <1>7, DeleteMetaRefines DEF Atomic!Next
<1>8. CASE \E u \in Uploads, k \in Keys : InitiateMultipartUpload(t, u, k)
  <2>1. /\ UNCHANGED <<objects, faults, crashes>> /\ pc[t] = "idle" /\ pc'[t] = "json"
        /\ \A s \in Clients \ {t} : pc'[s] = pc[s] /\ job'[s] = job[s]
    BY <1>8 DEF InitiateMultipartUpload, Goto, Inv, TypeOK
  <2> QED
    BY <2>1, UploadsRefine
<1>9. CASE SaveNewUpload(t) \/ \E u \in Uploads, n \in Nums, d \in Data : UploadPart(t, u, n, d)
  <2>1. /\ UNCHANGED <<objects, job, crashes>>
        /\ pc[t] \in {"idle", "json"} /\ pc'[t] \in {"idle", "mkdir"}
        /\ \A s \in Clients \ {t} : pc'[s] = pc[s]
    BY <1>9 DEF UploadPart, SaveNewUpload, Goto, Inv, TypeOK
  <2>2. UNCHANGED faults \/ faults' = faults + 1
    BY <1>9 DEF UploadPart, SaveNewUpload, Fault
  <2>3. /\ [k \in Keys |-> ObjectValue(k)]' = [k \in Keys |-> ObjectValue(k)]
        /\ ObjectCalls' = ObjectCalls
    BY <2>1, UploadsRefine
  <2>4. faults' + crashes' = faults + crashes \/ faults' + crashes' = (faults + crashes) + 1
    BY <2>1, <2>2 DEF Inv, TypeOK
  <2> QED
    BY <2>3, <2>4 DEF Atomic!Next, Atomic!MishapElsewhere
<1>10. CASE \E u \in Uploads, list \in Lists : CompleteMultipartUpload(t, u, list)
  <2>1. PICK u \in Uploads, list \in Lists : CompleteMultipartUpload(t, u, list)
    BY <1>10
  <2>2. upkey[u] \in Keys /\ Assemble(u) \in Plaintexts
    BY <2>1, AssembleType DEF CompleteMultipartUpload, Inv, TypeOK
  <2>3. Atomic!Call(t)
    BY <2>1, <2>2, CallRefines DEF CompleteMultipartUpload, Goto, Inv, TypeOK
  <2> QED
    BY <2>3 DEF Atomic!Next
<1>11. CASE \E u \in Uploads : AbortMultipartUpload(t, u)
  <2>1. /\ UNCHANGED <<objects, faults, crashes>> /\ pc[t] = "idle" /\ pc'[t] = "cleanup"
        /\ \A s \in Clients \ {t} : pc'[s] = pc[s] /\ job'[s] = job[s]
    BY <1>11 DEF AbortMultipartUpload, Goto, Inv, TypeOK
  <2> QED
    BY <2>1, UploadsRefine
<1>12. CASE CreateDirectory(t) \/ RemoveParts(t) \/ RemoveUpload(t)
  <2>1. /\ UNCHANGED <<objects, faults, crashes>> /\ pc[t] \in {"mkdir", "cleanup", "unlink"}
        /\ pc'[t] \in {"idle", "unlink"}
        /\ \A s \in Clients \ {t} : pc'[s] = pc[s] /\ job'[s] = job[s]
    BY <1>12 DEF CreateDirectory, RemoveParts, RemoveUpload, Goto, Inv, TypeOK
  <2> QED
    BY <2>1, UploadsRefine
<1> QED
  BY <1>1, <1>2, <1>3, <1>4, <1>5, <1>6, <1>7, <1>8, <1>9, <1>10, <1>11, <1>12 DEF Client

(* The two file writes of PutObject, CompleteMultipartUpload and DeleteObject *)
(* under mutex_ implement objects that change at one instant: for every set   *)
(* of clients and keys, through any failed writes and crashes.                *)
THEOREM StoreImplementsAtomicObjects == Spec => ImplementsAtomicObjects
<1>1. Init => Atomic!Init
  <2> SUFFICES ASSUME Init PROVE Atomic!Init
    OBVIOUS
  <2>1. ObjectCalls = {} /\ At("meta") = {}
    BY DEF Init, ObjectCalls, InCall, At
  <2>2. \A k \in Keys : ObjectValue(k) = None
    BY <2>1 DEF Init, ObjectValue, GetObject
  <2>3. faults + crashes = 0
    BY DEF Init
  <2> QED
    BY <2>1, <2>2, <2>3 DEF Atomic!Init
<1>2. ASSUME Inv, [Next]_vars PROVE [Atomic!Next]_Atomic!avars
  <2>1. CASE UNCHANGED vars
    <3>1. UNCHANGED <<object, meta, pc, job, faults, crashes>>
      BY <2>1 DEF vars, objects
    <3>2. ObjectCalls' = ObjectCalls
      BY <3>1 DEF ObjectCalls, InCall, At, CallOf
    <3>3. [k \in Keys |-> ObjectValue(k)]' = [k \in Keys |-> ObjectValue(k)]
      BY <3>1, ValuesKept DEF At
    <3> QED
      BY <3>1, <3>2, <3>3 DEF Atomic!avars
  <2>2. CASE Crash
    BY <1>2, <2>2, CrashRefines DEF Atomic!Next
  <2> QED
    BY <1>2, <2>1, <2>2, ClientRefines DEF Next
<1> QED
  BY <1>1, <1>2, StoreInvariant, PTL DEF Spec, Atomic!Spec, ImplementsAtomicObjects
=============================================================================
