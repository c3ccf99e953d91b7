----------------------------- MODULE ObjectStore ----------------------------
(***************************************************************************)
(* StorageManager (storage_manager.cpp): objects as a data file and a      *)
(* metadata file each, and multipart uploads as the S3 front end           *)
(* (s3_api_server.cpp) drives them.  An object is put in two file writes   *)
(* under mutex_; a multipart upload is described by active_uploads_, in    *)
(* memory under multipart_mutex_, a JSON file and a directory of part      *)
(* files.  CompleteMultipartUpload calls PutObject while it holds          *)
(* multipart_mutex_.                                                       *)
(*                                                                         *)
(* The plaintext of a part is a member of Data, that of an object a        *)
(* sequence of them.  Encryption is transparent unless it fails; a file    *)
(* whose write failed, which nobody tests, or was cut short by a crash is  *)
(* Torn: authenticated decryption refuses it; a metadata or JSON file that *)
(* does not open, which nobody tests either, stays as it was.  An          *)
(* exception ends the process: nothing catches it.  Calls that return      *)
(* false and change nothing are stuttering steps; the access a completion  *)
(* records in the hot index is left out.                                   *)
(***************************************************************************)
EXTENDS Integers, Sequences, FiniteSets

CONSTANTS
    Clients, Keys, Uploads, Data,
    NoClient, NoUpload, None, Torn,
    MaxPart,        \* highest part number (10000)
    MaxList,        \* bound on the parts a completion lists
    MaxFaults,      \* bound on failed encryptions and writes
    MaxCrashes

ASSUME ConstantAssumption ==
    /\ NoClient \notin Clients /\ NoUpload \notin Uploads
    /\ None \notin Data /\ Torn \notin Data /\ None # Torn
    /\ MaxPart \in Nat \ {0} /\ {MaxList, MaxFaults, MaxCrashes} \subseteq Nat

Nums == 1..MaxPart

\* hex(SHA256 of the plaintext), free of collisions
Etag(x) == [sha256 |-> x]

VARIABLES
    object, meta,       \* each key: the data file, the etag in the .meta file
    active,             \* ids in active_uploads_
    upkey, parts,       \* their key, their part number -> etag
    saved, dirs,        \* ids that have a JSON file, a directory
    file,               \* the part files
    issued,             \* ids generated so far
    multipart_mutex, mutex,
    pc, job,            \* each client: position, the put it is in
    unpaired,           \* keys whose put or delete a crash cut short, or whose .meta file
                        \* the last put failed to open (history)
    orphans,            \* uploads a crash made the process forget (history)
    faults, crashes

objects == <<object, meta, unpaired>>
uploads == <<active, upkey, parts, saved, dirs, file, issued, orphans>>
locks   == <<multipart_mutex, mutex>>
vars    == <<objects, uploads, locks, pc, job, faults, crashes>>

Plaintexts == UNION {[1..n -> Data] : n \in 0..MaxPart}
Lists == UNION {[1..n -> Nums \X {Etag(d) : d \in Data}] : n \in 0..MaxList}

\* What GetObject returns of two whole files, or of a data file alone.
Values == [data : Plaintexts, etag : {Etag(x) : x \in Plaintexts} \cup {None}]

\* The markers are no plaintexts, no etags and no such values.
ASSUME MarkerAssumption ==
    {None, Torn} \cap (Plaintexts \cup {Etag(x) : x \in Plaintexts \cup Data} \cup Values) = {}

Jobs == [key : Keys, content : Plaintexts, upload : Uploads \cup {NoUpload},
         list : Lists]

\* The type of every variable.
TypeOK ==
    /\ object \in [Keys -> Plaintexts \cup {None, Torn}]
    /\ meta \in [Keys -> {Etag(x) : x \in Plaintexts} \cup {None, Torn}]
    /\ upkey \in [Uploads -> Keys]
    /\ parts \in [Uploads -> [Nums -> {Etag(d) : d \in Data} \cup {None}]]
    /\ file \in [Uploads -> [Nums -> Data \cup {None, Torn}]]
    /\ {active, saved, dirs, orphans} \subseteq SUBSET issued
    /\ issued \subseteq Uploads /\ unpaired \subseteq Keys
    /\ {multipart_mutex, mutex} \subseteq Clients \cup {NoClient}
    /\ pc \in [Clients -> {"idle", "lock", "data", "meta", "delete", "json", "mkdir",
                           "cleanup", "unlink"}]
    /\ job \in [Clients -> Jobs]
    /\ faults \in Nat /\ crashes \in Nat

Idle(k) == [key |-> k, content |-> <<>>, upload |-> NoUpload, list |-> <<>>]

Init ==
    /\ object = [k \in Keys |-> None] /\ meta = [k \in Keys |-> None]
    /\ active = {} /\ saved = {} /\ dirs = {} /\ issued = {}
    /\ upkey \in [Uploads -> Keys] /\ \A u, v \in Uploads : upkey[u] = upkey[v]
    /\ parts = [u \in Uploads |-> [n \in Nums |-> None]]
    /\ file = [u \in Uploads |-> [n \in Nums |-> None]]
    /\ multipart_mutex = NoClient /\ mutex = NoClient
    /\ pc = [t \in Clients |-> "idle"]
    /\ \E k \in Keys : job = [t \in Clients |-> Idle(k)]
    /\ unpaired = {} /\ orphans = {}
    /\ faults = 0 /\ crashes = 0

Fault == faults < MaxFaults /\ faults' = faults + 1

Goto(t, p) == pc' = [pc EXCEPT ![t] = p]

-----------------------------------------------------------------------------
(* PutObject and DeleteObject.                                             *)

\* A client calls PutObject with the plaintext d.
PutObject(t, k, d) ==
    /\ pc[t] = "idle"
    /\ job' = [job EXCEPT ![t] = [Idle(k) EXCEPT !.content = <<d>>]]
    /\ Goto(t, "lock")
    /\ UNCHANGED <<objects, uploads, locks, faults, crashes>>

\* (mutation) no lock_guard on mutex_
LockNothing(t) ==
    /\ pc[t] = "lock"
    /\ Goto(t, "data")
    /\ UNCHANGED <<objects, uploads, locks, job, faults, crashes>>

LockObjects(t) ==
    /\ pc[t] = "lock" /\ mutex = NoClient
    /\ mutex' = t
    /\ Goto(t, "data")
    /\ UNCHANGED <<objects, uploads, multipart_mutex, job, faults, crashes>>

\* Release mutex_ and return: to the caller, or to CompleteMultipartUpload.
EndPut(t) ==
    /\ mutex' = NoClient
    /\ IF job[t].upload = NoUpload
          THEN job' = [job EXCEPT ![t] = Idle(job[t].key)] /\ Goto(t, "idle")
          ELSE Goto(t, "cleanup") /\ UNCHANGED job
    /\ UNCHANGED <<uploads, multipart_mutex, crashes>>

\* Encryption fails, or the file does not open: return false.
PutFails(t) ==
    /\ pc[t] = "data" /\ Fault
    /\ EndPut(t)
    /\ UNCHANGED objects

\* Write the data file in place.  Nothing tests whether the write succeeded.
WriteObject(t) ==
    /\ pc[t] = "data"
    /\ \/ object' = [object EXCEPT ![job[t].key] = job[t].content]
          /\ UNCHANGED faults
       \/ object' = [object EXCEPT ![job[t].key] = Torn] /\ Fault
    /\ Goto(t, "meta")
    /\ UNCHANGED <<meta, unpaired, uploads, locks, job, crashes>>

\* Open and write the .meta file, without a test of either.
WriteMeta(t) ==
    /\ pc[t] = "meta"
    /\ \/ /\ \/ meta' = [meta EXCEPT ![job[t].key] = Etag(job[t].content)]
                /\ UNCHANGED faults
             \/ meta' = [meta EXCEPT ![job[t].key] = Torn] /\ Fault
          /\ unpaired' = unpaired \ {job[t].key}
       \/ /\ UNCHANGED meta /\ Fault
          /\ unpaired' = unpaired \cup {job[t].key}
    /\ EndPut(t)
    /\ UNCHANGED object

\* (mutation) no lock_guard on mutex_
DeleteUnlocked(t, k) ==
    /\ pc[t] = "idle"
    /\ job' = [job EXCEPT ![t] = Idle(k)]
    /\ object' = [object EXCEPT ![k] = None]
    /\ Goto(t, "delete")
    /\ UNCHANGED <<meta, unpaired, uploads, locks, faults, crashes>>

\* Remove the data file, then the .meta file, under mutex_.
DeleteObject(t, k) ==
    /\ pc[t] = "idle" /\ mutex = NoClient
    /\ mutex' = t
    /\ job' = [job EXCEPT ![t] = Idle(k)]
    /\ object' = [object EXCEPT ![k] = None]
    /\ Goto(t, "delete")
    /\ UNCHANGED <<meta, unpaired, uploads, multipart_mutex, faults, crashes>>

DeleteMeta(t) ==
    /\ pc[t] = "delete"
    /\ meta' = [meta EXCEPT ![job[t].key] = None]
    /\ unpaired' = unpaired \ {job[t].key}
    /\ EndPut(t)
    /\ UNCHANGED <<object, faults>>

\* What GetObject, under mutex_, returns: nothing without a data file or if it does
\* not decrypt or the metadata do not parse; absent metadata are an empty etag.
GetObject(k) ==
    IF object[k] = None THEN None
    ELSE IF Torn \in {object[k], meta[k]} THEN Torn
    ELSE [data |-> object[k], etag |-> meta[k]]

-----------------------------------------------------------------------------
(* Multipart uploads.                                                      *)

\* Write the upload's JSON file, or fail to: nobody tests that.
save_upload_meta(u, ok) == saved' = IF ok THEN saved \cup {u} ELSE saved

\* Under multipart_mutex_, enter the upload in active_uploads_ ...
InitiateMultipartUpload(t, u, k) ==
    /\ pc[t] = "idle" /\ multipart_mutex = NoClient
    /\ u \notin issued
    /\ multipart_mutex' = t
    /\ issued' = issued \cup {u}
    /\ active' = active \cup {u}
    /\ upkey' = [upkey EXCEPT ![u] = k]
    /\ job' = [job EXCEPT ![t] = [Idle(k) EXCEPT !.upload = u]]
    /\ Goto(t, "json")
    /\ UNCHANGED <<objects, parts, saved, dirs, file, orphans, mutex, faults, crashes>>

\* ... save it ...
SaveNewUpload(t) ==
    /\ pc[t] = "json"
    /\ \/ save_upload_meta(job[t].upload, TRUE) /\ UNCHANGED faults
       \/ save_upload_meta(job[t].upload, FALSE) /\ Fault
    /\ Goto(t, "mkdir")
    /\ UNCHANGED <<objects, active, upkey, parts, dirs, file, issued, orphans, locks, job,
                   crashes>>

\* ... and create its directory; if that fails the exception ends the process.
CreateDirectory(t) ==
    /\ pc[t] = "mkdir"
    /\ dirs' = dirs \cup {job[t].upload}
    /\ multipart_mutex' = NoClient
    /\ job' = [job EXCEPT ![t] = Idle(job[t].key)]
    /\ Goto(t, "idle")
    /\ UNCHANGED <<objects, active, upkey, parts, saved, file, issued, orphans, mutex, faults,
                   crashes>>

\* (mutation) the etag of a part that is sent again is not replaced
UploadPartOnce(t, u, n, d) ==
    /\ pc[t] = "idle" /\ multipart_mutex = NoClient
    /\ u \in active
    /\ file' = [file EXCEPT ![u][n] = d]
    /\ parts' = [parts EXCEPT ![u][n] = IF @ = None THEN Etag(d) ELSE @]
    /\ UNCHANGED <<objects, active, upkey, saved, dirs, issued, orphans, locks, pc,
                   job, faults, crashes>>

\* (mutation) the part's plaintext is recorded in place of its etag
UploadPartRaw(t, u, n, d) ==
    /\ pc[t] = "idle" /\ multipart_mutex = NoClient
    /\ u \in active
    /\ file' = [file EXCEPT ![u][n] = d]
    /\ parts' = [parts EXCEPT ![u][n] = d]
    /\ UNCHANGED <<objects, active, upkey, saved, dirs, issued, orphans, locks, pc,
                   job, faults, crashes>>

\* Write the part's file, again without a test, record its etag and save the upload.
UploadPart(t, u, n, d) ==
    /\ pc[t] = "idle" /\ multipart_mutex = NoClient
    /\ u \in active
    /\ \E x \in {d, Torn}, ok \in BOOLEAN :
          /\ file' = [file EXCEPT ![u][n] = x]
          /\ save_upload_meta(u, ok)
          /\ IF x = d /\ ok THEN UNCHANGED faults ELSE Fault
    /\ parts' = [parts EXCEPT ![u][n] = Etag(d)]
    /\ UNCHANGED <<objects, active, upkey, dirs, issued, orphans, locks, pc,
                   job, crashes>>

PartNums(u) == {n \in Nums : parts[u][n] # None}

\* The validation: as many as there are, and each the etag of a part.
Matches(u, list) ==
    /\ Len(list) = Cardinality(PartNums(u))
    /\ \A i \in 1..Len(list) : parts[u][list[i][1]] = list[i][2]

\* The parts 1, 2, ... up to the first that is missing.
Sequential(u) == {n \in Nums : 1..n \subseteq PartNums(u)}

Assemble(u) == [n \in Sequential(u) |-> file[u][n]]

\* Validate, read and decrypt the parts, call PutObject.
CompleteMultipartUpload(t, u, list) ==
    /\ pc[t] = "idle" /\ multipart_mutex = NoClient
    /\ u \in active /\ Matches(u, list)
    /\ \A n \in Sequential(u) : file[u][n] # Torn
    /\ multipart_mutex' = t
    /\ job' = [job EXCEPT ![t] = [key |-> upkey[u], content |-> Assemble(u),
                                  upload |-> u, list |-> list]]
    /\ Goto(t, "lock")
    /\ UNCHANGED <<objects, uploads, mutex, faults, crashes>>

\* Remove the directory ...
RemoveParts(t) ==
    /\ pc[t] = "cleanup"
    /\ dirs' = dirs \ {job[t].upload}
    /\ file' = [file EXCEPT ![job[t].upload] = [n \in Nums |-> None]]
    /\ Goto(t, "unlink")
    /\ UNCHANGED <<objects, active, upkey, parts, saved, issued, orphans, locks, job,
                   faults, crashes>>

\* (mutation) the JSON file stays
ForgetUpload(t) ==
    /\ pc[t] = "unlink"
    /\ active' = active \ {job[t].upload}
    /\ parts' = [parts EXCEPT ![job[t].upload] = [n \in Nums |-> None]]
    /\ multipart_mutex' = NoClient
    /\ job' = [job EXCEPT ![t] = Idle(job[t].key)]
    /\ Goto(t, "idle")
    /\ UNCHANGED <<objects, upkey, saved, dirs, file, issued, orphans, mutex, faults,
                   crashes>>

\* ... and the JSON file, forget the upload, release multipart_mutex_.
RemoveUpload(t) ==
    /\ pc[t] = "unlink"
    /\ saved' = saved \ {job[t].upload}
    /\ active' = active \ {job[t].upload}
    /\ parts' = [parts EXCEPT ![job[t].upload] = [n \in Nums |-> None]]
    /\ multipart_mutex' = NoClient
    /\ job' = [job EXCEPT ![t] = Idle(job[t].key)]
    /\ Goto(t, "idle")
    /\ UNCHANGED <<objects, upkey, dirs, file, issued, orphans, mutex, faults,
                   crashes>>

\* The same cleanup, whatever the upload's key.
AbortMultipartUpload(t, u) ==
    /\ pc[t] = "idle" /\ multipart_mutex = NoClient
    /\ u \in active
    /\ multipart_mutex' = t
    /\ job' = [job EXCEPT ![t] = [Idle(upkey[u]) EXCEPT !.upload = u]]
    /\ Goto(t, "cleanup")
    /\ UNCHANGED <<objects, uploads, mutex, faults, crashes>>

-----------------------------------------------------------------------------
At(p) == {t \in Clients : pc[t] = p}

\* The process ends anywhere.  The file being written is whole, torn or as it
\* was; the uploads' JSON files are never loaded again (load_upload_meta has no
\* caller), so that active_uploads_ starts empty.
Crash ==
    /\ crashes < MaxCrashes
    /\ crashes' = crashes + 1
    /\ object' \in {object} \cup
          UNION {{[object EXCEPT ![job[t].key] = x] : x \in {Torn, job[t].content}} :
                    t \in At("data")}
    /\ meta' \in {meta} \cup
          UNION {{[meta EXCEPT ![job[t].key] = x] :
                     x \in {Torn, Etag(job[t].content)}} : t \in At("meta")}
    /\ unpaired' = unpaired \cup {job[t].key : t \in {t \in Clients : mutex = t}}
    /\ active' = {} /\ orphans' = orphans \cup active
    /\ parts' = [u \in Uploads |-> [n \in Nums |-> None]]
    /\ multipart_mutex' = NoClient /\ mutex' = NoClient
    /\ pc' = [t \in Clients |-> "idle"]
    /\ job' = [t \in Clients |-> Idle(job[t].key)]
    /\ UNCHANGED <<upkey, saved, dirs, file, issued, faults>>

Client(t) ==
    \/ \E k \in Keys : DeleteObject(t, k) \/ \E d \in Data : PutObject(t, k, d)
    \/ LockObjects(t) \/ PutFails(t) \/ WriteObject(t) \/ WriteMeta(t)
    \/ DeleteMeta(t)
    \/ \E u \in Uploads :
          \/ \E k \in Keys : InitiateMultipartUpload(t, u, k)
          \/ \E n \in Nums, d \in Data : UploadPart(t, u, n, d)
          \/ \E list \in Lists : CompleteMultipartUpload(t, u, list)
          \/ AbortMultipartUpload(t, u)
    \/ SaveNewUpload(t) \/ CreateDirectory(t)
    \/ RemoveParts(t) \/ RemoveUpload(t)

Next == Crash \/ \E t \in Clients : Client(t)

Spec == Init /\ [][Next]_vars

-----------------------------------------------------------------------------
\* No put or delete is between its first write and its return.
Quiet == At("data") \cup At("meta") \cup At("delete") = {}

(* What GetObject returns fits together: the etag is that of the data, as  *)
(* long as no put or delete is under way, none of this key was cut short   *)
(* by a crash and the last put of the key opened its .meta file.  Puts,    *)
(* completions and deletes of one key do not mix.                          *)
EtagFitsObject ==
    \A k \in Keys \ unpaired :
        Quiet /\ GetObject(k) \notin {None, Torn} => meta[k] = Etag(object[k])

(* A completion that lists the parts 1, 2, ... n once each puts exactly    *)
(* what its etags say, in this order, however often parts were sent again  *)
(* and whatever writes failed.                                             *)
PutsWhatIsListed ==
    \A t \in Clients :
        LET list == job[t].list IN
        /\ list # <<>> /\ pc[t] # "idle"
        /\ \A i \in 1..Len(list) : list[i][1] = i
        => /\ Len(job[t].content) = Len(list)
           /\ \A i \in 1..Len(list) : list[i][2] = Etag(job[t].content[i])

(* While no call holds multipart_mutex_, an upload has files on disk only  *)
(* if it is active or a crash made the process forget it: abort and        *)
(* completion leave nothing behind, however often save_upload_meta failed. *)
(* And an active upload has a directory for its parts, although it is      *)
(* entered in active_uploads_ before that is created.                      *)
FilesOfActiveUploads ==
    multipart_mutex = NoClient =>
        /\ dirs \cup saved \subseteq active \cup orphans
        /\ active \subseteq dirs

-----------------------------------------------------------------------------
(* The inductive invariant.                                                *)

\* A file write of an object is done under mutex_; whoever initiates, completes or
\* aborts an upload holds multipart_mutex_ until it is done.
LocksHeld ==
    \A t \in Clients :
        /\ pc[t] \in {"data", "meta", "delete"} => mutex = t
        /\ job[t].upload # NoUpload => multipart_mutex = t
        /\ pc[t] \in {"json", "mkdir", "cleanup", "unlink"} => job[t].upload # NoUpload
        /\ pc[t] \in {"idle", "delete"} => job[t].upload = NoUpload

\* What the first of two writes left for the second.
HalfDone ==
    \A t \in Clients :
        /\ pc[t] = "meta" => object[job[t].key] \in {job[t].content, Torn}
        /\ pc[t] = "delete" => object[job[t].key] = None

Fits(k) ==
    object[k] = None \/ Torn \in {object[k], meta[k]} \/ meta[k] = Etag(object[k])

\* The two files of a key fit, but for a put between its writes.
ObjectsFit ==
    \A k \in Keys \ unpaired :
        Fits(k) \/ \E t \in At("meta") : job[t].key = k

\* FilesOfActiveUploads while an upload is initiated or cleaned up, too.
FilesOfUploads ==
    /\ dirs \cup saved \subseteq active \cup orphans
    /\ \A u \in active :
          u \in dirs \/ \E t \in At("json") \cup At("mkdir") \cup At("unlink") : job[t].upload = u
    /\ \A t \in At("json") \cup At("mkdir") : job[t].upload \in active
    /\ \A t \in At("unlink") : job[t].upload \notin dirs

\* A recorded part belongs to an active upload, and its file has its etag.
PartsFit ==
    \A u \in Uploads, n \in Nums :
        parts[u][n] # None =>
            /\ u \in active
            /\ \/ file[u][n] = Torn
               \/ file[u][n] \in Data /\ parts[u][n] = Etag(file[u][n])
               \/ \E t \in At("unlink") : job[t].upload = u

Inv ==
    /\ TypeOK /\ LocksHeld /\ HalfDone /\ ObjectsFit
    /\ FilesOfUploads /\ PartsFit /\ PutsWhatIsListed

-----------------------------------------------------------------------------
(* The abstract objects.                                                   *)

Entry(x) == [data |-> x, etag |-> Etag(x)]

\* A put between its two writes has taken effect: nobody can look, mutex_ is held.
ObjectValue(k) ==
    IF object[k] # Torn /\ \E t \in At("meta") : job[t].key = k
        THEN Entry(object[k]) ELSE GetObject(k)

InCall == At("lock") \cup At("data") \cup At("meta") \cup At("delete")

CallOf(t) ==
    [client |-> t, key |-> job[t].key, done |-> pc[t] \in {"meta", "delete"},
     new |-> IF pc[t] = "delete" THEN None ELSE Entry(job[t].content)]

ObjectCalls == {CallOf(t) : t \in InCall}

Atomic == INSTANCE AtomicObjects WITH
    Entries <- {Entry(x) : x \in Plaintexts},
    Remains <- Values \cup {None, Torn},
    Lost <- Torn,
    value <- [k \in Keys |-> ObjectValue(k)],
    calls <- ObjectCalls,
    mishaps <- faults + crashes

(* Puts, completions and deletes are atomic: every behaviour of the two    *)
(* file writes under mutex_, by any interleaving of clients, is one of     *)
(* objects that change at one instant between call and return, and only    *)
(* failed writes and crashes damage an object or separate its data from    *)
(* their etag, at most one at a time.                                      *)
ImplementsAtomicObjects == Atomic!Spec
=============================================================================
