---------------------------- MODULE TieredStore -----------------------------
(***************************************************************************)
(* The storage tiers of StorageManager (storage_manager.cpp, the           *)
(* tier-aware functions), driven by the S3 handlers (s3_api_server.cpp)    *)
(* and by the threads of HotDataIndex (hot_data_index.cpp).                *)
(*                                                                         *)
(* PutObject writes an object's data into the Warm tier's directory and    *)
(* its metadata next to the flat path, both under mutex_.  Looking for the *)
(* tier of an object and moving it to another do not take mutex_; moves on *)
(* behalf of the index run under the index's own mutex, those of the S3    *)
(* handlers under none.                                                    *)
(*                                                                         *)
(* Data are version numbers.  Heat is abstracted: a test of a score has    *)
(* either outcome.  Writing, reading or renaming one file is one step.     *)
(* Nothing tests whether PutObject could open and write its two files: a   *)
(* file that did not open stays as it was, one that was written in part is *)
(* Torn: as data it does not decrypt, as metadata the parser throws and    *)
(* the process ends, since nothing catches.                                *)
(***************************************************************************)
EXTENDS Integers, FiniteSets

CONSTANTS
    Sessions,                   \* the S3 sessions
    Decay, Maintenance,         \* the index's threads
    NoProc, Keys,
    None, Torn,                 \* no file; a file written in part
    Garbage,                    \* compressed bytes taken for data
    Level,                      \* compression level of each tier
    Empty,                      \* the versions that are empty
    BasePaths,                  \* directories base_path_ may stand for
    MaxVersion,                 \* bound on the puts of a key
    MaxRequests,                \* bound on the requests
    MaxFaults                   \* bound on failed writes and failed renames of metadata

Tiers == {"Hot", "Warm", "Cold"}
Dirs  == Tiers \cup {"base"}
Procs == Sessions \cup {Decay, Maintenance}

ASSUME ConstantAssumption ==
    /\ {Decay, Maintenance} \cap Sessions = {} /\ Decay # Maintenance
    /\ NoProc \notin Procs
    /\ {None, Torn, Garbage} \cap Nat = {} /\ None # Garbage /\ None # Torn
    /\ Level \in [Tiers -> Nat] /\ BasePaths \subseteq Dirs
    /\ Empty \subseteq Nat /\ {MaxVersion, MaxRequests, MaxFaults} \subseteq Nat

VARIABLES
    base_path,          \* "base", or the tier configured to the same directory
    file, meta,         \* each directory, each key: data, compression_level
    remote,             \* each key: the data at the remote cold store
    is_hot,             \* the entries of the index
    mutex, index_mutex,
    me,                 \* each process: where it is and its locals
    running,            \* the process has not been terminated
    requests, faults,   \* requests, failed writes and renames of metadata so far
    issued, newest,     \* versions sent by clients, written last (history)
    disturbed,          \* keys put over a hot copy, re-put or deleted, or whose last put
                        \* failed to write a file (history)
    unstored,           \* keys of which PutObject returned true without having written the
                        \* data, or upload_to_remote without having sent them (history)
    undone              \* keys whose move was rolled back (history)

disk    == <<file, meta, remote>>
locks   == <<mutex, index_mutex>>
history == <<requests, faults, issued, newest, disturbed, unstored, undone>>
vars    == <<base_path, disk, is_hot, locks, me, running, history>>

Bytes   == 0..MaxVersion \cup {Garbage}
Content == [data : Bytes, compressed : BOOLEAN]
Places  == {"start", "idle", "put", "put_meta", "read", "decode", "upload", "delete",
            "delete_meta", "access", "heat2", "heat1", "rename", "rename_meta", "rollback"}
Local   == [at : Places, key : Keys, data : Bytes, content : Content \cup {None},
            from : Tiers, to : Tiers, next : {"idle", "heat2", "heat1"}]

ASSUME NoneAssumption == None \notin Content /\ Torn \notin Content

\* The type of every variable.
TypeOK ==
    /\ base_path \in BasePaths
    /\ file \in [Dirs -> [Keys -> Content \cup {None, Torn}]]
    /\ meta \in [Dirs -> [Keys -> {0} \cup {Level[t] : t \in Tiers} \cup {None, Torn}]]
    /\ remote \in [Keys -> Bytes \cup {None}]
    /\ is_hot \in [Keys -> BOOLEAN]
    /\ mutex \in Procs \cup {NoProc} /\ index_mutex \in Procs \cup {NoProc}
    /\ me \in [Procs -> Local]
    /\ running \in BOOLEAN
    /\ requests \in Nat /\ faults \in Nat
    /\ issued \in [Keys -> 0..MaxVersion] /\ newest \in [Keys -> 0..MaxVersion]
    /\ disturbed \subseteq Keys /\ unstored \subseteq Keys /\ undone \subseteq Keys

AtRest(k, at) == [at |-> at, key |-> k, data |-> 0, content |-> None,
                  from |-> "Warm", to |-> "Warm", next |-> "idle"]

Init ==
    /\ base_path \in BasePaths
    /\ file = [d \in Dirs |-> [k \in Keys |-> None]]
    /\ meta = [d \in Dirs |-> [k \in Keys |-> None]]
    /\ remote = [k \in Keys |-> None]
    /\ is_hot = [k \in Keys |-> FALSE]
    /\ mutex = NoProc /\ index_mutex = NoProc
    /\ \E k \in Keys :
          me = [p \in Procs |-> AtRest(k, IF p = Maintenance THEN "start" ELSE "idle")]
    /\ running = TRUE
    /\ requests = 0 /\ faults = 0
    /\ issued = [k \in Keys |-> 0] /\ newest = [k \in Keys |-> 0]
    /\ disturbed = {} /\ unstored = {} /\ undone = {}

Fault == faults < MaxFaults /\ faults' = faults + 1

At(p, place) == running /\ me[p].at = place

\* p goes on at a place.  Locals that are not used again are reset.
Goto(p, place) ==
    me' = [me EXCEPT ![p] =
              IF place \in {"idle", "heat2", "heat1"} THEN AtRest(@.key, place)
              ELSE IF place = "access"
                   THEN [AtRest(@.key, place) EXCEPT !.next = me[p].next,
                            !.data = IF me[p].next = "heat2" THEN me[p].data ELSE 0]
              ELSE [@ EXCEPT !.at = place]]

Exists(d, k) == file[d][k] # None

\* (mutation) an object that no tier has is taken to be archived
TierOrArchive(k) ==
    IF Exists("Hot", k) THEN "Hot" ELSE IF Exists("Warm", k) THEN "Warm"
    ELSE IF Exists("Cold", k) THEN "Cold" ELSE "Archive"

\* The hottest tier that has the object; Cold if none does.
GetObjectTier(k) ==
    IF Exists("Hot", k) THEN "Hot" ELSE IF Exists("Warm", k) THEN "Warm" ELSE "Cold"

-----------------------------------------------------------------------------
(* Puts, gets and deletes.                                                 *)

\* The S3 handlers: p turns to a request for the object k.
Accept(p) ==
    /\ At(p, "idle") /\ requests < MaxRequests
    /\ requests' = requests + 1
    /\ UNCHANGED <<base_path, disk, is_hot, locks, running, faults, newest, disturbed,
                   unstored, undone>>

handle_put_object(p, k) ==
    /\ Accept(p) /\ issued[k] < MaxVersion
    /\ issued' = [issued EXCEPT ![k] = @ + 1]
    /\ me' = [me EXCEPT ![p] = [AtRest(k, "put") EXCEPT !.data = issued[k] + 1,
                                                        !.next = "heat1"]]

handle_get_object(p, k) ==
    /\ Accept(p)
    /\ me' = [me EXCEPT ![p] = [AtRest(k, "read") EXCEPT !.from = GetObjectTier(k),
                                                         !.next = "heat2"]]
    /\ UNCHANGED issued

handle_delete_object(p, k) ==
    /\ Accept(p)
    /\ me' = [me EXCEPT ![p] = AtRest(k, "delete")]
    /\ UNCHANGED issued

\* compress_plaintext refuses empty data; they are then stored as they are.
Stored(d) == [data |-> d, compressed |-> Level["Warm"] > 0 /\ d \notin Empty]

\* PutObject with its default tier, Warm: lock mutex_, write the data there.
\* A copy in another tier is left alone.
PutObject(p) ==
    /\ At(p, "put") /\ mutex = NoProc
    /\ mutex' = p
    /\ LET k == me[p].key
           client == me[p].next = "heat1"    \* not GetObject's own put
       IN  /\ file' = [file EXCEPT !["Warm"][k] = Stored(me[p].data)]
           /\ me' = [me EXCEPT ![p].at = "put_meta", ![p].content = Stored(me[p].data)]
           /\ newest' = IF client THEN [newest EXCEPT ![k] = me[p].data] ELSE newest
           /\ disturbed' = IF Exists("Hot", k) \/ ~client THEN disturbed \cup {k}
                                                          ELSE disturbed \ {k}
    /\ UNCHANGED <<base_path, meta, remote, is_hot, index_mutex, running, requests,
                   faults, issued, unstored, undone>>

\* The file does not open, or is written in part, and PutObject goes on.
WriteFails(p) ==
    /\ At(p, "put") /\ mutex = NoProc /\ Fault
    /\ mutex' = p
    /\ file' \in {file, [file EXCEPT !["Warm"][me[p].key] = Torn]}
    /\ me' = [me EXCEPT ![p].at = "put_meta", ![p].content = Stored(me[p].data)]
    /\ newest' = IF me[p].next = "heat1" THEN [newest EXCEPT ![me[p].key] = me[p].data]
                                         ELSE newest
    /\ disturbed' = disturbed \cup {me[p].key}
    /\ unstored' = unstored \cup {me[p].key}
    /\ UNCHANGED <<base_path, meta, remote, is_hot, index_mutex, running, requests, issued,
                   undone>>

\* Encryption fails: return false.
PutFails(p) ==
    /\ At(p, "put") /\ mutex = NoProc
    /\ Goto(p, "access")
    /\ UNCHANGED <<base_path, disk, is_hot, locks, running, history>>

\* (mutation) the tier's level is recorded although compression failed
WriteTierLevel(p) ==
    /\ At(p, "put_meta")
    /\ meta' = [meta EXCEPT ![base_path][me[p].key] = Level["Warm"]]
    /\ mutex' = NoProc
    /\ Goto(p, "access")
    /\ UNCHANGED <<base_path, file, remote, is_hot, index_mutex, running, history>>

\* Write the metadata at the flat path, release mutex_.
WriteMeta(p) ==
    /\ At(p, "put_meta")
    /\ meta' = [meta EXCEPT ![base_path][me[p].key] =
                   IF me[p].content.compressed THEN Level["Warm"] ELSE 0]
    /\ mutex' = NoProc
    /\ Goto(p, "access")
    /\ UNCHANGED <<base_path, file, remote, is_hot, index_mutex, running, history>>

\* That fails as the data's write may; PutObject returns true all the same.
WriteMetaFails(p) ==
    /\ At(p, "put_meta") /\ Fault
    /\ meta' \in {meta, [meta EXCEPT ![base_path][me[p].key] = Torn]}
    /\ mutex' = NoProc
    /\ Goto(p, "access")
    /\ disturbed' = disturbed \cup {me[p].key}
    /\ UNCHANGED <<base_path, file, remote, is_hot, index_mutex, running, requests, issued,
                   newest, unstored, undone>>

\* What GetObject makes of a data file and the level in a metadata file:
\* None if decompression fails.  Without metadata the level is 0.
Decompressed(c, level) ==
    IF level \in {None, 0} THEN IF c.compressed THEN Garbage ELSE c.data
    ELSE IF c.compressed THEN c.data ELSE None

\* GetObject returns false: to the handler, or to DemoteToRemoteCold.
GiveUp(p) == Goto(p, IF p = Maintenance THEN "idle" ELSE "access")

\* GetObject locks mutex_, as its first definition does, and reads and decrypts
\* the file in the tier it found ...
ReadLocal(p) ==
    /\ At(p, "read") /\ file[me[p].from][me[p].key] \notin {None, Torn} /\ mutex = NoProc
    /\ mutex' = p
    /\ me' = [me EXCEPT ![p] = [AtRest(me[p].key, "decode") EXCEPT
                                   !.content = file[me[p].from][me[p].key],
                                   !.next = me[p].next]]
    /\ UNCHANGED <<base_path, disk, is_hot, index_mutex, running, history>>

\* ... or, if it is not there any more, fetches the remote copy and puts it ...
FetchFromRemote(p) ==
    /\ At(p, "read") /\ ~Exists(me[p].from, me[p].key)
    /\ p # Maintenance                          \* force_local
    /\ remote[me[p].key] # None
    /\ me' = [me EXCEPT ![p] = [AtRest(me[p].key, "put") EXCEPT
                                   !.data = remote[me[p].key], !.next = me[p].next]]
    /\ UNCHANGED <<base_path, disk, is_hot, locks, running, history>>

\* ... or finds nothing, or nothing that decrypts.
NoSuchKey(p) ==
    /\ At(p, "read")
    /\ \/ ~Exists(me[p].from, me[p].key)
       \/ file[me[p].from][me[p].key] = Torn /\ mutex = NoProc
    /\ GiveUp(p)
    /\ UNCHANGED <<base_path, disk, is_hot, locks, running, history>>

\* (mutation) the metadata are looked for next to the Warm tier's data
DecodeBesideData(p) ==
    /\ At(p, "decode")
    /\ mutex' = NoProc
    /\ LET d == Decompressed(me[p].content, meta["Warm"][me[p].key])
       IN  IF d = None THEN GiveUp(p)
           ELSE me' = [me EXCEPT ![p] =
                          [AtRest(me[p].key, IF p = Maintenance THEN "upload" ELSE "access")
                              EXCEPT !.data = d, !.next = me[p].next]]
    /\ UNCHANGED <<base_path, disk, is_hot, index_mutex, running, history>>

\* Read the metadata, decompress what they say is compressed, release mutex_.
DecodeLocal(p) ==
    /\ At(p, "decode") /\ meta[base_path][me[p].key] # Torn
    /\ mutex' = NoProc
    /\ LET d == Decompressed(me[p].content, meta[base_path][me[p].key])
       IN  IF d = None THEN GiveUp(p)
           ELSE me' = [me EXCEPT ![p] =
                          [AtRest(me[p].key, IF p = Maintenance THEN "upload" ELSE "access")
                              EXCEPT !.data = d, !.next = me[p].next]]
    /\ UNCHANGED <<base_path, disk, is_hot, index_mutex, running, history>>

\* The parser throws.
ParseFails(p) ==
    /\ At(p, "decode") /\ meta[base_path][me[p].key] = Torn
    /\ running' = FALSE
    /\ UNCHANGED <<base_path, disk, is_hot, locks, me, history>>

\* DeleteObject: lock mutex_, remove the file at the flat path, ...
DeleteObject(p) ==
    /\ At(p, "delete") /\ mutex = NoProc
    /\ mutex' = p
    /\ file' = [file EXCEPT ![base_path][me[p].key] = None]
    /\ newest' = IF p = Maintenance THEN newest ELSE [newest EXCEPT ![me[p].key] = 0]
    /\ disturbed' = disturbed \cup {me[p].key}
    /\ Goto(p, "delete_meta")
    /\ UNCHANGED <<base_path, meta, remote, is_hot, index_mutex, running, requests,
                   faults, issued, unstored, undone>>

\* ... then the metadata.
DeleteMeta(p) ==
    /\ At(p, "delete_meta")
    /\ meta' = [meta EXCEPT ![base_path][me[p].key] = None]
    /\ mutex' = NoProc
    /\ Goto(p, "idle")
    /\ UNCHANGED <<base_path, file, remote, is_hot, index_mutex, running, history>>

-----------------------------------------------------------------------------
(* Moves between tiers.                                                    *)

\* move_object_to_tier begins; p goes on at next when it returns.
BeginMove(p, k, from, to, next) ==
    me' = [me EXCEPT ![p] = [AtRest(k, "rename") EXCEPT !.from = from, !.to = to,
                                                        !.next = next]]

\* move_object_to_tier returns.  A caller in the index, which holds the
\* index's mutex, updates the entry if the move succeeded.
Returns(p, ok) ==
    /\ IF index_mutex = p
          THEN /\ is_hot' = [is_hot EXCEPT ![me[p].key] =
                                IF ok THEN me[p].to = "Hot" ELSE @]
               /\ index_mutex' = NoProc
          ELSE UNCHANGED <<is_hot, index_mutex>>
    /\ Goto(p, me[p].next)

\* Rename the data file; false if it is not there or the rename fails.
MoveData(p) ==
    /\ At(p, "rename")
    /\ LET l == me[p] IN
       \/ /\ Exists(l.from, l.key)
          /\ file' = [file EXCEPT ![l.to][l.key] = file[l.from][l.key],
                                  ![l.from][l.key] = None]
          /\ Goto(p, "rename_meta")
          /\ UNCHANGED <<is_hot, index_mutex>>
       \/ Returns(p, FALSE) /\ UNCHANGED file
    /\ UNCHANGED <<base_path, meta, remote, mutex, running, history>>

\* Rename the metadata next to it, if there are any.
MoveMeta(p) ==
    /\ At(p, "rename_meta")
    /\ LET l == me[p] IN
       \/ /\ meta[l.from][l.key] = None
          /\ Returns(p, TRUE) /\ UNCHANGED <<meta, faults>>
       \/ /\ meta[l.from][l.key] # None
          /\ meta' = [meta EXCEPT ![l.to][l.key] = meta[l.from][l.key],
                                  ![l.from][l.key] = None]
          /\ Returns(p, TRUE) /\ UNCHANGED faults
       \/ /\ meta[l.from][l.key] # None         \* the rename fails
          /\ Fault
          /\ Goto(p, "rollback")
          /\ UNCHANGED <<meta, is_hot, index_mutex>>
    /\ UNCHANGED <<base_path, file, remote, mutex, running, requests, issued, newest,
                   disturbed, unstored, undone>>

\* Rename the data back.  This rename throws if it fails, and nothing catches.
Rollback(p) ==
    /\ At(p, "rollback")
    /\ LET l == me[p] IN
       \/ /\ Exists(l.to, l.key)
          /\ file' = [file EXCEPT ![l.from][l.key] = file[l.to][l.key],
                                  ![l.to][l.key] = None]
          /\ undone' = undone \cup {l.key}
          /\ Returns(p, FALSE)
          /\ UNCHANGED running
       \/ /\ running' = FALSE
          /\ UNCHANGED <<file, is_hot, index_mutex, me, undone>>
    /\ UNCHANGED <<base_path, meta, remote, mutex, requests, faults, issued, newest,
                   disturbed, unstored>>

\* PromoteObject: true at once if the object is in the Hot tier, or a move there.
PromoteObject(p, k, next) ==
    /\ GetObjectTier(k) # "Hot"
    /\ BeginMove(p, k, GetObjectTier(k), "Hot", next)

\* (mutation) the entry becomes hot whether or not the object was moved
promote_unconditionally(p, k, next) ==
    /\ is_hot' = [is_hot EXCEPT ![k] = TRUE]
    /\ \/ /\ GetObjectTier(k) = "Hot"
          /\ Goto(p, next) /\ UNCHANGED index_mutex
       \/ PromoteObject(p, k, next) /\ index_mutex' = p

\* The index makes an entry hot, under the index's mutex.
promote_to_hot(p, k, next) ==
    \/ /\ GetObjectTier(k) = "Hot"
       /\ is_hot' = [is_hot EXCEPT ![k] = TRUE]
       /\ Goto(p, next)
       /\ UNCHANGED index_mutex
    \/ /\ PromoteObject(p, k, next)
       /\ index_mutex' = p
       /\ UNCHANGED is_hot

\* DemoteObject: true at once for a Cold object, or a move one tier down.
DemoteTarget(tier) == IF tier = "Hot" THEN "Warm" ELSE "Cold"

\* The index makes an entry not hot, likewise.
demote_from_hot(p, k) ==
    LET current == GetObjectTier(k) IN
    \/ /\ current = "Cold"
       /\ is_hot' = [is_hot EXCEPT ![k] = FALSE]
       /\ UNCHANGED <<index_mutex, me>>
    \/ /\ current # "Cold"
       /\ index_mutex' = p
       /\ BeginMove(p, k, current, DemoteTarget(current), "idle")
       /\ UNCHANGED is_hot

\* After a put or a get the handler calls RecordAccess, which promotes an
\* entry that is not hot if its score allows.
RecordAccess(p) ==
    /\ At(p, "access") /\ index_mutex = NoProc
    /\ \/ Goto(p, me[p].next) /\ UNCHANGED <<is_hot, index_mutex>>
       \/ ~is_hot[me[p].key] /\ promote_to_hot(p, me[p].key, me[p].next)
    /\ UNCHANGED <<base_path, disk, mutex, running, history>>

\* Then the handler tests the score (a put once, a get twice) and calls
\* PromoteObject itself, without the index's mutex.
PromoteIfHot(p) ==
    /\ At(p, "heat2") \/ At(p, "heat1")
    /\ LET then == IF me[p].at = "heat2" THEN "heat1" ELSE "idle"
       IN  Goto(p, then) \/ PromoteObject(p, me[p].key, then)
    /\ UNCHANGED <<base_path, disk, is_hot, locks, running, history>>

\* One entry of a pass of decay_loop: a hot one that has cooled is demoted.  A
\* pass holds the index's mutex throughout; here it may be released between
\* entries.
decay_loop(k) ==
    /\ At(Decay, "idle") /\ index_mutex = NoProc
    /\ is_hot[k] /\ demote_from_hot(Decay, k)
    /\ UNCHANGED <<base_path, disk, mutex, running, history>>

\* One entry of a pass of tier_maintenance_loop, likewise.
tier_maintenance_loop(k) ==
    /\ At(Maintenance, "idle") /\ index_mutex = NoProc
    /\ \/ is_hot[k] /\ demote_from_hot(Maintenance, k)
       \/ ~is_hot[k] /\ promote_to_hot(Maintenance, k, "idle")
    /\ UNCHANGED <<base_path, disk, mutex, running, history>>

\* What tier_maintenance_loop does before its loop, for one entry that is not
\* hot: DemoteToRemoteCold reads the object ...
DemoteToRemoteCold(k) ==
    /\ At(Maintenance, "start")
    /\ \/ Goto(Maintenance, "idle")
       \/ /\ ~is_hot[k]
          /\ me' = [me EXCEPT ![Maintenance] =
                       [AtRest(k, "read") EXCEPT !.from = GetObjectTier(k)]]
    /\ UNCHANGED <<base_path, disk, is_hot, locks, running, history>>

\* (mutation) nobody tests what upload_to_remote returns
UploadUntested(p) ==
    /\ At(p, "upload")
    /\ me' = [me EXCEPT ![p] = AtRest(@.key, "delete")]
    /\ remote' \in {remote, [remote EXCEPT ![me[p].key] = me[p].data]}
    /\ UNCHANGED <<base_path, file, meta, is_hot, locks, running, history>>

\* ... and uploads it; if upload_to_remote returns true the local object is deleted.
\* It returns false without a remote store.  With one it returns true: as it is
\* written it sends nothing; the request its comments stand for is the other case.
UploadToRemote(p) ==
    /\ At(p, "upload")
    /\ \/ Goto(p, "idle") /\ UNCHANGED <<remote, unstored>>
       \/ /\ \/ /\ remote' = [remote EXCEPT ![me[p].key] = me[p].data]
                /\ UNCHANGED unstored
             \/ /\ unstored' = unstored \cup {me[p].key}
                /\ UNCHANGED remote
          /\ me' = [me EXCEPT ![p] = AtRest(@.key, "delete")]
    /\ UNCHANGED <<base_path, file, meta, is_hot, locks, running, requests, faults, issued,
                   newest, disturbed, undone>>

-----------------------------------------------------------------------------
Session(p) ==
    \/ \E k \in Keys : \/ handle_put_object(p, k) \/ handle_get_object(p, k)
                       \/ handle_delete_object(p, k)
    \/ PutObject(p) \/ WriteFails(p) \/ PutFails(p)
    \/ WriteMeta(p) \/ WriteMetaFails(p)
    \/ FetchFromRemote(p) \/ RecordAccess(p) \/ PromoteIfHot(p)

Common(p) ==
    \/ ReadLocal(p) \/ NoSuchKey(p) \/ DecodeLocal(p) \/ ParseFails(p)
    \/ DeleteObject(p) \/ DeleteMeta(p)
    \/ MoveData(p) \/ MoveMeta(p) \/ Rollback(p)

Next ==
    \/ \E p \in Sessions : Session(p)
    \/ \E p \in Procs : Common(p)
    \/ \E k \in Keys : \/ decay_loop(k) \/ tier_maintenance_loop(k)
                       \/ DemoteToRemoteCold(k)
    \/ UploadToRemote(Maintenance)

Spec == Init /\ [][Next]_vars

-----------------------------------------------------------------------------
(* The index does not lie: an entry that is hot has its object in the Hot  *)
(* tier whenever no thread holds the index's mutex, although the S3        *)
(* handlers promote without it, unless a move was rolled back or the flat  *)
(* path, which DeleteObject removes, is the Hot tier's.                    *)
HotMeansInHotTier ==
    index_mutex = NoProc /\ base_path # "Hot" =>
        \A k \in Keys \ undone : is_hot[k] => Exists("Hot", k)

(* No object vanishes: what was put and not deleted has a copy that        *)
(* decrypts in a tier, or one at the remote, whatever moves, rollbacks and *)
(* demotions overlap, if PutObject never failed to write data of this key  *)
(* and upload_to_remote never claimed to have sent what it had not.        *)
ObjectSurvives ==
    \A k \in Keys \ unstored :
        newest[k] # 0 =>
            remote[k] # None \/ \E t \in Tiers : file[t][k] \notin {None, Torn}

\* The outcome of a GetObject that nothing interrupts.
Served(k) ==
    LET t == GetObjectTier(k) IN
    IF Torn \in {file[t][k], meta[base_path][k]} \/ ~Exists(t, k) THEN None
    ELSE Decompressed(file[t][k], meta[base_path][k])

(* With tier directories of their own, GetObject returns the newest data,  *)
(* decompressed, wherever moves have taken them, as long as both of their  *)
(* files were written while no Hot copy existed and the object was neither *)
(* re-put by a fetch nor demoted to the remote since.                      *)
ServesNewestUnlessDisturbed ==
    base_path = "base" =>
        \A k \in Keys \ disturbed :
            /\ newest[k] # 0
            /\ \A p \in Procs : ~(me[p].at = "put_meta" /\ me[p].key = k)
            => Served(k) = newest[k]

(* GetObject decompresses "if needed": it hands compressed bytes to a      *)
(* client only for a key whose metadata a delete, or a demotion to the     *)
(* remote, has removed or the last put failed to write, or that was put    *)
(* over a Hot copy.                                                        *)
ReadsPlaintext ==
    [][base_path = "base" =>
          \A p \in Sessions :
              me[p].at = "decode" /\ me'[p].at = "access" /\ me'[p].data = Garbage
                  => me[p].key \in disturbed]_vars

-----------------------------------------------------------------------------
(* The inductive invariant.                                                *)

Moving == {"rename", "rename_meta", "rollback"}

\* A client's put carries data it sent, only a get falls back to the remote
\* copy, and what is about to be described or decoded was written or read.
LocalsFit ==
    \A p \in Procs :
        /\ me[p].at = "put" /\ me[p].next = "heat1" => me[p].data \in 1..MaxVersion
        /\ me[p].at = "read" /\ p # Maintenance => me[p].next = "heat2"
        /\ me[p].at \in {"put_meta", "decode"} => me[p].content # None

\* Who holds which mutex.  Only the index moves an object out of the Hot tier.
LocksHeld ==
    \A p \in Procs :
        /\ me[p].at \in {"put_meta", "decode", "delete_meta"} => mutex = p
        /\ index_mutex = p => me[p].at \in Moving
        /\ me[p].at \in Moving =>
              /\ me[p].from # me[p].to
              /\ me[p].from = "Hot" => index_mutex = p

\* A hot entry has its object in the Hot tier or on its way out of it, and an
\* object that the index has moved there stays until the entry is hot.
HotKept ==
    base_path # "Hot" =>
        /\ \A k \in Keys \ undone :
              is_hot[k] => \/ Exists("Hot", k)
                           \/ \E p \in Procs :
                                 /\ index_mutex = p /\ me[p].key = k /\ me[p].from = "Hot"
                                 /\ me[p].at \in {"rename_meta", "rollback"}
        /\ \A p \in Procs :
              /\ index_mutex = p /\ me[p].at = "rename_meta" /\ me[p].to = "Hot"
              /\ me[p].key \notin undone
              => Exists("Hot", me[p].key)

\* What is deleted on behalf of the index is at the remote, if it was sent.
DemotedIsRemote ==
    /\ me[Maintenance].at = "delete" /\ me[Maintenance].key \notin unstored
    => remote[me[Maintenance].key] # None

\* An object whose data were stored has a copy, and none that is torn.
CopyKept ==
    \A k \in Keys \ unstored :
        /\ newest[k] # 0 => remote[k] # None \/ \E t \in Tiers : Exists(t, k)
        /\ \A t \in Tiers : file[t][k] # Torn

\* With tier directories of their own no metadata are ever moved, so no move is
\* rolled back, and nothing reaches the Cold tier.
OwnDirectories ==
    base_path = "base" =>
        /\ undone = {}
        /\ \A t \in Tiers, k \in Keys : meta[t][k] = None
        /\ \A k \in Keys : ~Exists("Cold", k)
        /\ \A p \in Procs :
              me[p].at # "rollback" /\ (me[p].at \in Moving => me[p].to # "Cold")

\* The only copy of undisturbed data is the newest, in the Hot or the Warm tier.
NewestIn(t, u, k) == file[t][k] = Stored(newest[k]) /\ ~Exists(u, k)

OneCopy(k) ==
    IF newest[k] = 0 THEN ~Exists("Hot", k) /\ ~Exists("Warm", k)
                     ELSE NewestIn("Hot", "Warm", k) \/ NewestIn("Warm", "Hot", k)

Described(k) == \A p \in Procs : ~(me[p].at = "put_meta" /\ me[p].key = k)

LevelOf(c) == IF c.compressed THEN Level["Warm"] ELSE 0

NewestKept ==
    base_path = "base" =>
        /\ \A k \in Keys \ disturbed :
              /\ OneCopy(k)
              /\ newest[k] # 0 /\ Described(k) => meta["base"][k] = LevelOf(Stored(newest[k]))
        /\ \A p \in Procs :
              /\ me[p].at = "delete_meta" => me[p].key \in disturbed
              /\ me[p].at \in {"put_meta", "decode"} /\ me[p].key \notin disturbed
                    => newest[me[p].key] # 0 /\ me[p].content = Stored(newest[me[p].key])

Inv ==
    /\ TypeOK /\ LocalsFit /\ LocksHeld /\ HotKept
    /\ CopyKept /\ DemotedIsRemote
    /\ OwnDirectories /\ NewestKept
=============================================================================
