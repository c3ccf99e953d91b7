# TLA+ models of the Private Cloud

The repository holds a sketch of a private cloud: an S3-like object store that
encrypts what it stores, a deduplicating chunk store, a replication engine that
copies objects to other sites, a TLS load balancer in front, and a zero-trust
layer. All paths below are relative to
`src/Implementation Engineering/Private Cloud/`.

This directory models the parts that keep state across calls and threads, checks
them with TLC on small instances and proves the central results with TLAPS.
`PROJECT.json` is the index: components, runs, the lines each definition stands
for, hazards, findings and theorems.

Several source files contain more than one definition of the same function (an
earlier and a revised version, one after the other). Such a file does not build as
it stands, so each module says which definitions it models. Only `TieredStore` combines
two: the tier-aware `GetObject` leaves its local read to the "existing" one.

## Inventory

| Component | State it keeps | Operations | What is hard |
| --- | --- | --- | --- |
| Circuit breakers (`data/replication/sync_engine.*`) | state, failure count and probe time per endpoint | `should_attempt_replication`, `record_success`, `record_failure` | shared by all workers without a lock |
| Persistent queue (`sync_engine.*`, second constructor to the end) | LevelDB records and `meta:next_seq`; `task_cache_`; two mutexes | `enqueue_task`, `dequeue_task`, `QueueReplication`, `worker_loop`, constructor, `Stop` | two mutexes, one locked twice; two writes per task; crashes and restarts |
| Replication engine (`sync_engine.*`, first `worker_loop`) | `task_queue_`, the workers' locals, the replicas | `QueueReplication`, four passes of `worker_loop`, `replicate_to_endpoint`, `Stop` | objects change while they are pushed; lost, repeated and late PUTs; requeueing |
| Dedup chunk store (`data/fast_access/dedup_chunk_store.*`) | count per hash in LevelDB, one file per chunk, GC thread | `StoreChunk`, `DecrementRef`, `StartGC`, `StopGC`, `gc_loop` | collector without the store's mutex, on a snapshot; condition variable; crashes |
| Object store (`data/object_storage/storage_manager.*`, `s3_api_server.cpp`) | data and `.meta` file per object; `active_uploads_`, JSON and part files | `PutObject`, `GetObject`, `DeleteObject`, the four multipart calls | two-file updates; unchecked writes; crashes; validation of part lists |
| Load balancer (`speed/load_balancer/lb_core.*`, `lb_proxy.cpp`) | `rr_index_`, a health flag per entry, the sessions | `GetNextHealthyBackend`, `HealthCheckLoop`, the handlers of `Session` | handlers on several threads share a counter; flags change between two reads |
| Tiers, remote cold storage (`storage_manager.*`, `s3_api_server.cpp`) | an object's files in one of several directories or at a remote | `move_object_to_tier`, `PromoteObject`, `DemoteObject`, `DemoteToRemoteCold` | renames without the mutex, upload then delete |
| Hot data index (`hot_data_index.*`, `s3_api_server.cpp`) | count, time of the last access, score and flag per object; two loops | `RecordAccess`, `GetHeatScore`, `decay_loop`, `tier_maintenance_loop` | scores acted on after the lock is released; entries the decay skips |
| Deduplicated objects (`storage_manager.cpp`, `dedup_chunk_store.cpp`) | manifests, counts, chunk files, Bloom filter | last `PutObject`/`GetObject`, second `StoreChunk`, `GetChunk`, `load_bloom_from_db` | no lock around filter, count and file |
| Bloom filters (`common/*bloom_filter.h`) | bits or counters | insert, test | bits set by an unsynchronised read and write |
| Zero trust (`security/zero_trust/*.rs`) | policies and golden PCR values, loaded once | evaluate, attest, verify | cryptography |
| S3 front end (`s3_api_server.*`) | none between requests | SigV4, routing, listing | canonicalisation |
| LRU cache, autoscaling, configuration | declarations, stubs, a struct of settings | | |

How they interact: the S3 front end calls `StorageManager`; after a write it calls
`QueueReplication`; replication workers read the object back with `GetObject` and
push it to the replica endpoints through the endpoints' breakers. The chunk store is an
alternative back end of `PutObject`. The load balancer stands in front of S3
servers and shares no state with them.

What makes each part correct:

* breaker: it opens at its threshold, never gets stuck half-open, and closes when
  the endpoint works again, whatever its callers interleave;
* queue: cache and store agree, tasks leave in order, an accepted task is neither
  overwritten nor lost, and is worked off;
* engine: every write reaches every endpoint, replicas converge, the queue does
  not grow without failures;
* chunk store: what is referenced is kept, what is not is collected, `StopGC`
  returns; the filter denies no stored chunk, objects read back, counts cover manifests;
* object store: data and metadata of an object belong together, a completed upload
  is what its parts say, and leaves no files; to its callers a put or delete happens at one instant;
* tiers and hot index: no object vanishes or is replaced by an older one, a read returns what was
  put, the flags of the index say where objects are, and what cools down leaves the Hot tier;
* load balancer: probes are spread evenly, a healthy backend is found, the
  request is passed on well-formed.

## Modules

| Module | Models | Composition |
| --- | --- | --- |
| `CircuitBreaker` | one breaker and the workers that use it | `ReplicationEngine` abstracts from it: whether it refuses is open there |
| `PersistentQueue` | the LevelDB queue and its threads | stands for the queue of the second constructor; the replication itself is `FinishTask` |
| `ReplicationEngine` | site, in-memory queue, workers, endpoints, network | includes the site's `PutObject`/`DeleteObject` as version changes |
| `DedupChunkStore` | clients, LevelDB, files, GC thread, its controller | |
| `DedupObjects` | manifests, Bloom filter, second `StoreChunk` | composes `StorageManager`, chunk store and filter; a manifest is an object of `AtomicObjects` |
| `AtomicObjects` | what the object store promises its callers | abstract: implemented by `ObjectStore` |
| `ObjectStore` | objects and multipart uploads, two mutexes | `CompleteMultipartUpload` runs the same `PutObject` steps; instantiates `AtomicObjects` with its refinement mapping |
| `TieredStore` | tiers, remote store, the hot data index's flags and threads, the S3 handlers | composes `StorageManager` and the index; heat scores are abstracted |
| `HotDataIndex` | counts, ages, scores, flags, sessions, both loops | the other half of that composition: moves are one step, scores are computed |
| `LoadBalancer` | sessions, io_context threads, health thread | |
| `MC...` | model values, small sets and symmetries for TLC | extend the module they are named after |
| `CircuitBreakerProofs`, `PersistentQueueProofs`, `ReplicationEngineProofs`, `DedupChunkStoreProofs`, `DedupObjectsProofs`, `ObjectStoreProofs`, `TieredStoreProofs`, `LoadBalancerProofs` | theorems and the lemmas they rest on | extend the component's module and `TLAPS`; the inductive invariants are in the component's module, where TLC can check them. `TieredStoreProofs` also has the proofs of `HotDataIndex`, as the instance `Hot` |

Operators preceded by a comment `(mutation)` are altered forms of the operator
that follows. They are not used by any specification; `PROJECT.json` names, for every
property, one that violates it.

### CircuitBreaker

`state`, `failure_count` and `next_probe_time` are the fields of
`CircuitBreaker` in `sync_engine.h`. `circuit_breakers_` has one breaker per endpoint
and no operation touches two, so one is modelled. Nothing locks it, so every access
another worker can come between is a step: `failure_count++` is a load and a store,
the assignments of each branch are separate. `probe_in` is
`next_probe_time - now`, floored at 0, which needs no bound on the clock;
`record_failure` reads the clock on entry and stores the sum later, so what is then
left of the timeout is any value up to `OPEN_TIMEOUT`. `up` says whether attempts
succeed. `should_attempt_replication` returning false changes nothing and is
a stuttering step.

### PersistentQueue

Second constructor, `load_next_sequence`, `persist_next_sequence`, `enqueue_task`,
`dequeue_task`, second `QueueReplication` and second `worker_loop`. LevelDB is
a set of records with unique sequence numbers, a `Put` replaces the record with its
number; a `Put`, `Get` or `Delete` fails or is applied whole. A crash
(`Restart`) loses everything but the store. `worker_loop` locks `cache_mutex_` and
calls `dequeue_task`, which locks it again. For `std::mutex` that is undefined; the
constant `RelockOutcomes` holds the outcomes considered: `"blocks"` (what glibc
does) and `"grants"` (as if the inner lock were absent). The run `queue`
admits both; with `"blocks"` alone everything behind the lock would be unreachable.

`taken`, `acked`, `finished`, `last` and `meta_ok` are history: what was promised and
what happened. The rest of the loop body is elided in the source and is the single step
`FinishTask`.

### ReplicationEngine

First constructor, first `QueueReplication`, first `worker_loop`, and the third
`replicate_to_endpoint` (the one with breakers). The body of `worker_loop` is the four
passes over the endpoints that the source has one after the other: the first breaks on
failure and queues the task again; the second does so with a backoff and drops the task
after too many; the third tries all endpoints and queues the task again if one failed;
the fourth only if all failed. `backoff_attempts` belongs to the worker, not to the
task, and survives from one task to the next.

Contents are version numbers; an ETag comparison compares versions. A PUT is applied
and answered, not applied, applied without an answer, or applied later
(`ArrivesLate`). An attempt that does not get that far (breaker, missing object) is
`NoAttempt`. `delivered` is history: the newest version an endpoint ever held. `TasksBounded` counts the writes made
as the set `Written` of pairs of an object and a version.
Deletions are not replicated, as in the code.

### DedupChunkStore

First `StoreChunk`, `DecrementRef`, `gc_loop`, `StartGC`, `StopGC`. The body of
`DecrementRef` is elided in the source ("follow similar pattern"); it is modelled as
looking up and counting down under `mutex_`. The GC thread's iterator is a snapshot of the counts
(`todo`). Encryption, the write or the removal of a file and every LevelDB operation may fail. `StoreChunk` takes a failed `Get`
for a new chunk and ignores the status of its `Put` (`uncounted`); the write of a chunk's file is not tested (`unwritten`); the
collector deletes the record of a chunk whose file it could not remove (`leaked`); an iterator that fails ends early, which nobody tests. Evaluating the predicate of the wait, entering it, being notified and
timing out are separate steps, so that a notification can get lost as it can in
the code (`notify_all` is called without `gc_mutex_`, after an unsynchronised
`exchange`). `held`, the references in clients' manifests, `condemned`, `revived`, `unwritten`, `uncounted` and `leaked` are
history.

### DedupObjects

The last `PutObject` and `GetObject` of `StorageManager` (those that cut an object into chunks), the second
`StoreChunk`, `GetChunk`, `load_bloom_from_db` and `BloomFilter::insert`. `Pos[c]` are the bits the hash
functions name for chunk `c`, chosen so that one chunk's bits are among another's. `bloom_filter.h` declares
its bits as `std::bitset<0>` with a remark that a dynamic one is meant; the model has a bit vector, set
by loading and storing a word. Between filter, LevelDB and file no lock is
held, so each access is a step. Where the second `StoreChunk` leaves "rest of store logic"
out, the steps of the first are taken, with the same LevelDB errors dropped; the iterator that rebuilds the filter may end early. A manifest is put and deleted at one instant, as `AtomicObjects` allows; `GetObject`
appears as what it would return (`GetChunk`, `ReadsBack`). `lost`, `disturbed`, `unwritten` and `uncounted` are history: bits undone by
overlapping inserts or left out at start-up, chunks stored by two clients at a time or again after the filter forgot
them, chunks whose write failed, chunks for which a LevelDB error was dropped.

### ObjectStore

The flat `PutObject`, `DeleteObject`, `GetObject` (as the value it returns) and the multipart calls.
A write that nobody tests may leave a torn file, which authenticated decryption, or
the JSON parser, refuses. The `.meta` file and an upload's JSON file are opened without a test, too, and stay as they were if that
fails. Initiating an upload is three steps (the map, the JSON file, the directory) under `multipart_mutex_`; an exception,
such as `create_directory` may throw, ends the process and is a crash. A completion holds `multipart_mutex_` and takes `mutex_`
for its put; the access it records in the hot index is left out. `unpaired` (keys whose put or delete a crash cut short, or whose last put could not
open the `.meta` file) and `orphans` (uploads a crash made the process forget) are history.

**Refinement.** `AtomicObjects` has one value per key and a set of calls in flight. A put is called, takes effect at one instant and
returns; a delete is called and takes effect; a failed step may leave the key
as it was, unreadable or, after the put took effect, with its data under the metadata of an earlier put (`Unpaired`); a crash drops all calls and leaves at most one of their keys with other
data. `Atomic == INSTANCE AtomicObjects WITH ...` maps `value` to what `GetObject` returns, except for the key of a put
between its two writes: it holds `mutex_`, which `GetObject` needs, so nobody can look, and the put counts as done from its
first write on. `calls` are the clients from `"lock"` to `"meta"` or `"delete"`, `mishaps` the faults and crashes.
`ImplementsAtomicObjects` is `Atomic!Spec`. It fails as soon as a call leaves `mutex_` out.

### TieredStore

The tier-aware `PutObject` (its default tier is Warm), the tier-aware `GetObject` with the
decompression of the later `GetObject`, `DeleteObject`, `move_object_to_tier`, `PromoteObject`,
`DemoteObject`, `DemoteToRemoteCold`, and the second `promote_to_hot` and `demote_from_hot`. `file` and
`meta` are the files in each directory; `base_path` is the directory of the flat path, which
`get_meta_path` and `DeleteObject` use: one of its own, or that of a tier whose configured path is the same.
Every file operation is a step. The local read is elided in the tier-aware `GetObject`
("existing local read/decrypt logic"); it is taken to lock `mutex_`, as the existing one does. The moves
of `RecordAccess`, `decay_loop` and `tier_maintenance_loop` hold the index's mutex, those of the handlers do
not. Whether a score passes a threshold is open, which allows more than the code does.
`HotMeansInHotTier` is about a flat path that is not the Hot tier's, since `DeleteObject` would remove the hot copy there.
`tier_maintenance_loop` tests one entry for demotion to the remote before its loop (the entry is not
declared there); `DemoteToRemoteCold` may take any that is not hot. Data are versions; an empty
one (`Empty`) is stored uncompressed. Nothing tests whether `PutObject` could open and write its two files: one that does not open stays as
it was, one written in part is `Torn`. Torn data do not decrypt; torn metadata make the parser throw, which ends the process (`ParseFails`).
`upload_to_remote` is unfinished: it returns true, where a remote store is configured, without having sent anything. `UploadToRemote` has
this outcome and the one its comments describe, the object being at the remote; `fetch_from_remote`, whose request is a comment too, is
taken to return what is there. `newest`, `disturbed`, `unstored` and `undone` are history: the
client's last write; the keys written over a Hot copy, re-put by a fetch, deleted since, or whose last put failed to write a file; those of which
`PutObject` returned true without having written the data, or `upload_to_remote` without having sent them; and those whose move was
rolled back.

### HotDataIndex

`RecordAccess`, `GetHeatScore` with the promotions the S3 handlers make after it (one after a put, up to two
after a get), `update_heat_score`, a pass of `decay_loop`, one of `tier_maintenance_loop`, `Stop`. The loops' passes
hold `mutex_` from end to end and are one step; a session's promotion runs without it and is a step of its own. `age` is
`now - last_access` in units that end at `Horizon` (24 h in the code); scores are integers, `decay_factor_` is a
fraction. A move succeeds or fails; its steps are in `TieredStore`. `refused` and `overtaken` are
history: objects whose last move by the index failed, and those demoted while a session was about to promote them.
The settings are taken to be positive. The constructor replaces others by defaults, but the second test of `handle_get_object`
(`s3_api_server.cpp:404`) is of the configured threshold, which would then differ from the index's.

### LoadBalancer

`GetNextHealthyBackend` is two steps per probe (`fetch_add`, then reading the flag),
`HandleRequest` reads the flag once more. A session needs one of `Threads` threads while its handler
runs. `main` adds every configured backend to a list the constructor has filled
already, so the entries of `backends_` are twice the backends, each with a flag of its
own: `N` counts entries. A session whose entry's address has no colon, or that meets an error, closes. `rr_index_` has `Width` bits. `lead` is history: how
often each entry was probed more than the least probed one. `uneven` says that the counter wrapped at a number that is no
multiple of `N`: the entry whose turn was next is then not the next one. Exceptions on an io_context
thread end the process (`Terminate`). `crossed` and `flipped` are history, too: the sessions between whose probes
another session probed or the counter wrapped unevenly, and those whose chosen entry failed a check before it was used. Bytes of requests and responses are left out.
Lines 262 to 502 of `lb_proxy.cpp` are commented out.

## Runs

Runs that pass:

| Run | Checks | Instance |
| --- | --- | --- |
| `breaker` | `TypeOK`, `NeverRestsPastThreshold`, `HalfOpenIsProbed`, `RecoversWhenUp` | 3 workers, threshold 2 |
| `queue` | `TypeOK`, `CacheBackedByStore`, `StoredIsCached`, `DequeuesInOrder`, `AckedStaysQueued`, `CachedEventuallyFinished` | 2 producers, 2 workers, 3 tasks, 2 faults, a crash, both outcomes of the relock |
| `engine_safety` | `TypeOK`, `NoWriteForgotten`, `TasksBounded` | 2 workers, 2 endpoints, an object written twice and deleted, 2 faults, a late PUT |
| `engine_one_worker` | `ConvergedWhenQuiescent`, `WritesReachEndpoints` | one worker, 2 endpoints, an object written twice and deleted, 3 faults, no late PUT |
| `dedup` | `TypeOK`, `ReferencedChunksKept`, `StopReturns`, `GarbageCollected` | a client, 2 chunks, a fault, a crash |
| `dedup_objects` | `TypeOK`, `CountedChunksFound`, `ReadsBack`, `CountsCoverManifests` | 2 clients, 2 keys, objects of up to 2 chunks whose bits collide, a fault, a crash |
| `object_store` | `TypeOK`, `EtagFitsObject`, `PutsWhatIsListed`, `FilesOfActiveUploads`, `ImplementsAtomicObjects` | 2 clients, 2 keys, an upload of up to 2 parts with 2 contents, a fault, a crash |
| `tiers` | `TypeOK`, `HotMeansInHotTier`, `ObjectSurvives`, `ServesNewestUnlessDisturbed`, `ReadsPlaintext` | 2 sessions, 3 requests, 2 versions of one object, both index threads, two layouts of the directories, a failed write or rename |
| `hot_index` | `TypeOK`, `HotTierIsTracked`, `CoolsOrFreezes` | 2 sessions, 5 accesses to one object, both loops, 2 failing moves |
| `load_balancer` | `TypeOK`, `RoundRobin`, `RefusedOnlyIfDisturbed` | 2 sessions on 2 threads, 4 entries |

What they show, where the name does not say it:

* A breaker updated without a lock does not come to rest closed past its threshold,
  and a half-open one always has an attempt that will settle it. Late failures may re-open a
  circuit after a success, but not for ever, as long as tasks for the endpoint keep coming.
* The order of `enqueue_task` (number, record, next number, cache) and its mutex are
  enough for the cache to agree with the store and for tasks to leave in order. An accepted
  task's record survives any number of crashes if `meta:next_seq` is
  written without error. Its write status is ignored, so that this is a condition.
* Although `worker_loop` drops tasks, no write is forgotten: what the second pass drops,
  the first has queued already. The number of tasks in the system is paid for
  by writes and failures.
* The chunk store loses referenced data only if a chunk is counted up after the
  collector took it for unreferenced, if its file was never written, or if `StoreChunk` dropped a LevelDB error. What is
  unreferenced is collected, record and file, but for a file whose removal failed or that was written because a `Get` failed.
* Puts, deletes and completions of one key do not mix, initiating, aborting and completing an upload leave no file without an owner, and a completion that lists its parts
  in order puts exactly those.
* The index's flags agree with the Hot tier although handlers promote objects behind its back; a
  rolled-back move is the exception. Renames without the mutex lose no object that was
  written, and a demotion to the remote none that was sent.
  Newest data are hidden or overwritten only if they were put while a Hot copy existed, or by a
  fetch that lost a race, or by a deletion, or if one of their two files was not written.
  Compressed bytes are returned only for an object that was deleted, demoted to the remote, or otherwise disturbed.
* Until the first restart every stored task is in the cache, or its producer is about to push it: a failing `Delete` skips
  no task.
* The index loses track of an object in the Hot tier in two ways only: a move of its own that failed, and a demotion between
  a session's look at the score and its promotion. Every hot entry is demoted in the end unless its
  count decays to 0 first, after which no loop that is started looks at it.
* Over crashes, rebuilds and false positives the filter denies a counted chunk only by bits that overlapping inserts have undone
  or a failing iterator left out; an object lists chunks that can be read unless one of them did not encrypt, was not written, was stored by two
  clients at a time, or was stored while LevelDB failed.
* A session is refused although a backend stays healthy only if another session's probe came between
  its own, or the chosen backend failed a check before it was used.

Runs that end in a violation check one sentence of the repository that the code
does not keep. The property is the sentence; the finding in `PROJECT.json` quotes it.

| Run | Property | What TLC shows |
| --- | --- | --- |
| `queue_wedged` | `AckedEventuallyFinished` | the first worker with a task blocks on its own mutex, producers behind it |
| `engine_stale` | `ConvergedWhenQuiescent` | two workers push versions of one object in the wrong order |

### Further divergences

The models contain these behaviours as well. No run is kept for them; the passing
properties are stated so that they name the exception.

* Every caller passes a half-open breaker (`sync_engine.cpp:534`; the comment at 523 says "allow one attempt").
* A crash between the two writes of `enqueue_task` reuses the sequence number and replaces the stored record
  (`sync_engine.cpp:658`), which was not yet reported as accepted: `AckedStaysQueued`.
* A crash after `dequeue_task` deleted the record and before the replication loses an accepted task (`sync_engine.cpp:684`);
  `AckedStaysQueued` ends there (`taken`).
* Records of an earlier run are never loaded into the cache (`sync_engine.cpp:592`; line 593 says "we scan on first
  dequeue"): `CachedEventuallyFinished` speaks of cached tasks only, and `StoredIsCached` ends at the first crash.
* With no endpoint configured the fourth pass finds that all have failed and queues the task again, for ever
  (`sync_engine.cpp:258`). Connect, handshake, write and read have no timeouts (`sync_engine.cpp:489`): a silent endpoint holds
  its worker, and `Stop`, which joins it. Both are outside the instances: there is an endpoint, and attempts return.
* The collector removes the file of a chunk that is stored again during a cycle (`dedup_chunk_store.cpp:170`, where line 162
  says "Chunk is unreferenced"): the `revived` exception of `ReferencedChunksKept`.
* A task that one endpoint took and another refused is not queued again by the last pass (`sync_engine.cpp:258`). Unless an earlier pass has
  queued it, nobody asks the refusing endpoint's breaker again, which stays Open although the endpoint may be up: `TasksKeepComing`, the premise of `RecoversWhenUp`.
* `StoreChunk` takes every failed `Get` for a new chunk and sets the count back to 1, and drops the status of its `Put`
  (`dedup_chunk_store.cpp:64`, `:69`, `:90`; second definition `:280`): a chunk in use is under-counted, or has no record at all. This is the `uncounted` exception.
* The file of a collected chunk whose removal fails stays for good, since its record is deleted all the same (`dedup_chunk_store.cpp:176`, `:215`); so does one
  that `StoreChunk` writes for a chunk whose deletion is in a batch already, after a failed `Get`. `GarbageCollected` names both.
* `PutObject` returns true although the `.meta` file could not be opened: new data with the old etag or none (`storage_manager.cpp:194`), the `unpaired`
  exception. The tier-aware one does not test its data either (`storage_manager.cpp:771`, `:791`): `unstored` and `disturbed`.
* `upload_to_remote` sends nothing and returns true (`storage_manager.cpp:570`), and `DemoteToRemoteCold` then deletes the local object (`:645`). As the
  source stands, every demotion to an enabled remote loses the object if the flat path is the tier's: the `unstored` exception of `ObjectSurvives`.
  A remote copy that is older than the deleted object satisfies `ObjectSurvives`: it is about some copy, not the newest.
* The write of a chunk's file is not tested (`dedup_chunk_store.cpp:83`), and a hash that is empty because encryption failed goes into
  the manifest (`storage_manager.cpp:850`): `PutObject` returns true for an object that cannot be read. `ReferencedChunksKept` and
  `ReadsBack` exempt these chunks.
* Two stores of a new chunk both set its count to 1 (`dedup_chunk_store.cpp:272`), and overlapping inserts undo each other's bits
  (`bloom_filter.h:42`): the `disturbed` and `lost` exceptions. No caller ever gives a reference back, so chunks of
  deduplicated objects are never reclaimed; `CountingBloomFilter` is constructed and never filled.
* An entry of the hot data index stays hot for ever if its count reaches 0 while the bonus holds its score up
  (`hot_data_index.cpp:122`). With the default settings the count of a single access is 0 after the first pass, and the bonus is above half the threshold for
  most of a day: the `Frozen` case of `CoolsOrFreezes`. `tier_maintenance_loop`, which takes the scores as they are, is started by nobody.
* `DeleteObject` removes the flat metadata and leaves the compressed file in its tier, and `DemoteToRemoteCold` and the moves
  treat the two files differently (`storage_manager.cpp:244`, `:645`, `:791`): the next read returns compressed bytes. `ReadsPlaintext` exempts
  these keys.
* A put over a Hot copy is not seen by reads, and the demotion of that copy renames the older data over it
  (`storage_manager.cpp:319`, `:767`): the `disturbed` exception of `ServesNewestUnlessDisturbed`. With the default thresholds
  the first access makes an object hot, so a second put is enough.
* With `storage_warm_path` equal to `storage_path`, promoting an object moves its metadata where no read looks for them;
  `ServesNewestUnlessDisturbed` is about directories of their own.
* By `HotMeansInHotTier` a demotion always goes from Hot to Warm: short of a rolled-back move nothing reaches the Cold
  tier. Tiers on different devices, as in the default configuration, make every rename fail.
* A PUT that arrives after the worker gave up on it overwrites a newer version (`sync_engine.cpp:500`); `engine_one_worker`
  therefore has no late PUT, and `EngineDeliversAll` speaks of versions an endpoint *has held*.
* "Max backoff reached - dropping task" (`sync_engine.cpp:200`): the first pass has queued the task again already.
* A crash between removing a chunk's file and deleting its record leaves a record `StoreChunk` counts up without a file
  (`dedup_chunk_store.cpp:69`): the `revived` exception of `ReferencedChunksKept`.
* A crash between data and `.meta` file leaves new data with the old etag (`storage_manager.cpp:173`): the `unpaired` exception of
  `EtagFitsObject`.
* A part list that names one part twice passes the validation (`storage_manager.cpp:430`), and parts behind a missing number are left out
  and deleted (`storage_manager.cpp:440`); `PutsWhatIsListed` speaks of lists 1..n.
* If `PutObject` fails inside a completion, the parts are deleted and the client is told that they did not match
  (`storage_manager.cpp:467`, `s3_api_server.cpp:578`).
* A backend that turns unhealthy after it was chosen is answered with "No healthy backends" (`lb_proxy.cpp:112`), whatever the others are: the `flipped` exception. Writing the error
  answer throws when the client has gone (`lb_proxy.cpp:188`), which ends the process (`Terminate`). `main` of `lb_proxy.cpp` never calls `Start` on
  its server; the model starts with sessions accepted.
* `X-Forwarded-For` is inserted before the line end of the last header line (`lb_proxy.cpp:142`). Bytes of requests are not modelled.

### Bounds

* `MaxFailureCount` 3 is one above the threshold of 2: enough for stale increments on both
  sides of it. Three workers: one in each of `record_success`, `record_failure` and
  `should_attempt_replication`.
* Three tasks and a crash let a record of the earlier run, one of this run and a new one meet;
  two faults let the sequence number's write and another operation both fail.
* One object written twice is what stale and repeated PUTs need: an old and a new version. Two endpoints
  give a pass a first, a last and one skipped by `break`; `max_backoff_attempts` 1 makes both a
  retry and a drop reachable with two faults.
* `gc_batch_size` 2 with two chunks has full and partial batches. The clients of the chunk store are serialised by its mutex for
  the whole of each call, so one that calls again and again interleaves with the collector in every way several
  would; counting is told from setting by `dedup_objects`, where an object lists a chunk twice.
* In `dedup_objects` one chunk's bits are among the other's, so that false positives, lost bits and a rebuilt filter all occur with two puts.
* In `hot_index` a first access lifts the score above one and a half times the threshold, as with the default settings, and a
  count can reach 0 before and after the bonus ends; five accesses reach the limit for counts with and without decay. Entries share
  only the mutex and the passes, so one is enough.
* Two parts can have a gap and can be listed twice; two contents tell a part from its replacement.
* Three requests are two puts and a get or delete, each followed by promotions and any number of demotions; two sessions
  and two threads put a move of each kind beside a put and a read. Keys share only the mutexes, so one is enough.
* Four entries (two backends) with `Width` 3: the counter wraps within a run, and as `N` divides
  `2^Width` it wraps evenly. With other sizes the wrap skips or repeats entries once in 2^64 calls: `RoundRobin` holds until then and
  `crossed` counts such a wrap as a disturbance. `lead` then grows without a bound, so TLC cannot finish such an instance; the theorems are
  about every size and width.
* `MaxFaults`, `MaxCrashes`, `MaxLate`, `MaxTasks`, `MaxVersion`, `MaxRefs`, `MaxList`, `MaxRequests` only bound how often
  the environment acts. The proofs need none of them to be small.

`CHECK_DEADLOCK FALSE` is set for the queue and the engine, which stop: `Stop`, or all
tasks done and the bounds used up; for the tiers, whose process a failing rollback or unparsable metadata end; and for the hot index and the deduplicated objects, which have nothing left to do after
`Stop`, or when all puts are made.

### Fairness

* Breaker: the clock advances, and each worker inside a call goes on. No worker has to make another call: the queue may be
  empty, and the last pass does not queue a task again that another endpoint took (`sync_engine.cpp:258`). That tasks keep coming is the
  premise `TasksKeepComing` of `RecoversWhenUp`. Nothing is assumed of the endpoint.
* Queue, engine: weak fairness of each thread: they are OS threads with no priorities and the
  mutexes are free infinitely often. The engine's endpoint owes no success; only
  the fault budget ends failures. A PUT on its way arrives.
* Chunk store: the GC thread is scheduled, and its `wait_for` times out; a `StopGC` that was
  called goes on. Nothing makes clients act or `StopGC` be called.
* Hot data index: the decay thread comes back after its interval and makes its pass, and time passes. No session has to send
  requests, and no fairness is given to `tier_maintenance_loop`, which nothing starts.
* Object store, deduplicated objects, tiers, load balancer: only safety is checked, no fairness.

## Proofs

TLAPS checks these for all values of the constants that satisfy the modules'
assumptions (any number of threads, endpoints, objects, tasks, faults and crashes). Every inductive invariant below was
first checked with TLC as an invariant of the run of its module.

Every safety invariant, action property and refinement the passing runs check is proved; what is left to TLC is liveness.

### Assumptions

Each module names what its proofs assume of its constants, and every run evaluates it: markers (`None`, `Torn`, `NoClient`, ...) are no
data or threads (`MarkerAssumption`, `NoneAssumption` and the like, which strings, numbers and records
satisfy by their kind); bounds are natural numbers; `N` and `gc_batch_size` are positive; the sets that are counted
(`FiniteAssumption` of `ReplicationEngine`, `DedupObjects` and `HotDataIndex`) are finite, as sets of threads and keys are. `PowerAssumption` of
`LoadBalancer` says that `2^Width` is a positive number, which follows from `Width \in Nat` but is unknown to the provers. One theorem
has hypotheses of its own: `EngineConverges`. The theorems on `HotDataIndex` have the hypothesis `IndexAssumptions`, which is the conjunction of that
module's assumptions: the assumptions of an instantiated module are not facts of the module that instantiates it.

### Circuit breaker

`BreakerTypeCorrect`, `BreakerNeverRestsPastThreshold`, `BreakerHalfOpenIsProbed`. Both safety
invariants are inductive with `TypeOK`. For the first: the state becomes
`Closed` only with a worker about to clear the count, and the count grows only with a worker about to
test it. For the second: `Half-Open` is entered by a worker that goes on to an
attempt, and a worker leaves `WillSettle` only by setting another state or by finding one.

### Persistent queue

`QueueInvariant` proves `Inv`, from which `QueueTypeCorrect`,
`QueueCacheBacked`, `QueueInOrder` and `QueueKeepsAcked` follow. The three properties are not
inductive by themselves. `MutexesHeld` says who is in which critical section; `SequencesUnique` makes deleting by
number remove one record; `SequencesGrow` puts the number of the one active producer above
all that is cached or dequeued; `PopsTheTop` keeps the record a worker deleted the
top until it pops it, although producers push meanwhile; `PutBeforePersist` and
`MetaSeparates` put accepted records below `meta:next_seq` and new ones at or above it, which is why
a `Put` after a restart replaces no accepted record. `QueueStoredIsCached` adds `DeletedBeforePop` (`StoreInv`): no record has
the number of a worker that is about to pop, so that popping strands none.

### Replication engine

`EngineInvariant` proves `TypeOK /\ VersionsOrdered /\ NoWriteForgotten`, hence `EngineTypeCorrect` and
`EngineForgetsNoWrite`; `EngineDeliversAll` draws the conclusion for the quiescent states. `VersionsOrdered` is needed so that a version that
was delivered, or is carried by a late PUT, cannot exceed the current one. The argument follows the worker's first
pass: `Covers` says which endpoints it still has ahead; a success takes the
one it served out of the claim, a failure makes it queue the task again.

`EngineTasksBounded`: the bound itself is not inductive, because a pass queues its task again later than the failure that
allows it. `TasksPaid` enters that debt: a worker that has met a failure in its pass (`Owing`) counts once more. The failure
raises `faults` and the debt together, and the end of the pass turns the debt into a task. What a pass owes is lost with its
`results`, so that at most one task is queued per pass and failure.

`EngineConverges` assumes one worker and `MaxLate = 0`, the conditions of the run `engine_one_worker`; the run `engine_stale`
shows that with two workers the conclusion is false, and a PUT that arrives late breaks it in the same way. `InOrder` says
that the worker never carries a version older than one it has stored, so that what endpoints hold is the newest they ever held; the rest is
`NoWriteForgotten`. Faults, deletions and lost answers are not restricted.

### Load balancer

`BalancerInvariant` proves `Inv`, hence `BalancerRoundRobin` and `BalancerRefusals`; `BalancerTypeCorrect` is shown before. `LeadIsPrefix`
says exactly which entries have been probed in this round, those before `Turn`; `RoundRobin` alone does not say
that the next probe goes to one that has not. `ProbesInARow` follows a session that nobody disturbs backwards from its last probe
(`Back`): the entries behind it are not steady. After `N` probes they are all entries, and so none is steady. The lemmas on `%` (the successor of a
remainder, and around the wrap) are the ones the provers do not find in one step.

### Object store

`StoreInvariant` proves `Inv`: who holds which mutex (`LocksHeld`), what a put or delete between its writes has
left on disk (`HalfDone`), that the files of a key fit but for a put between them (`ObjectsFit`), and that the record of a part fits its file
(`PartsFit`), which is what makes `PutsWhatIsListed` inductive: a completion reads files, its list has etags. `StoreEtagFits`,
`StorePutsWhatIsListed` and `StoreFilesOfUploads` follow.

A put that could not open its `.meta` file puts its key in `unpaired` in the same step, so `ObjectsFit` asks nothing of it until the next put or
delete. `FilesOfUploads` is the form of `FilesOfActiveUploads` that also holds while an upload is initiated or cleaned up.

`StoreImplementsAtomicObjects` is the refinement: `Init` implies `Atomic!Init`, and each step is a step of
`AtomicObjects` or leaves `value`, `calls` and `mishaps` alone. The first write of a put is `Effect`; its second, which also releases `mutex_`, is `Return` and leaves the value as it is because
`ObjectValue` has shown the new data since the first. A failed write is `Mishap` or, for a part or a JSON file, `MishapElsewhere`; one of a
`.meta` file that did not open uncovers the old metadata, which is why `Mishap` has the case `Unpaired`; a crash drops
all calls and can change the one key whose holder of `mutex_` was between two writes. That there is only one is `LocksHeld`.

### Deduplicated objects

`DedupInvariant` proves `Inv`, hence `DedupCountedFound` and `DedupReadsBack`. `FilterFollows` carries the bits a client has seen or set
to the moment the chunk gets its record; `OverlapsNoted` makes `disturbed` cover every overlap, so that what a client has read of an undisturbed
chunk is current (`CountsFresh`) and its file is written before its record (`FilesWhole`). Chunks with a dropped LevelDB error (`uncounted`) are left out of
these, since a client may be about to set their count to 1 while they have a higher one.
`DedupCountsCover` is about sums over manifests. The number of places that list a chunk is the cardinality of a set of triples (`Uses`), and a step
adds or takes away the triples of one position or of one manifest, so that the proof counts with the library's theorems on finite
sets and needs no induction over sequences.

### Chunk store

`ChunkTypeCorrect`, `ChunkInvariant`, `ChunkReferencedKept`. `LookupsCurrent` is `mutex_` at work: the count a call has read is current, and the collector, which does not take the
mutex, changes no count. `CycleCondemned` ties the snapshot to the records, and `KeptUnlessCondemned` says that a chunk that was never revived or uncounted has count 0 while
a cycle has it condemned and its file otherwise.

### Tiers

`TiersInvariant` proves `Inv`, hence `TiersHotMeansInHotTier`, `TiersObjectSurvives` and `TiersServeNewest`, and with a further look at the steps `TiersReadPlaintext`. `LocksHeld`
contains the key of the argument, that only a thread with the index's mutex moves an object out of the Hot tier; `HotKept` says where the object is
while such a move is under way. `CopyKept` is the inductive form of `ObjectSurvives`: a key that is not `unstored` has a copy and no torn file, so no
rename can put a torn file over the last whole one; `DemotedIsRemote` says that what is about to be deleted for the index is at the remote, if it was
sent. With directories of their own (`OwnDirectories`) moves carry no metadata and none is rolled back, and `NewestKept` puts the
only copy of undisturbed data in the Hot or the Warm tier, described by the level it was written with.

### Hot data index

`HotDataIndex` is instantiated in `TieredStoreProofs` with the keys and sessions of `TieredStore` and variables of its own. `IndexInvariant`
proves its `Inv`, hence `IndexTypeCorrect` and `IndexTracksHotTier`. `HotTierIsTracked` is not inductive: a session promotes without the mutex and sets no flag, so that
one has to know beforehand that what it is about to promote is hot, refused or overtaken. That is `PromotedIsKnown`, for the sessions about to promote
and for every entry whose score is above the threshold, which a session may pick next. It holds after `RecordAccess` because the same
score makes the index promote the entry first, under its mutex; a demotion needs a score below half the threshold and notes the
sessions it overtakes. A decay pass could break it only by raising a score. `ScoresCover` excludes that: a stored
score is at least what would be computed now, since decay lowers the count (`DecayedCount`) and the score grows with the count and
falls with the age (`HeatOfFewer`, `HeatOfLater`).

### What failed attempts showed

* `GetObject` of `ObjectStore` was a `CASE` whose arms overlapped; the order of the tests is that of the code now.
* `RoundRobin` needed that `N` divides `2^Width`, which was only a property of the instance; `uneven` says it in the model.
* `HotMeansInHotTier` is false if the flat path is the Hot tier's directory, a layout the run does not have (`DeleteObject`).
* That a condemned chunk has count 0, and that nothing is left over between cycles, had to be said for `ReferencedChunksKept`.
* `ConvergedWhenQuiescent` needs no restriction on deletions; the run, which had left them out, has them now.
* `ObjectSurvives` with a clearable exception is false: after a failed write a key may hold torn data in one tier and good data in another, and a move
  renames the one over the other even after a later put. Hence `unstored` is not cleared.
* `TypeOK` of `HotDataIndex` is not inductive: `Resume` counts `rounds` down, which stays a natural number only because a session that is not idle has
  one left (`RoundsLeft`). Counting moves that failed needs finitely many objects (`FiniteAssumption`).

### Only model-checked

* Liveness, which the prover does not reach: `RecoversWhenUp` (under its premise), `CachedEventuallyFinished`, `WritesReachEndpoints`, `StopReturns`,
  `GarbageCollected`, `CoolsOrFreezes`.
* The two violations are counterexamples and need no proof.

## Not modelled

* The first two `replicate_to_endpoint`. The first is the third without breakers; the second adds a retry loop within the call, with waiting
  times computed from a `now` read at its start. To the worker it is one attempt that succeeds or fails, which is what
  `ReplicationEngine` has. `compress_data` produces what nobody sends; `TriggerFullResync` has no body.
* `gc_unused_chunks`, an older collector without a caller; `GetTopHotObjects` and its two queues, which nobody reads; `CountingBloomFilter`,
  which nobody asks.
* `ListObjects` and the S3 session's loop of read, handle and write: they keep no state between requests, and a listing
  reads the flat directory only.
* Crashes during a move between tiers: the steps are those of a move that a failed rename interrupts, without the rollback.
* Zero trust: policies and golden values are loaded once under a mutex and only read afterwards; the rest is certificates and TPM quotes.
* SigV4, TLS: cryptography and string canonicalisation.
* `lb_proxy_beast.cpp`: an alternative front end with the same choice of backends. Its session hands its socket to the TLS stream and then
  asks the empty one for its peer (line 141), which throws on the first request that finds a backend; what
  follows is not reached.
* LRU cache (declarations only), autoscaling (stubs), configuration (constants of the modules).

## What is left

All parts with state of their own are modelled but for those listed above, and the safety properties are proved. What could still be added:

1. Crashes in the middle of a move between tiers, with what a restart finds in the directories.
2. The second `replicate_to_endpoint` with its waiting times, once `worker_loop` has one definition.
3. A proof that the moves of `TieredStore` implement the one-step moves of `HotDataIndex`. Both modules take the part of the other as an
   assumption (`TieredStore` leaves the outcome of a comparison of scores open, `HotDataIndex` whether a move succeeds).
