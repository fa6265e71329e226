# iQDB in TLA+

A verification project for iQDB, an embedded vector database: TLA+ models of its
row store, its engine, its concurrent handle in memory and on files, its durable
storage, its configuration and constructors, its snapshot codec and its async
handle, checked with TLC on small instances, and theorems proved with TLAPS for
every instance about all of these but the codec.

## The system

| Part | State | Operations | Interacts with |
|---|---|---|---|
| Row store, `src/engine/store.rs` | vector of rows, hash map id → position | upsert, remove, get, contains, len, iter | owned by the engine |
| Index dispatch, `src/engine/index.rs` | a flat, HNSW or IVF index (family crates) | new, train, insert, delete, search | written by the engine after the store |
| Engine, `src/engine/mod.rs` | store, index, cache layer, `ivf_dirty` | insert, delete, ensure_ready, optimize, search, save_to, load_from, set_cache | called under the handle's lock, by the log replay and by the snapshot writer |
| Result cache (`CacheLayer`) | results by query | wraps the index; dropped by every mutation | external crate `iqdb-cache` |
| Handle, `src/handle.rs` | `RwLock<Storage>`, dim, metric | open, upsert, get, delete, search, batch search, optimize, len, flush, close | shared by threads |
| Durable storage (`Storage::Persisted`) | snapshot file, write-ahead log | load with replay, logged writes, checkpoint | external crate `iqdb-persist` |
| Codec, `src/engine/codec.rs` | none | encode, decode | called by save_to and load_from |
| Async handle, `src/async_db.rs` | `Arc<Iqdb>` | every call on a blocking task; close | tokio |
| Configuration, `src/config.rs`; errors, `src/error.rs` | values | builder, conversions | read by the constructors |

What is hard here:

- two representations of one map (row vector and position map; store and index;
  index and cache; memory and files) that every operation has to keep together,
  while an index call may fail after the store has changed;
- IVF is trained lazily: an untrained index holds nothing, a flag says that a
  search must build it first, and `optimize`, failures and an empty store leave
  the flag in different places;
- a search looks under a read guard, drops it, and continues under a write guard;
  under the read guard it looks in the cache and stores its answer later;
- a crash at any step of a write, a checkpoint or a load, and a replay of writes
  that the snapshot already holds, with several threads inside when it happens;
- dim and metric are kept by the handle and by its core, the kind by the file and
  by the caller's config, and each open has to reconcile them;
- a format without field tags, read from bytes that may be cut or damaged;
- blocking tasks that go on when the future that started them is gone, while
  another clone closes the database.

The properties that make each part correct: the store is a map, whichever of its
two halves is asked; the index holds each stored row once and nothing else; the
cache answers what the index would; a rebuild that is due is done; concurrent
calls are linearizable and return; a reopen recovers a state the database was in
and loses nothing promised, whichever thread it was promised to; a database keeps
the identity it was created with, and a handle serves nothing its file lacks,
whatever was refused or failed half-way; decode gives back what encode wrote and
nothing for a part of it; a close compacts what was acknowledged, and one that
consumes the database leaves no write out.
`PROJECT.json` lists the hazards line by line with the properties that cover them.

## Modules

| Module | Models |
|---|---|
| `VectorMap` | the promise of every layer: a map with atomic put, delete, get, size and search, each with its answer |
| `RowStoreOps` | store.rs as operators on `[rows, index]` |
| `RowStore` | the row store as a state machine |
| `RowStoreOrder` | `RowStore` with the order of arrival as a history variable |
| `IqdbCore` | the engine: store, index, cache, `ivf_dirty`; failing index calls; save and load |
| `IqdbHandle` | threads calling one handle, on the in-memory backend; extends `IqdbCore` |
| `Durable` | the file-backed database with crashes, called by one thread; extends `IqdbCore` |
| `MCDurable` | `Durable` with its ids and values interchangeable, for TLC |
| `DurableMap` | the promise of the file-backed handle: `VectorMap` with crashes and reopenings |
| `DurableHandle` | threads calling one file-backed handle, with crashes: `IqdbHandle` composed with `Durable` |
| `Opening` | config.rs, the constructors of handle.rs, check_dim, the errors: who decides dim, metric and kind |
| `Codec` | codec.rs: encode and decode over bytes, save, damage and load; extends `RowStoreOps` |
| `MCCodec` | the databases that TLC saves |
| `AsyncHandle` | async_db.rs: clones, blocking tasks, dropped futures, close, the runtime's shutdown |
| `RowStoreOpsProofs` | lemmas on the operators of `RowStoreOps` |
| `RowStoreProofs`, `IqdbCoreProofs`, `IqdbHandleProofs`, `DurableProofs`, `DurableHandleProofs`, `OpeningProofs`, `AsyncHandleProofs` | for each of these modules its inductive invariant and the theorems that rest on it |

How state corresponds to the code:

- A row is an id with one opaque value for vector and metadata. Positions are
  1-based. The `HashMap` is a function on its keys.
- The index is `[trained, entries]`; `entries[id]` is the *sequence* of values it
  holds for `id`, so that a row counted twice shows. A search answer is the set of
  entries it would rank: distances, `k`, filters and approximation are the family
  crates' business. Flat and HNSW behave alike, IVF alone needs training.
- The cache is `[on, results]`, a function from queries to answers. It may evict
  at any moment.
- `faults` counts failed index calls, up to `MaxFaults`; a failed call has changed
  nothing in the index. `diverged` is a history variable: the ids whose index
  entry a failed call left out of step. It loses an id when the code heals it (a
  delete, a replacement, a rebuild or a reload), which shows one thing worth
  knowing: after a failed index *delete* the id is gone from the store, so the
  next insert of it counts as new, does not clear the old entry, and the id stays
  out of step until it is replaced or deleted again or the index is rebuilt.
- `ret` is the answer of the latest call, with `newly` and `existed` shown also
  where the caller gets neither, so that they can be compared with the map.
- In `IqdbHandle` each call is cut wherever another thread can run: taking a
  guard, the store step, the index step, the look into the cache, the search of
  the index, the store of its answer, the drop of the guard. A batch takes and
  drops a guard for each query, and a query of the wrong dimensionality ends it.
  `committed` is the map at the latest release of the write guard; `ret` is set
  when a guard is dropped.
- In `Durable`, `snap`, `wal` and `synced` are the files; `phase` is where the
  process is. `past` is the history that recovery is measured by: the maps a crash
  may bring back, the first being what was promised. A snapshot keeps the length
  that `IndexCore::len` gave, which load compares with what it loaded. What the
  files denote (`FilesMap`) is defined without replaying them: an id has the value
  of its last write in the log, or else of its row in the snapshot. A handle may be
  closed, dropped without close (`Abandon`), or crash.
- `DurableHandle` keeps the variables of both modules. A write has a log step before
  its store step; flush has a snapshot step and a log step; all of them need the
  write guard, and nothing but the guard keeps those of two threads apart. close
  takes the handle by value, so it begins when no thread is inside. A crash ends
  every call.
- In `Opening` a row is its dimensionality and a file its identity with its rows.
  `result` is the variant of `Error` the latest call returned. Each builder method
  is an action, so a config may be changed and used again between sessions. An
  upsert that passes check_dim has every outcome the code allows: stored, stored with
  an error from the index, logged and stored with either, or an append that fails
  before anything is applied.
- In `Codec` a payload is a sequence of digits below `Base`, integers are
  little-endian, and the widths 1, 4 and 8 bytes become 1, `W32` and `W64` digits.
  A reader is a function from the input to a value and the rest of the input, or to
  a failure; `Then` is the `?` between two reads. What follows the last row is not
  looked at, as in the code. A damage happens below the codec; in the program the
  frame of `iqdb-persist` would catch most of it first, but decode does not rely on
  that (its comment calls length fields untrusted), so neither does the model.
  `Encodable` is what `encode` checks: that the metric has a tag, and each length
  before it is written. Some of the databases have an id, a key, a string or a
  metadata map of exactly the length its field can count, some of one more, and one
  has a metric without a tag; a save of the latter two is refused.
- In `AsyncHandle` the Iqdb is a count of writes and of those in the snapshot, and
  its calls are atomic; what is modelled is who holds an `Arc` and when. An upsert or
  a checkpoint may fail before its effect (`Fails`) or after it (the `ok` of
  `RunUpsert` and `Checkpoint`). `acked` is
  a history variable: the latest write whose call has returned Ok to its caller. A
  shutdown of the runtime drops the tasks that have not begun, with their Arcs, and
  those spawned later; the awaiting caller gets the `JoinError`.

## Runs

| Run | Bounds | Shows |
|---|---|---|
| `rowstore` | 4 ids, 2 values | `TypeOK`, `IndexMatchesRows`, `ImplementsMap`, `UpsertKeepsOrder` |
| `rowstore_order` | 3 ids, 1 value | **violated**: `InsertionOrdered`, see below |
| `core` | 3 ids, 2 values, 2 queries, all kinds, no faults | `CoreTypeOK`, `ReloadRestoresStore`, `CoreImplementsMap` |
| `core_faults` | 2 ids, 2 values, 1 query, HNSW and IVF, 3 faults | `IndexInStep`, `CacheNeverStale`, `RebuildCompletes` |
| `core_ivf_lifecycle` | 2 ids, IVF | **violated**: `IvfWritesDefer`, see below |
| `handle` | 3 threads, 4 calls, batches of 2, 2 ids, no faults | `SearchesReadyIndex`, `Linearizable` |
| `handle_faults` | 2 threads, 3 calls, batches of 2, 2 ids, 1 fault | `InStepBetweenWrites`, `CallsReturn` |
| `durable` | 2 ids, 2 values, 3 writes, 2 crashes, 1 fault, both policies | `RecoversPromised`, `FilesDenoteMap`, `LoadedInStep`, `WholeFilesOpen` |
| `durable_handle` | 2 threads, 3 calls, 2 crashes, 2 ids, both policies, no faults | `DurablyLinearizable` |
| `opening` | dims 0, 1, 2; 2 metrics; flat, IVF and IVF-PQ; a compression that is compiled in and one that is not; any number of sessions | `OpenHandleSound`, `FileOpens`, `HandleServesFile`, `IdentityStable` |
| `codec` | 119 databases of at most 2 rows with every kind, metric, id form, metadata form and value type, with ids, keys, strings and metadata maps at and over the limit of their length field, and one metric without a tag; one damage in a behaviour, at every offset and every byte value; Base 6, widths 1, 2, 3 | `RoundTrip`, `PrefixRejected`, `AcceptedIsWellFormed` |
| `async_handle` | 2 clients, 3 blocking tasks, 3 calls, any number of clones and drops, one shutdown | `CloseCoversWrites`, `ClosedHoldsAllWrites`, `IqdbReleased` |

Why the bounds are enough: four ids give every position of the removed row and of
the moved one, with a bystander on either side; a replacement that fails, a
rebuild that fails and a retry need three faults; a search that waits for the
write guard while one thread empties or fills the store and another builds the
index needs three threads and, with an upsert to begin with, four calls; a
deadlock between two searches after an upsert needs two threads and three calls; a
write, a checkpoint cut short, a write after it and a crash during the replay need
three writes and two crashes; a write of one thread between the two halves of
another's flush, and a read that tells, need two threads and three calls; a close
that shares the Iqdb with another close and with a detached write needs two clients
and three tasks. In the codec every reader is reached with too little input,
with every tag, and with a length that is too short or too long; two rows show a
shifted frame. `handle` and `durable_handle` have no faults because after a failed
index call a search no longer answers what the map holds, so neither refinement
claims anything; what holds then is `FilesDenoteMap` and, outside the ids of the
failed calls, `InStepBetweenWrites`. `WholeFilesOpen` is about steps: a load fails
only in a step in which an index call fails, also in a session after earlier faults.
Only the run `durable` uses symmetry, of the ids and of the values, which the model
compares for equality and nothing else; its properties are safety properties. The store and engine runs have no bound on the length of a
behaviour.

The mutants in `PROJECT.json` are slips in the code's own steps (an entry not
repointed, a cache kept over a delete, a re-check left out, a guard kept, a log
reset without a snapshot, ...); each is defined beside the operator it imitates.
For each property one of them is caught.

### Findings

`rowstore_order`: the module comment of store.rs says that insertion order is
preserved; `remove` uses `swap_remove`, so after upserts of i1, i2, i3 and a
removal of i1 the rows stand as i3, i2, and a save, a load or an IVF rebuild
replays them in this order. The order is still a deterministic function of the
calls; what is broken is only that it is insertion order.

`core_ivf_lifecycle`: the module comment of engine/mod.rs says that IVF inserts only
touch the store and set a dirty flag, and that the index is (re)built the first time
a search needs it. This is so until the index is trained. An upsert, a search and
another upsert show that the second one goes straight into the trained index and
marks nothing, so the centroids are not recomputed until `optimize` or a reload.

### Fairness

`CallsReturn` assumes weak fairness of each thread's steps inside a call: the
operating system runs every runnable thread and the code has no wait but the lock.
Calls in a behaviour are bounded by `MaxCalls`, so the claim is freedom from
deadlock and from calls that hold a guard for ever, not freedom from starvation
under an endless stream of other calls (which depends on the `RwLock`'s policy).
No thread has to begin a call.

`RebuildCompletes` assumes weak fairness of `EnsureReady`: searches keep coming, as
long as the flag is set, and each runs `ensure_ready` under the write guard. The
faults are finitely many, so the claim is that no failed rebuild loses the flag and
no successful one leaves it set, and that neither writes, deletes to an empty store,
nor `optimize` get in between. The property excuses the empty store, which
`materialize` leaves marked.

`IqdbReleased` assumes weak fairness of each blocking task: tokio's pool runs every
task it has begun to its end, and begins every task it was given unless the runtime
shuts down, which is modelled. No client has to do anything: the property starts
when the last clone is gone.

### What is assumed of the external crates

- Index crates: an insert adds an entry, a delete removes the id's entries or
  reports `NotFound`, an error leaves the index unchanged. `train` and the bulk
  load of a new index either succeed or leave it to be dropped.
- `iqdb-cache`: every mutation passed through drops the results; a result is
  stored as the index gave it. It has a lock of its own, taken once to look and once
  to store, so that two searches may both miss.
- `iqdb-persist`: a write is logged, synced under `Always`, then applied; a torn
  tail is cut at load; load replays the log through `insert` and `delete`; a
  checkpoint syncs the log, replaces the snapshot atomically and then resets the
  log. That the log is synced before the snapshot is replaced matters under the
  policy Never: otherwise a crash between snapshot and reset could keep a shorter
  log than the snapshot covers, and its replay would take some ids back.
- A create or an append that fails may have had its effect on the file or not
  (`Opening`). `Durable` has no failing append: a record it left behind would be one
  more write that no one was promised, and would make the files denote more than the
  handle serves, which is why `HandleServesFile` is an inclusion.
- A compression that is not compiled in is refused when the file is opened or
  created, before anything is written. The length in the header is compared after
  the snapshot is loaded and before the replay.
- tokio: a shutdown drops the closures of blocking tasks that have not begun and of
  those spawned afterwards; one that has begun runs on; dropping a `JoinHandle`
  stops nothing.
- `FsyncPolicy::Periodic` loses less than `Never` and more than `Always`.

## Proofs

Checked by tlapm for every value of the constants: any sets of ids, values, queries,
threads, clients and metrics, any number of calls, writes, crashes and faults. Each
inductive invariant was an invariant of a TLC run on the component's own
configuration before it was proved.

**Row store.** `PositionsAlwaysMatch` and `StoreAlwaysTyped` come from one induction,
`StoreAlwaysSound`, since neither is inductive alone: where the rows end up depends on
the entries being in range, and the reverse. `SwapRemoveProperties`, `UpsertSound` and
`RemoveSound` carry the argument. `UpsertsKeepOrder` follows from the same invariant: a
replacement writes at the position of its own id. `StoreImplementsMap`
(`Spec => ImplementsMap`): on a sound store a scan for an id and a lookup through the
position map find the same row (`ScanIsLookup`), so an upsert or a removal changes the
denoted map at one id (`UpsertMap`, `RemoveMap`), and the length is the number of
stored ids (`LenCountsIds`, a bijection between positions and ids).

**Engine.** `EngineInv` is `CoreTypeOK`, `IndexInStep`, `CacheNeverStale` and soundness
of the store, without which what the store "holds" for an id after an upsert says
nothing, and a reload need not give back the same store (`LoadedIsSaved`). It is taken
apart into what is right for an index (`IndexOK`) and for a cache (`CacheOK`); the
lemmas on the store half and on the index half of insert and delete are separate,
because the handle runs them as two steps. `EngineTyped`, `IndexFollowsStore` and
`CacheAlwaysFresh` are its parts. `ReloadsRestoreStore`: the ids of a sound store are
distinct, so each upsert of the loop in load_from is a push, and the prefix loaded
grows by one row (`LoadedPositions`). `EngineImplementsMap` (with `MaxFaults = 0`):
with no diverged id (`NoFaultNoDivergence`) a search answers the rows of the map,
through cache and index (`HitsAreTheMap`); training, rebuilds, evictions and reloads
stutter.

**Handle.** `HandleInv` has five parts: who holds which guard follows from where the
threads are, and a writer excludes everyone (`GuardsOK`); a thread inside a call has
a call of the sort its place asks for (`CallsOK`); `EngineInv` holds whenever no thread
stands between the store step and the index step of a write, and between them the
index is right for all ids but the one being written (`EngineOK`, `HalfWritten`); what
a search has found is still what the index would answer (`FoundIsCurrent`); and
`SearchesReadyIndex` itself. `SearchesAreReady` and `ReadersSeeWholeWrites` follow,
with any number of faults (the latter for all ids but those of failed index calls,
as `IndexInStep` has it). `HandleIsLinearizable` (with `MaxFaults = 0`,
`HandleSpec => Linearizable`) needs `LinInv` as well: the store is the committed map
with the pending write of the one thread that holds the write guard applied, and an
answer that waits for its guard to be dropped is the committed map's answer. The drop
of the guard is then the step of the abstract map, all other steps stutter.

**Durable storage.** `DurableInv` says which map each length of the log denotes. The
history ends with the map of every log a crash may leave (`HistoryOK`: the k-th map
from the end is what the snapshot and all but the last k records denote, for the
unsynced k); the store is as far along the log as the process is (`StoreFollowsLog`:
the whole log when open, all but the last record between logging and applying, the
first `cursor - 1` records in a replay); the snapshot is one that a sound store wrote
(`SnapshotOK`); a loaded engine satisfies `EngineInv`. The heart of it is
`ReplayIsIdempotent`: a log replayed over a snapshot that already holds its writes
denotes the same map, which is why a crash between the two halves of a checkpoint does
no harm. From it: `OpenRecoversPromised`, `FilesHoldServedMap` and
`LoadedStaysInStep`. `FilesOpen` is an action property from the same invariant:
`SnapshotOK` makes the header agree with the rows at every load, and a record's replay
fails only with an index call of its own.

**Handle on files.** `HandleIsDurablyLinearizable` (with `MaxFaults = 0`,
`DHSpec => DurablyLinearizable`): threads, crashes and files at once. While calls are
served its invariant `DHInv` is the handle's (`HandleInv`, `LinInv`) and the files'
(`FilesTyped`, `SnapshotOK`, `HistoryOK`), tied by `ThreadsFollowLog`, which puts the
place of the thread with the write guard where `Durable` has the phase of its one
caller: the store is at the end of the log but for a record some thread has logged and
not applied; under Always a write under way is already synced; between the two halves
of a flush the snapshot holds what the log does. At other times nobody is inside and
`DurableInv` holds. The proof reuses the two earlier ones: a step of `IqdbHandle` keeps
the files' part because it leaves the files alone, a step of `Durable` keeps the
handle's part because it leaves the engine alone (`FileStep`), and only the log step,
the store step and the two halves of a flush touch what ties them. `DHInvariant` is
the induction. The steps then map as follows: the log step of a write announces the map
it leads to; the drop of the guard is the write, or the read with its answer; the log
reset of a flush keeps the latest map alone; an open that has replayed its log brings
back the latest map of the history; the end of a handle shuts the map, a crash crashes
it, and a load shows nothing but the policy its caller chose. All other steps stutter.

**Constructors.** `OpeningInv`: an open handle agrees with its core and its index can
be built (`HandleOK`), the same for a file (`FileOK`), and a file-backed handle serves
the identity of its file and only rows the file has (`Serves`). With the last part a
checkpoint writes over the file an identity that is there already
(`FileKeepsIdentity`), and check_dim's test of the handle's dim is one of the file's
(`HandlesAreSound`, `FilesCanBeOpened`); `HandlesServeTheirFiles` is the last part
itself, which holds because an upsert stores nothing before it is logged and a failed
append, create or checkpoint takes no row away.

**Async handle.** `AsyncInv`: a task that has not started has its Arc; a checkpoint
that has succeeded covers what was acknowledged when it was called (`TaskOK`);
acknowledged and saved writes are among those made; an Iqdb that is not live has no
owner; and one that a close consumed and checkpointed has all its writes saved. The
last part rests on the one before: a task that could still write would be an owner.
`LastIsTask` and `LastIsClone` turn a strong count of one into "no one else". From it:
`ClosesLeaveNothingOut` and `ClosesCoverWrites`.

The assumptions are those named in the modules, which TLC evaluates in every run:
`Absent` is not a value; the kinds are among the three, the policies among the two; the
bounds are natural numbers; there is a client, and clients and blocking tasks are
finitely many; and the markers are none of the things they stand beside (`NoThread` no
thread, `NoFile` no snapshot, `NoTask` no task). The refinements of the
engine and of the two handles assume `MaxFaults = 0`: after a failed index call a
search may not answer what the map holds, which the invariants with faults describe.

Only model-checked:

- `RebuildCompletes`, `CallsReturn` and `IqdbReleased`: liveness under fairness is out
  of the prover's reach.
- `RoundTrip`, `PrefixRejected` and `AcceptedIsWellFormed`: what the codec computes for
  every input is an induction over rows, entries and bytes, through folds and recursive
  functions that the provers cannot unfold. (`DurableProofs` needs the last write of a
  log, and gets it from the well-foundedness of `<` on the naturals, `LeastNat`; that
  works for a property of one number, not for a recursive definition.)

## Not modelled

- Distances, ranking, `k`, filters, recall: the family crates.
- Metadata as such, cache statistics, `Debug`, the wording of errors, re-exports,
  the tuning numbers that are passed on to the family crates.
- Two handles, or two processes, on one path: what `iqdb-persist` does then is not
  visible from this code, whose documentation calls the database single-process.
- A `usize` narrower than 64 bits, and errors of the writer that `encode` is given.
- The log's format, damage to the files below the codec, and, with crashes, I/O errors
  other than a checkpoint that fails between its two steps (`iqdb-persist`).
- The error `get` returns for a stored vector that fails `Vector::new`: every row went
  through `Vector::new` or the checks of the codec before it was stored.
- Empty `Bytes` keys in a database that is saved: `VectorId` promises that there are
  none, and decode lets none in (`AcceptedIsWellFormed`).
- What the index crates refuse for good: a write is logged before the index sees it,
  so a record that could never be applied would fail every later open.

## Plan

1. Done: the store, the engine, the handle, durable storage, their composition, the
   constructors, the codec, the async handle; the theorems above.
2. Done: the refinement of `DurableMap` by the handle on files, the last safety
   property outside the codec that only TLC had checked.
3. Open: what of the codec can be stated without recursion (reading back one field
   that was written; that a reader never returns more input than it was given), and
   the refinements with faults, against an abstract map whose searches may be wrong
   about the diverged ids.
