------------------------------ MODULE IqdbCore ------------------------------
(***************************************************************************)
(* The engine of src/engine/mod.rs: the authoritative row store, the       *)
(* search index derived from it (src/engine/index.rs) and the optional     *)
(* result cache in front of the index.                                     *)
(*                                                                         *)
(* The index is the values it holds for each id, so a value it holds twice *)
(* shows; what a search ranks is a function of these entries and of the    *)
(* query, so an answer is represented by the entries themselves.  Distance *)
(* and the order of equally near rows are left out.  The family crates     *)
(* behind AnyIndex and CachedIndex are external: an insert adds an entry   *)
(* (a second one if the id is already there, the double count the code     *)
(* guards against), a delete removes the id's entries, any call may return *)
(* an error, at most MaxFaults times, and then it has changed nothing.     *)
(* Flat and HNSW differ in nothing the engine sees; IVF alone needs        *)
(* training.                                                               *)
(*                                                                         *)
(* The operators that stand for parts of a method (StoreStep, IndexStep)   *)
(* are separate because the handle and the durable store interleave them   *)
(* with steps of other threads and with crashes.                           *)
(***************************************************************************)
EXTENDS RowStoreOps

CONSTANTS Ids, Vals, Absent,
          Queries,   \* cache keys: a query with its parameters
          Kinds,     \* the index kinds a database may be opened with
          MaxFaults  \* bound: how many index calls may fail in a behaviour

ASSUME CoreAssumption == /\ Absent \notin Vals
                         /\ Kinds \subseteq {"flat", "hnsw", "ivf"}
                         /\ MaxFaults \in Nat

VARIABLES kind,       \* IqdbCore.kind
          store,      \* IqdbCore.store
          index,      \* the AnyIndex: [trained, entries]
          cache,      \* the CacheLayer: [on, results]
          cache_cfg,  \* whether a cache is configured
          ivf_dirty,  \* IqdbCore.ivf_dirty
          faults,     \* how many index calls have failed
          diverged,   \* history: ids a failed index call left out of step
          ret         \* what the latest call returned

engineVars == <<kind, store, index, cache, cache_cfg, ivf_dirty, diverged>>
coreVars == <<engineVars, faults, ret>>

\* Whether the index calls of a step succeed.
Outcome(ok) == /\ ok \/ faults < MaxFaults
               /\ faults' = IF ok THEN faults ELSE faults + 1

-----------------------------------------------------------------------------
(* The derived index. *)

\* AnyIndex::new: empty, and for IVF untrained
NewIndex == [trained |-> FALSE, entries |-> [id \in Ids |-> <<>>]]

NeedsTraining(k, ix) == k = "ivf" /\ ~ix.trained

IndexInsert(ix, id, val) ==
  [trained |-> ix.trained,
   entries |-> [ix.entries EXCEPT ![id] = Append(ix.entries[id], val)]]

\* Removing an absent id is the NotFound the engine ignores.
IndexDelete(ix, id) == [trained |-> ix.trained,
                        entries |-> [ix.entries EXCEPT ![id] = <<>>]]

\* What the store holds for an id, as the entries an index should have.
RowsOf(st, id) == IF StoreContains(st, id) THEN <<StoreGet(st, id).val>> ELSE <<>>

\* AnyIndex::new, train and build_into: one entry for each row of the store
BuiltIndex(k, st) == [trained |-> k = "ivf",
                      entries |-> [id \in Ids |-> RowsOf(st, id)]]

(* The result cache. *)

NoResults == [q \in {} |-> NewIndex.entries]

\* CacheLayer::wrap: a fresh cache if one is configured
Wrap(cfg) == [on |-> cfg, results |-> NoResults]

\* CachedIndex drops every result when it passes on a mutation
Invalidated(c) == [on |-> c.on, results |-> NoResults]

-----------------------------------------------------------------------------
(* Index::new *)
CoreInit ==
  /\ kind \in Kinds
  /\ store = EmptyStore
  /\ index = NewIndex
  /\ cache_cfg \in BOOLEAN
  /\ cache = Wrap(cache_cfg)
  /\ ivf_dirty = NeedsTraining(kind, index)
  /\ faults = 0
  /\ diverged = {}
  /\ ret = [op |-> "open"]

(***************************************************************************)
(* IndexCore::insert.  The store takes the row first.  An untrained IVF    *)
(* keeps the data there and is marked dirty; otherwise the index follows:  *)
(* a replaced row is dropped from it and the new one inserted.  An index   *)
(* error is returned with the store already changed; the id stays out of   *)
(* step until a call that drops its entry or a rebuild.  `ret` shows the   *)
(* local `newly`, which the caller does not get, so that it can be checked *)
(* against the map; likewise the handle's `existed` is shown by Delete.    *)
(***************************************************************************)
InsertStoreStep(id, val) == store' = StoreUpsert(store, id, val)

InsertDeferred == /\ NeedsTraining(kind, index)
                  /\ ivf_dirty' = TRUE
                  /\ UNCHANGED <<index, cache, diverged>>

\* The index call that failed: the delete of the replaced row or the insert.
InsertFailed(newly, id) ==
  /\ diverged' = diverged \cup {id}
  /\ UNCHANGED ivf_dirty
  /\ \/ /\ ~newly
        /\ UNCHANGED <<index, cache>>
     \/ /\ index' = IF newly THEN index ELSE IndexDelete(index, id)
        /\ cache' = IF newly THEN cache ELSE Invalidated(cache)

\* Slips: a replaced row stays in the index beside the new one; a deleted row
\* stays in the index; a deletion leaves the cached results in place.
InsertApplied_KeepsOld(newly, id, val) ==
  /\ index' = IndexInsert(index, id, val)
  /\ cache' = Invalidated(cache)
  /\ diverged' = IF newly THEN diverged ELSE diverged \ {id}
  /\ UNCHANGED ivf_dirty
DeleteApplied_KeepsEntry(id) ==
  /\ diverged' = diverged \ {id}
  /\ UNCHANGED <<index, cache, ivf_dirty>>
DeleteApplied_KeepsCache(id) ==
  /\ index' = IndexDelete(index, id)
  /\ diverged' = diverged \ {id}
  /\ UNCHANGED <<cache, ivf_dirty>>

InsertApplied(newly, id, val) ==
  /\ index' = IndexInsert(IF newly THEN index ELSE IndexDelete(index, id), id, val)
  /\ cache' = Invalidated(cache)
  /\ diverged' = IF newly THEN diverged ELSE diverged \ {id}
  /\ UNCHANGED ivf_dirty

InsertIndexStep(newly, id, val, ok) ==
  \/ ok /\ InsertDeferred
  \/ ok /\ ~NeedsTraining(kind, index) /\ InsertApplied(newly, id, val)
  \/ ~ok /\ ~NeedsTraining(kind, index) /\ InsertFailed(newly, id)

Insert(id, val) ==
  LET newly == ~StoreContains(store, id)
  IN  \E ok \in BOOLEAN :
        /\ Outcome(ok)
        /\ InsertStoreStep(id, val)
        /\ InsertIndexStep(newly, id, val, ok)
        /\ ret' = IF ok THEN [op |-> "upsert", id |-> id, newly |-> newly]
                        ELSE [op |-> "error"]
        /\ UNCHANGED <<kind, cache_cfg>>

(***************************************************************************)
(* IndexCore::delete.                                                      *)
(***************************************************************************)
DeleteStoreStep(id) == store' = StoreRemove(store, id)

DeleteApplied(id) ==
  /\ index' = IndexDelete(index, id)
  /\ cache' = Invalidated(cache)
  /\ diverged' = diverged \ {id}
  /\ UNCHANGED ivf_dirty

DeleteIndexStep(id, ok) ==
  \/ ok /\ InsertDeferred
  \/ ok /\ ~NeedsTraining(kind, index) /\ DeleteApplied(id)
  \/ /\ ~ok /\ ~NeedsTraining(kind, index)
     /\ diverged' = diverged \cup {id}
     /\ UNCHANGED <<index, cache, ivf_dirty>>

Delete(id) ==
  \E ok \in BOOLEAN :
    /\ Outcome(ok)
    /\ DeleteStoreStep(id)
    /\ DeleteIndexStep(id, ok)
    /\ ret' = IF ok THEN [op |-> "delete", id |-> id,
                          existed |-> StoreContains(store, id)]
                    ELSE [op |-> "error"]
    /\ UNCHANGED <<kind, cache_cfg>>

(***************************************************************************)
(* ensure_ready, for a given value of the dirty flag.  The new index       *)
(* replaces the old one only when training and the bulk load succeeded;    *)
(* otherwise the old index and the flag stay and the next search retries.  *)
(* The first form is a slip: a rebuild that leaves the flag set.           *)
(***************************************************************************)
Materialize_KeepsFlag(dirty, ok) ==
  \/ /\ ok
     /\ ~dirty \/ StoreIsEmpty(store)
     /\ ivf_dirty' = dirty
     /\ UNCHANGED <<index, cache, diverged>>
  \/ /\ ok
     /\ dirty /\ ~StoreIsEmpty(store)
     /\ index' = BuiltIndex(kind, store)
     /\ cache' = Wrap(cache_cfg)
     /\ ivf_dirty' = dirty
     /\ diverged' = {}
  \/ /\ ~ok
     /\ dirty /\ ~StoreIsEmpty(store)
     /\ ivf_dirty' = dirty
     /\ UNCHANGED <<index, cache, diverged>>

Materialize(dirty, ok) ==
  \/ /\ ok
     /\ ~dirty \/ StoreIsEmpty(store)
     /\ ivf_dirty' = dirty
     /\ UNCHANGED <<index, cache, diverged>>
  \/ /\ ok
     /\ dirty /\ ~StoreIsEmpty(store)
     /\ index' = BuiltIndex(kind, store)
     /\ cache' = Wrap(cache_cfg)
     /\ ivf_dirty' = FALSE
     /\ diverged' = {}
  \/ /\ ~ok
     /\ dirty /\ ~StoreIsEmpty(store)
     /\ ivf_dirty' = dirty
     /\ UNCHANGED <<index, cache, diverged>>

MaterializeCall(dirty) ==
  \E ok \in BOOLEAN :
    /\ Outcome(ok)
    /\ Materialize(dirty, ok)
    /\ ret' = IF ok THEN ret ELSE [op |-> "error"]
    /\ UNCHANGED <<kind, store, cache_cfg>>

EnsureReady == MaterializeCall(ivf_dirty)

\* A slip in optimize: every kind is marked dirty.
Optimize_AnyKind == MaterializeCall(TRUE)

\* optimize: IVF is marked dirty and rebuilt, the other kinds left alone
Optimize == MaterializeCall(ivf_dirty \/ kind = "ivf")

(***************************************************************************)
(* search: through the cache, which answers a query it holds and otherwise *)
(* stores what the index answers.  The handle calls it on a non-empty      *)
(* store whose index needs no materialization.                             *)
(***************************************************************************)
Answer(q) == IF cache.on /\ q \in DOMAIN cache.results THEN cache.results[q]
                                                      ELSE index.entries

Remembered(q) == IF cache.on
                 THEN [on |-> TRUE, results |-> MapInsert(cache.results, q, Answer(q))]
                 ELSE cache

Hits(entries) ==
  {hit \in Ids \X Vals : \E i \in 1 .. Len(entries[hit[1]]) : entries[hit[1]][i] = hit[2]}

Search(q) ==
  /\ ~StoreIsEmpty(store) /\ ~ivf_dirty
  /\ ret' = [op |-> "search", hits |-> Hits(Answer(q))]
  /\ cache' = Remembered(q)
  /\ UNCHANGED <<kind, store, index, cache_cfg, ivf_dirty, faults, diverged>>

\* The cache drops a result at its capacity or its time to live.
Evict(q) ==
  /\ q \in DOMAIN cache.results
  /\ cache' = [on |-> cache.on, results |-> MapRemove(cache.results, q)]
  /\ UNCHANGED <<kind, store, index, cache_cfg, ivf_dirty, faults, diverged, ret>>

\* get_row and len read the store alone.
GetRow(id) ==
  /\ ret' = [op |-> "get", id |-> id,
             row |-> IF StoreContains(store, id) THEN StoreGet(store, id).val
                                                 ELSE Absent]
  /\ UNCHANGED <<engineVars, faults>>

CoreLen == /\ ret' = [op |-> "len", n |-> StoreLen(store)]
           /\ UNCHANGED <<engineVars, faults>>

\* set_cache: the index is taken out of its old cache and wrapped anew.
SetCache(cfg) == /\ cache_cfg' = cfg
                 /\ cache' = Wrap(cfg)

(***************************************************************************)
(* load_from: the decoded rows are upserted into a new store one by one,   *)
(* which for the distinct ids of a saved store gives row p position p;     *)
(* IVF is left untrained and dirty, the other kinds are bulk-loaded.  The  *)
(* handle then applies the cache it was asked for (set_cache).             *)
(***************************************************************************)

\* Slips in load_from: positions counted from zero; an untrained IVF that is
\* not marked for the first search.
LoadedStore_FromZero(rows) ==
  [rows  |-> rows,
   index |-> [x \in {rows[p].id : p \in 1 .. Len(rows)} |->
                (CHOOSE p \in 1 .. Len(rows) : rows[p].id = x) - 1]]

LoadedStore(rows) ==
  [rows  |-> rows,
   index |-> [x \in {rows[p].id : p \in 1 .. Len(rows)} |->
                CHOOSE p \in 1 .. Len(rows) : rows[p].id = x]]

LoadFrom_NotDirty(k, rows, cfg) ==
  /\ kind' = k
  /\ store' = LoadedStore(rows)
  /\ index' = IF NeedsTraining(k, NewIndex) THEN NewIndex ELSE BuiltIndex(k, LoadedStore(rows))
  /\ ivf_dirty' = FALSE
  /\ SetCache(cfg)
  /\ diverged' = {}

LoadFrom(k, rows, cfg) ==
  /\ kind' = k
  /\ store' = LoadedStore(rows)
  /\ index' = IF NeedsTraining(k, NewIndex) THEN NewIndex ELSE BuiltIndex(k, LoadedStore(rows))
  /\ ivf_dirty' = NeedsTraining(k, NewIndex)
  /\ SetCache(cfg)
  /\ diverged' = {}

\* A save_to and a load_from of what it wrote: a reopen with an empty log.
Reload(cfg) == LoadFrom(kind, store.rows, cfg) /\ UNCHANGED <<faults, ret>>

CoreNext ==
  \/ \E id \in Ids, val \in Vals : Insert(id, val)
  \/ \E id \in Ids : Delete(id)
  \/ EnsureReady
  \/ Optimize
  \/ \E q \in Queries : Search(q)
  \/ \E q \in Queries : Evict(q)
  \/ \E id \in Ids : GetRow(id)
  \/ CoreLen
  \/ \E cfg \in BOOLEAN : Reload(cfg)

CoreSpec == CoreInit /\ [][CoreNext]_coreVars

\* Searches keep coming, and each one on a dirty database calls ensure_ready.
LiveCoreSpec == CoreSpec /\ WF_coreVars(EnsureReady)

-----------------------------------------------------------------------------
(***************************************************************************)
(* Types, and the two shapes the fields' comments promise: the dirty flag  *)
(* is never set for flat and HNSW, and the cache layer is the configured   *)
(* one.                                                                    *)
(***************************************************************************)
CoreTypeOK ==
  /\ kind \in Kinds
  /\ StoreType(store, Ids, Vals)
  /\ index \in [trained : BOOLEAN, entries : [Ids -> Seq(Vals)]]
  /\ cache_cfg \in BOOLEAN
  /\ cache \in [on : {cache_cfg},
                results : [DOMAIN cache.results -> [Ids -> Seq(Vals)]]]
  /\ DOMAIN cache.results \subseteq Queries
  /\ ~cache.on => DOMAIN cache.results = {}
  /\ ivf_dirty \in BOOLEAN
  /\ ivf_dirty => kind = "ivf"
  /\ diverged \subseteq Ids
  /\ faults \in 0 .. MaxFaults

(***************************************************************************)
(* "Keep the index in step with the store" (insert): an index that needs   *)
(* no training holds exactly one entry for each stored row, with the row's *)
(* current value, and none for a deleted one, except for the ids a failed  *)
(* index call left behind; this holds through replaced rows, rebuilds,     *)
(* retries and reloads, dirty or not.  An untrained IVF is empty and       *)
(* dirty, so no search reads it.                                           *)
(***************************************************************************)
IndexInStep ==
  IF NeedsTraining(kind, index)
  THEN index = NewIndex /\ ivf_dirty
  ELSE \A id \in Ids \ diverged : index.entries[id] = RowsOf(store, id)

(***************************************************************************)
(* "The cache invalidates on every mutation, so it never serves a stale    *)
(* result" (CacheLayer): what the cache would answer is what the index     *)
(* would answer now, also after a rebuild under the cache and after a      *)
(* mutation of which only the first index call succeeded.                  *)
(***************************************************************************)
CacheNeverStale ==
  \A q \in DOMAIN cache.results : cache.results[q] = index.entries

(***************************************************************************)
(* Loading what was saved gives back the very same store, whatever         *)
(* replacements and swap_removes led to it: starting from an empty store,  *)
(* each upsert of load_from's loop takes what is loaded of the first rows  *)
(* to what is loaded of one more, as a push and never as a replacement,    *)
(* and the end of the loop is the store that was saved.                    *)
(***************************************************************************)
ReloadRestoresStore ==
  LET loaded(n) == LoadedStore(SubSeq(store.rows, 1, n))
  IN  /\ loaded(0) = EmptyStore
      /\ \A n \in 1 .. Len(store.rows) :
           /\ ~StoreContains(loaded(n - 1), store.rows[n].id)
           /\ loaded(n) = StoreUpsert(loaded(n - 1), store.rows[n].id,
                                      store.rows[n].val)
      /\ loaded(Len(store.rows)) = store

(***************************************************************************)
(* A failed training is retried until it succeeds: a database that is      *)
(* marked for a rebuild does not stay so, however optimize, writes and     *)
(* failed rebuilds (finitely many) are mixed, and searches get back to the *)
(* fast path; only the loss of all rows ends the need for a rebuild.       *)
(***************************************************************************)
RebuildCompletes ==
  (ivf_dirty /\ ~StoreIsEmpty(store)) ~> (~ivf_dirty \/ StoreIsEmpty(store))

(***************************************************************************)
(* What the module comment of mod.rs says of IVF: "inserts only touch the  *)
(* store and set a dirty flag".  An insert into a trained IVF goes into    *)
(* the index at once and sets no flag, so this does not hold.              *)
(***************************************************************************)
IvfWritesDefer ==
  [][kind = "ivf" /\ store' # store /\ ret'.op = "upsert"
       => ivf_dirty' /\ index' = index]_coreVars

\* The map the rows of the store denote at this moment.
StoreMap == RowsMap(store.rows, Ids, Absent)

Map == INSTANCE VectorMap WITH map <- RowsMap(store.rows, Ids, Absent)

(***************************************************************************)
(* With no index faults the engine implements the abstract map: searches   *)
(* answered through the cache, the derived index and its lazy rebuilds     *)
(* show exactly the stored rows, and neither a rebuild nor a reload        *)
(* changes the map.                                                        *)
(***************************************************************************)
CoreImplementsMap == Map!Spec

=============================================================================
