--------------------------- MODULE IqdbCoreProofs ---------------------------
(***************************************************************************)
(* Proofs about the engine, for every set of ids, values, queries and      *)
(* kinds and any number of index faults: the derived index stays in step   *)
(* with the store and the cache with the index.                            *)
(***************************************************************************)
EXTENDS IqdbCore, RowStoreOpsProofs

\* What the store must satisfy for its lookups to mean anything.
StoreOK == StoreType(store, Ids, Vals) /\ StoreSound(store)

\* The inductive invariant.
EngineInv == CoreTypeOK /\ StoreSound(store) /\ IndexInStep /\ CacheNeverStale

Entries == [Ids -> Seq(Vals)]

(***************************************************************************)
(* The empty store is well typed, sound, and holds nothing.                *)
(***************************************************************************)
LEMMA EmptyStoreSound ==
  /\ StoreType(EmptyStore, Ids, Vals)
  /\ StoreSound(EmptyStore)
  /\ \A id \in Ids : RowsOf(EmptyStore, id) = <<>>
<1>1. /\ EmptyStore.rows = <<>>
      /\ EmptyStore.index = [x \in {} |-> 0]
      /\ EmptyStore = [rows |-> EmptyStore.rows, index |-> EmptyStore.index]
  BY DEF EmptyStore
<1>2. Len(EmptyStore.rows) = 0 /\ EmptyStore.rows \in Seq([id : Ids, val : Vals])
  BY <1>1
<1>3. EmptyStore.index \in [{} -> Nat] /\ DOMAIN EmptyStore.index = {}
  BY <1>1
<1>4. StoreType(EmptyStore, Ids, Vals)
  BY <1>1, <1>2, <1>3 DEF StoreType
<1>5. StoreSound(EmptyStore)
  BY <1>2, <1>3 DEF StoreSound
<1> QED
  BY <1>3, <1>4, <1>5 DEF RowsOf, StoreContains

(***************************************************************************)
(* What the store holds for an id, as index entries, after an upsert and   *)
(* after a remove.                                                         *)
(***************************************************************************)
LEMMA RowsOfUpsert ==
  ASSUME NEW st, StoreType(st, Ids, Vals), StoreSound(st),
         NEW id \in Ids, NEW val \in Vals
  PROVE  \A x \in Ids : RowsOf(StoreUpsert(st, id, val), x)
                          = IF x = id THEN <<val>> ELSE RowsOf(st, x)
<1> DEFINE new == StoreUpsert(st, id, val)
<1>1. /\ DOMAIN new.index = DOMAIN st.index \cup {id}
      /\ StoreGet(new, id).val = val
      /\ \A x \in DOMAIN st.index \ {id} : StoreGet(new, x) = StoreGet(st, x)
  BY UpsertLookup
<1> HIDE DEF new
<1>2. \A x \in Ids : RowsOf(new, x) = IF x = id THEN <<val>> ELSE RowsOf(st, x)
  BY <1>1 DEF RowsOf, StoreContains
<1> QED
  BY <1>2 DEF new

(***************************************************************************)
(* ... and after a remove.                                                 *)
(***************************************************************************)
LEMMA RowsOfRemove ==
  ASSUME NEW st, StoreType(st, Ids, Vals), StoreSound(st), NEW id \in Ids
  PROVE  \A x \in Ids : RowsOf(StoreRemove(st, id), x)
                          = IF x = id THEN <<>> ELSE RowsOf(st, x)
<1> DEFINE new == StoreRemove(st, id)
<1>1. /\ DOMAIN new.index = DOMAIN st.index \ {id}
      /\ \A x \in DOMAIN st.index \ {id} : StoreGet(new, x) = StoreGet(st, x)
  BY RemoveLookup
<1> HIDE DEF new
<1>2. \A x \in Ids : RowsOf(new, x) = IF x = id THEN <<>> ELSE RowsOf(st, x)
  BY <1>1 DEF RowsOf, StoreContains
<1> QED
  BY <1>2 DEF new

(***************************************************************************)
(* Index entries built from a well-typed, sound store are well typed.      *)
(***************************************************************************)
LEMMA RowsOfType ==
  ASSUME NEW st, StoreType(st, Ids, Vals), StoreSound(st), NEW id \in Ids
  PROVE  RowsOf(st, id) \in Seq(Vals)
<1>1. ASSUME StoreContains(st, id)
      PROVE  StoreGet(st, id).val \in Vals
  <2>1. st.rows \in Seq([id : Ids, val : Vals]) /\ st.index[id] \in 1 .. Len(st.rows)
    BY <1>1 DEF StoreType, StoreSound, StoreContains
  <2>2. st.rows[st.index[id]] \in [id : Ids, val : Vals]
    BY <2>1, ElementOfSeq
  <2> QED
    BY <2>2 DEF StoreGet
<1> QED
  BY <1>1 DEF RowsOf

(***************************************************************************)
(* Loading the rows of a sound store gives back the store.                 *)
(***************************************************************************)
LEMMA LoadedIsSaved ==
  ASSUME NEW st, StoreType(st, Ids, Vals), StoreSound(st)
  PROVE  LoadedStore(st.rows) = st
<1>1. {st.rows[p].id : p \in 1 .. Len(st.rows)} = DOMAIN st.index
  BY DEF StoreSound
<1>2. ASSUME NEW x \in DOMAIN st.index
      PROVE  (CHOOSE p \in 1 .. Len(st.rows) : st.rows[p].id = x) = st.index[x]
  <2>1. \A p \in 1 .. Len(st.rows) : st.rows[p].id = x <=> p = st.index[x]
    BY DEF StoreSound
  <2>2. st.index[x] \in 1 .. Len(st.rows)
    BY DEF StoreSound
  <2> QED
    BY <2>1, <2>2
<1>3. st.index = [x \in DOMAIN st.index |-> st.index[x]]
  BY DEF StoreType
<1>4. LoadedStore(st.rows).index = st.index
  BY <1>1, <1>2, <1>3 DEF LoadedStore
<1>5. st = [rows |-> st.rows, index |-> st.index]
  BY DEF StoreType
<1> QED
  BY <1>4, <1>5 DEF LoadedStore

(***************************************************************************)
(* A fresh index and a built one are well typed and in step.               *)
(***************************************************************************)
LEMMA FreshIndex ==
  /\ NewIndex \in [trained : BOOLEAN, entries : Entries]
  /\ \A k : NeedsTraining(k, NewIndex) <=> k = "ivf"
<1>1. <<>> \in Seq(Vals)
  OBVIOUS
<1> QED
  BY <1>1 DEF NewIndex, NeedsTraining, Entries

-----------------------------------------------------------------------------
(* The part of the invariant about the cache, for a cache c configured as  *)
(* cfg in front of an index with the given entries.                        *)
CacheOK(c, cfg, entries) ==
  /\ c \in [on : {cfg}, results : [DOMAIN c.results -> Entries]]
  /\ DOMAIN c.results \subseteq Queries
  /\ ~c.on => DOMAIN c.results = {}
  /\ \A q \in DOMAIN c.results : c.results[q] = entries

(***************************************************************************)
(* A fresh cache and an invalidated one are right for any index.           *)
(***************************************************************************)
LEMMA EmptyCacheOK ==
  ASSUME NEW c, NEW cfg, NEW old, NEW entries, CacheOK(c, cfg, old)
  PROVE  CacheOK(Invalidated(c), cfg, entries)
<1>1. c.on = cfg
  BY DEF CacheOK
<1>2. Invalidated(c) = [on |-> cfg, results |-> NoResults]
  BY <1>1 DEF Invalidated
<1>3. DOMAIN NoResults = {} /\ NoResults \in [{} -> Entries]
  BY DEF NoResults
<1> QED
  BY <1>2, <1>3 DEF CacheOK

(***************************************************************************)
(* A cache just wrapped around an index is right for it.                   *)
(***************************************************************************)
LEMMA FreshCacheOK ==
  ASSUME NEW cfg, NEW entries
  PROVE  CacheOK(Wrap(cfg), cfg, entries)
<1>1. DOMAIN NoResults = {} /\ NoResults \in [{} -> Entries]
  BY DEF NoResults
<1> QED
  BY <1>1 DEF CacheOK, Wrap

(***************************************************************************)
(* A cache stays right when it remembers the answer of the index, and when *)
(* it drops one.                                                           *)
(***************************************************************************)
LEMMA FilledCacheOK ==
  ASSUME NEW c, NEW cfg, NEW entries \in Entries, NEW q \in Queries,
         CacheOK(c, cfg, entries), c.on
  PROVE  CacheOK([on |-> TRUE, results |-> MapInsert(c.results, q, entries)],
                 cfg, entries)
<1> DEFINE new == [on |-> TRUE, results |-> MapInsert(c.results, q, entries)]
<1>1. new.on = TRUE /\ new.results = MapInsert(c.results, q, entries)
      /\ new = [on |-> new.on, results |-> new.results]
  OBVIOUS
<1>2. /\ DOMAIN MapInsert(c.results, q, entries) = DOMAIN c.results \cup {q}
      /\ \A x \in DOMAIN c.results \cup {q} :
           MapInsert(c.results, q, entries)[x] = entries
      /\ MapInsert(c.results, q, entries) \in [DOMAIN c.results \cup {q} -> Entries]
  BY DEF CacheOK, MapInsert
<1>3. c.on = cfg
  BY DEF CacheOK
<1> HIDE DEF new
<1>4. CacheOK(new, cfg, entries)
  BY <1>1, <1>2, <1>3 DEF CacheOK
<1> QED
  BY <1>4 DEF new

(***************************************************************************)
(* A cache stays right when it drops a result.                             *)
(***************************************************************************)
LEMMA EvictedCacheOK ==
  ASSUME NEW c, NEW cfg, NEW entries, NEW q, CacheOK(c, cfg, entries)
  PROVE  CacheOK([on |-> c.on, results |-> MapRemove(c.results, q)], cfg, entries)
<1> DEFINE new == [on |-> c.on, results |-> MapRemove(c.results, q)]
<1>1. new = [on |-> c.on, results |-> MapRemove(c.results, q)]
  OBVIOUS
<1>2. /\ DOMAIN MapRemove(c.results, q) = DOMAIN c.results \ {q}
      /\ \A x \in DOMAIN c.results \ {q} : MapRemove(c.results, q)[x] = entries
      /\ MapRemove(c.results, q) \in [DOMAIN c.results \ {q} -> Entries]
  BY DEF CacheOK, MapRemove
<1>3. c.on = cfg
  BY DEF CacheOK
<1> HIDE DEF new
<1>4. CacheOK(new, cfg, entries)
  BY <1>1, <1>2, <1>3 DEF CacheOK
<1> QED
  BY <1>4 DEF new

(* The part of the invariant about the index. *)
IndexOK(k, st, ix, dirty, div) ==
  /\ ix \in [trained : BOOLEAN, entries : Entries]
  /\ dirty \in BOOLEAN
  /\ dirty => k = "ivf"
  /\ IF NeedsTraining(k, ix)
     THEN ix = NewIndex /\ dirty
     ELSE \A id \in Ids \ div : ix.entries[id] = RowsOf(st, id)

(***************************************************************************)
(* The invariant in its parts.                                             *)
(***************************************************************************)
LEMMA EngineInvParts ==
  EngineInv <=> /\ kind \in Kinds /\ cache_cfg \in BOOLEAN
                /\ diverged \subseteq Ids /\ faults \in 0 .. MaxFaults
                /\ StoreOK
                /\ CacheOK(cache, cache_cfg, index.entries)
                /\ IndexOK(kind, store, index, ivf_dirty, diverged)
BY DEF EngineInv, CoreTypeOK, IndexInStep, CacheNeverStale, StoreOK, CacheOK,
       IndexOK, Entries

(***************************************************************************)
(* ... and the invariant of the next state from its parts.                 *)
(***************************************************************************)
LEMMA EngineInvNext ==
  ASSUME kind' \in Kinds, cache_cfg' \in BOOLEAN,
         diverged' \subseteq Ids, faults' \in 0 .. MaxFaults,
         StoreOK',
         CacheOK(cache', cache_cfg', index'.entries),
         IndexOK(kind', store', index', ivf_dirty', diverged')
  PROVE  EngineInv'
BY DEF EngineInv, CoreTypeOK, IndexInStep, CacheNeverStale, StoreOK, CacheOK,
       IndexOK, Entries

(***************************************************************************)
(* A call that fails does so within the bound.                             *)
(***************************************************************************)
LEMMA OutcomeBound ==
  ASSUME faults \in 0 .. MaxFaults, NEW ok \in BOOLEAN, Outcome(ok)
  PROVE  faults' \in 0 .. MaxFaults
BY CoreAssumption DEF Outcome

(***************************************************************************)
(* An index built from a sound store is in step with it.                   *)
(***************************************************************************)
LEMMA BuiltIndexOK ==
  ASSUME NEW k, NEW st, StoreType(st, Ids, Vals), StoreSound(st)
  PROVE  IndexOK(k, st, BuiltIndex(k, st), FALSE, {})
<1>1. /\ BuiltIndex(k, st).trained = (k = "ivf")
      /\ BuiltIndex(k, st).entries = [id \in Ids |-> RowsOf(st, id)]
  BY DEF BuiltIndex
<1>2. [id \in Ids |-> RowsOf(st, id)] \in Entries
  BY RowsOfType DEF Entries
<1>3. BuiltIndex(k, st) \in [trained : BOOLEAN, entries : Entries]
  BY <1>2 DEF BuiltIndex
<1> QED
  BY <1>1, <1>3 DEF IndexOK, NeedsTraining

-----------------------------------------------------------------------------
(***************************************************************************)
(* The index step of an insert, for a store st in which the row has just   *)
(* been written: an index that was right for st outside the written id,    *)
(* and empty there if the id was new and not diverged, is right for st     *)
(* after it, with a failed call leaving the id among the diverged.         *)
(***************************************************************************)
LEMMA InsertIndexKeepsStep ==
  ASSUME NEW st, NEW id \in Ids, NEW val \in Vals, NEW newly \in BOOLEAN,
         NEW ok \in BOOLEAN,
         diverged \subseteq Ids,
         CacheOK(cache, cache_cfg, index.entries),
         IndexOK(kind, st, index, ivf_dirty, diverged \cup {id}),
         RowsOf(st, id) = <<val>>,
         newly /\ ~NeedsTraining(kind, index) /\ id \notin diverged
           => index.entries[id] = <<>>,
         InsertIndexStep(newly, id, val, ok)
  PROVE  /\ diverged' \subseteq Ids
         /\ CacheOK(cache', cache_cfg, index'.entries)
         /\ IndexOK(kind, st, index', ivf_dirty', diverged')
<1> DEFINE base  == IF newly THEN index ELSE IndexDelete(index, id)
<1>3. index = [trained |-> index.trained, entries |-> index.entries]
      /\ index.entries \in Entries /\ index.trained \in BOOLEAN
  BY DEF IndexOK
<1>4. /\ base = [trained |-> index.trained, entries |-> base.entries]
      /\ base.entries \in Entries
      /\ \A x \in Ids \ {id} : base.entries[x] = index.entries[x]
      /\ ~newly => base.entries[id] = <<>>
      /\ newly => base = index
  <2>1. CASE newly
    BY <2>1, <1>3
  <2>2. CASE ~newly
    <3>1. <<>> \in Seq(Vals)
      OBVIOUS
    <3>2. /\ base = [trained |-> index.trained, entries |-> base.entries]
          /\ base.entries = [index.entries EXCEPT ![id] = <<>>]
      BY <2>2 DEF IndexDelete
    <3> HIDE DEF base
    <3>3. base.entries \in Entries
      BY <3>1, <3>2, <1>3 DEF Entries
    <3>4. /\ \A x \in Ids \ {id} : base.entries[x] = index.entries[x]
          /\ base.entries[id] = <<>>
      BY <3>2, <1>3 DEF Entries
    <3> QED
      BY <2>2, <3>2, <3>3, <3>4
  <2> QED
    BY <2>1, <2>2
<1>5. CASE ok /\ InsertDeferred
  BY <1>5 DEF InsertDeferred, IndexOK
<1>6. CASE ~NeedsTraining(kind, index) /\ InsertApplied(newly, id, val)
  <2>1. /\ index' = IndexInsert(base, id, val)
        /\ cache' = Invalidated(cache)
        /\ ivf_dirty' = ivf_dirty
        /\ diverged' = IF newly THEN diverged ELSE diverged \ {id}
    BY <1>6 DEF InsertApplied
  <2> HIDE DEF base
  <2>2. CacheOK(cache', cache_cfg, index'.entries)
    BY <2>1, EmptyCacheOK
  <2>3. base.entries[id] \in Seq(Vals)
    BY <1>4 DEF Entries
  <2>4. Append(base.entries[id], val) \in Seq(Vals)
    BY <2>3, AppendProperties
  <2>5. index' = [trained |-> index.trained,
                  entries |-> [base.entries EXCEPT ![id] = Append(base.entries[id], val)]]
    BY <2>1, <1>4 DEF IndexInsert
  <2>6. index' \in [trained : BOOLEAN, entries : Entries]
    BY <2>4, <2>5, <1>3, <1>4 DEF Entries
  <2>7. ~NeedsTraining(kind, index')
    BY <2>5, <1>6 DEF NeedsTraining
  <2>8. ASSUME NEW x \in Ids \ diverged'
        PROVE  index'.entries[x] = RowsOf(st, x)
    <3>1. CASE x # id
      <4>1. x \in Ids \ (diverged \cup {id})
        BY <3>1, <2>1, <2>8
      <4>2. index'.entries[x] = index.entries[x]
        BY <3>1, <2>5, <1>4 DEF Entries
      <4> QED
        BY <4>1, <4>2, <1>6 DEF IndexOK
    <3>2. CASE x = id
      <4>1. base.entries[id] = <<>>
        BY <3>2, <2>1, <2>8, <1>4, <1>6
      <4>2. index'.entries[id] = Append(base.entries[id], val)
        BY <2>5, <1>4 DEF Entries
      <4>3. Append(<<>>, val) = <<val>>
        OBVIOUS
      <4> QED
        BY <4>1, <4>2, <4>3, <3>2
    <3> QED
      BY <3>1, <3>2
  <2>9. ivf_dirty' \in BOOLEAN /\ (ivf_dirty' => kind = "ivf")
    BY <2>1 DEF IndexOK
  <2>10. diverged' \subseteq Ids
    BY <2>1
  <2> QED
    BY <2>2, <2>6, <2>7, <2>8, <2>9, <2>10 DEF IndexOK
<1>7. CASE ~NeedsTraining(kind, index) /\ InsertFailed(newly, id)
  <2>1. /\ \/ index' = index /\ cache' = cache
           \/ index' = base /\ cache' = IF newly THEN cache ELSE Invalidated(cache)
        /\ ivf_dirty' = ivf_dirty
        /\ diverged' = diverged \cup {id}
    BY <1>7 DEF InsertFailed
  <2> HIDE DEF base
  <2>2. CacheOK(cache', cache_cfg, index'.entries)
    BY <2>1, <1>4, EmptyCacheOK
  <2>3. /\ index' \in [trained : BOOLEAN, entries : Entries]
        /\ index'.trained = index.trained
        /\ \A x \in Ids \ {id} : index'.entries[x] = index.entries[x]
    BY <2>1, <1>3, <1>4
  <2>4. \A x \in Ids \ diverged' : index'.entries[x] = RowsOf(st, x)
    BY <2>1, <2>3, <1>7 DEF IndexOK
  <2>5. ~NeedsTraining(kind, index')
    BY <2>3, <1>7 DEF NeedsTraining
  <2>6. ivf_dirty' \in BOOLEAN /\ (ivf_dirty' => kind = "ivf") /\ diverged' \subseteq Ids
    BY <2>1 DEF IndexOK
  <2> QED
    BY <2>2, <2>3, <2>4, <2>5, <2>6 DEF IndexOK
<1> QED
  BY <1>5, <1>6, <1>7 DEF InsertIndexStep

(***************************************************************************)
(* The index step of a delete, for a store st from which the row is gone.  *)
(***************************************************************************)
LEMMA DeleteIndexKeepsStep ==
  ASSUME NEW st, NEW id \in Ids, NEW ok \in BOOLEAN,
         diverged \subseteq Ids,
         CacheOK(cache, cache_cfg, index.entries),
         IndexOK(kind, st, index, ivf_dirty, diverged \cup {id}),
         RowsOf(st, id) = <<>>,
         DeleteIndexStep(id, ok)
  PROVE  /\ diverged' \subseteq Ids
         /\ CacheOK(cache', cache_cfg, index'.entries)
         /\ IndexOK(kind, st, index', ivf_dirty', diverged')
<1>3. index.entries \in Entries /\ index.trained \in BOOLEAN
  BY DEF IndexOK
<1>4. CASE ok /\ InsertDeferred
  BY <1>4 DEF InsertDeferred, IndexOK
<1>5. CASE ~NeedsTraining(kind, index) /\ DeleteApplied(id)
  <2>1. /\ index' = [trained |-> index.trained,
                     entries |-> [index.entries EXCEPT ![id] = <<>>]]
        /\ cache' = Invalidated(cache)
        /\ ivf_dirty' = ivf_dirty
        /\ diverged' = diverged \ {id}
    BY <1>5 DEF DeleteApplied, IndexDelete
  <2>2. CacheOK(cache', cache_cfg, index'.entries)
    BY <2>1, EmptyCacheOK
  <2>3. <<>> \in Seq(Vals)
    OBVIOUS
  <2>4. index' \in [trained : BOOLEAN, entries : Entries]
    BY <2>1, <2>3, <1>3 DEF Entries
  <2>5. ~NeedsTraining(kind, index')
    BY <2>1, <1>5 DEF NeedsTraining
  <2>6. \A x \in Ids : index'.entries[x] = IF x = id THEN <<>> ELSE index.entries[x]
    BY <2>1, <1>3 DEF Entries
  <2>7. \A x \in Ids \ diverged' : index'.entries[x] = RowsOf(st, x)
    BY <2>1, <2>6, <1>5 DEF IndexOK
  <2>8. ivf_dirty' \in BOOLEAN /\ (ivf_dirty' => kind = "ivf") /\ diverged' \subseteq Ids
    BY <2>1 DEF IndexOK
  <2> QED
    BY <2>2, <2>4, <2>5, <2>7, <2>8 DEF IndexOK
<1>6. CASE /\ ~NeedsTraining(kind, index)
           /\ diverged' = diverged \cup {id}
           /\ UNCHANGED <<index, cache, ivf_dirty>>
  BY <1>6 DEF IndexOK
<1> QED
  BY <1>4, <1>5, <1>6 DEF DeleteIndexStep

(***************************************************************************)
(* What the store step of an insert leaves to its index step: a sound      *)
(* store, with an index that is right for it outside the written id.       *)
(***************************************************************************)
LEMMA InsertStoreKeepsStep ==
  ASSUME NEW id \in Ids, NEW val \in Vals, StoreOK,
         IndexOK(kind, store, index, ivf_dirty, diverged),
         InsertStoreStep(id, val)
  PROVE  /\ StoreOK'
         /\ RowsOf(store', id) = <<val>>
         /\ IndexOK(kind, store', index, ivf_dirty, diverged \cup {id})
         /\ ~StoreContains(store, id) /\ ~NeedsTraining(kind, index)
              /\ id \notin diverged => index.entries[id] = <<>>
<1>1. /\ StoreOK'
      /\ \A x \in Ids : RowsOf(store', x)
                         = IF x = id THEN <<val>> ELSE RowsOf(store, x)
  BY UpsertSound, RowsOfUpsert DEF InsertStoreStep, StoreOK
<1>2. ~StoreContains(store, id) => RowsOf(store, id) = <<>>
  BY DEF RowsOf
<1> QED
  BY <1>1, <1>2 DEF IndexOK

(***************************************************************************)
(* ... and that of a delete.                                               *)
(***************************************************************************)
LEMMA DeleteStoreKeepsStep ==
  ASSUME NEW id \in Ids, StoreOK,
         IndexOK(kind, store, index, ivf_dirty, diverged),
         DeleteStoreStep(id)
  PROVE  /\ StoreOK'
         /\ RowsOf(store', id) = <<>>
         /\ IndexOK(kind, store', index, ivf_dirty, diverged \cup {id})
<1>1. /\ StoreOK'
      /\ \A x \in Ids : RowsOf(store', x) = IF x = id THEN <<>> ELSE RowsOf(store, x)
  BY RemoveSound, RowsOfRemove DEF DeleteStoreStep, StoreOK
<1> QED
  BY <1>1 DEF IndexOK

(***************************************************************************)
(* An insert, both steps at once, keeps index and cache right.             *)
(***************************************************************************)
LEMMA InsertKeepsStep ==
  ASSUME EngineInv, NEW id \in Ids, NEW val \in Vals, NEW ok \in BOOLEAN,
         InsertStoreStep(id, val),
         InsertIndexStep(~StoreContains(store, id), id, val, ok),
         kind' = kind, cache_cfg' = cache_cfg
  PROVE  /\ diverged' \subseteq Ids
         /\ StoreOK'
         /\ CacheOK(cache', cache_cfg, index'.entries)
         /\ IndexOK(kind, store', index', ivf_dirty', diverged')
<1> DEFINE newly == ~StoreContains(store, id)
<1>1. /\ diverged \subseteq Ids
      /\ StoreOK
      /\ CacheOK(cache, cache_cfg, index.entries)
      /\ IndexOK(kind, store, index, ivf_dirty, diverged)
  BY EngineInvParts
<1>2. /\ StoreOK'
      /\ RowsOf(store', id) = <<val>>
      /\ IndexOK(kind, store', index, ivf_dirty, diverged \cup {id})
      /\ newly /\ ~NeedsTraining(kind, index) /\ id \notin diverged
           => index.entries[id] = <<>>
  BY <1>1, InsertStoreKeepsStep
<1>3. newly \in BOOLEAN /\ InsertIndexStep(newly, id, val, ok)
  BY DEF StoreContains
<1> HIDE DEF newly
<1> QED
  BY <1>1, <1>2, <1>3, InsertIndexKeepsStep

(***************************************************************************)
(* A delete, likewise.                                                     *)
(***************************************************************************)
LEMMA DeleteKeepsStep ==
  ASSUME EngineInv, NEW id \in Ids, NEW ok \in BOOLEAN,
         DeleteStoreStep(id), DeleteIndexStep(id, ok),
         kind' = kind, cache_cfg' = cache_cfg
  PROVE  /\ diverged' \subseteq Ids
         /\ StoreOK'
         /\ CacheOK(cache', cache_cfg, index'.entries)
         /\ IndexOK(kind, store', index', ivf_dirty', diverged')
<1>1. /\ diverged \subseteq Ids
      /\ StoreOK
      /\ CacheOK(cache, cache_cfg, index.entries)
      /\ IndexOK(kind, store, index, ivf_dirty, diverged)
  BY EngineInvParts
<1>2. /\ StoreOK'
      /\ RowsOf(store', id) = <<>>
      /\ IndexOK(kind, store', index, ivf_dirty, diverged \cup {id})
  BY <1>1, DeleteStoreKeepsStep
<1> QED
  BY <1>1, <1>2, DeleteIndexKeepsStep

(***************************************************************************)
(* A materialization, done, refused or failed, keeps index and cache right *)
(* when only an IVF is ever marked dirty.                                  *)
(***************************************************************************)
LEMMA MaterializeKeepsStep ==
  ASSUME EngineInv, NEW dirty \in BOOLEAN, NEW ok \in BOOLEAN,
         dirty => kind = "ivf", ivf_dirty => dirty,
         Materialize(dirty, ok), store' = store
  PROVE  /\ diverged' \subseteq Ids
         /\ StoreOK'
         /\ CacheOK(cache', cache_cfg, index'.entries)
         /\ IndexOK(kind, store', index', ivf_dirty', diverged')
<1>1. /\ kind \in Kinds /\ diverged \subseteq Ids
      /\ StoreOK
      /\ CacheOK(cache, cache_cfg, index.entries)
      /\ IndexOK(kind, store, index, ivf_dirty, diverged)
  BY EngineInvParts
<1>2. StoreOK'
  BY <1>1 DEF StoreOK
<1>3. CASE UNCHANGED <<index, cache, diverged>> /\ ivf_dirty' = dirty
  BY <1>1, <1>2, <1>3 DEF IndexOK
<1>4. CASE /\ index' = BuiltIndex(kind, store) /\ cache' = Wrap(cache_cfg)
           /\ ivf_dirty' = FALSE /\ diverged' = {}
  <2>1. IndexOK(kind, store, BuiltIndex(kind, store), FALSE, {})
    BY <1>1, BuiltIndexOK DEF StoreOK
  <2> QED
    BY <2>1, <1>2, <1>4, FreshCacheOK
<1> QED
  BY <1>3, <1>4 DEF Materialize

-----------------------------------------------------------------------------
(***************************************************************************)
(* A new engine satisfies its invariant.                                   *)
(***************************************************************************)
LEMMA CoreInitInv == CoreInit => EngineInv
<1> SUFFICES ASSUME CoreInit PROVE EngineInv
  OBVIOUS
<1>1. /\ kind \in Kinds /\ cache_cfg \in BOOLEAN
      /\ diverged \subseteq Ids /\ faults \in 0 .. MaxFaults
  BY CoreAssumption DEF CoreInit
<1>2. StoreOK
  BY EmptyStoreSound DEF CoreInit, StoreOK
<1>3. CacheOK(cache, cache_cfg, index.entries)
  BY FreshCacheOK DEF CoreInit
<1>4. /\ index = NewIndex /\ (ivf_dirty <=> kind = "ivf") /\ ivf_dirty \in BOOLEAN
  BY FreshIndex DEF CoreInit, NeedsTraining
<1>5. \A id \in Ids : NewIndex.entries[id] = RowsOf(store, id)
  BY EmptyStoreSound DEF CoreInit, NewIndex
<1>6. IndexOK(kind, store, index, ivf_dirty, diverged)
  BY <1>4, <1>5, FreshIndex DEF IndexOK
<1> QED
  BY <1>1, <1>2, <1>3, <1>6, EngineInvParts

(***************************************************************************)
(* load_from ends in step for any rows whose ids are distinct: an IVF is   *)
(* empty and marked for its first search, the other kinds are built.       *)
(***************************************************************************)
LEMMA LoadInStep ==
  ASSUME NEW k \in Kinds, NEW rows, NEW cfg \in BOOLEAN,
         StoreType(LoadedStore(rows), Ids, Vals), StoreSound(LoadedStore(rows)),
         LoadFrom(k, rows, cfg)
  PROVE  /\ kind' \in Kinds /\ cache_cfg' \in BOOLEAN /\ diverged' \subseteq Ids
         /\ StoreOK'
         /\ CacheOK(cache', cache_cfg', index'.entries)
         /\ IndexOK(kind', store', index', ivf_dirty', diverged')
<1> DEFINE st == LoadedStore(rows)
<1>1. /\ kind' = k /\ store' = st /\ cache_cfg' = cfg /\ cache' = Wrap(cfg)
      /\ index' = IF k = "ivf" THEN NewIndex ELSE BuiltIndex(k, st)
      /\ ivf_dirty' = (k = "ivf")
      /\ diverged' = {}
  BY FreshIndex DEF LoadFrom, SetCache, NeedsTraining, NewIndex
<1>2. CacheOK(cache', cache_cfg', index'.entries)
  BY <1>1, FreshCacheOK
<1>3. IndexOK(k, st, index', ivf_dirty', {})
  <2>1. CASE k = "ivf"
    BY <2>1, <1>1, FreshIndex DEF IndexOK
  <2>2. CASE k # "ivf"
    BY <2>2, <1>1, BuiltIndexOK
  <2> QED
    BY <2>1, <2>2
<1> HIDE DEF st
<1> QED
  BY <1>1, <1>2, <1>3 DEF StoreOK, st

(***************************************************************************)
(* Every operation of the engine keeps its invariant.                      *)
(***************************************************************************)
LEMMA EngineKeepsInv == EngineInv /\ [CoreNext]_coreVars => EngineInv'
<1> SUFFICES ASSUME EngineInv, [CoreNext]_coreVars PROVE EngineInv'
  OBVIOUS
<1>0. /\ kind \in Kinds /\ cache_cfg \in BOOLEAN
      /\ diverged \subseteq Ids /\ faults \in 0 .. MaxFaults
      /\ StoreOK
      /\ CacheOK(cache, cache_cfg, index.entries)
      /\ IndexOK(kind, store, index, ivf_dirty, diverged)
  BY EngineInvParts
<1> DEFINE Kept == /\ kind' \in Kinds /\ cache_cfg' \in BOOLEAN
                   /\ diverged' \subseteq Ids /\ faults' \in 0 .. MaxFaults
                   /\ StoreOK'
                   /\ CacheOK(cache', cache_cfg', index'.entries)
                   /\ IndexOK(kind', store', index', ivf_dirty', diverged')
<1>1. SUFFICES Kept
  BY EngineInvNext
<1>2. ASSUME NEW ok \in BOOLEAN, Outcome(ok) PROVE faults' \in 0 .. MaxFaults
  BY <1>2, <1>0, OutcomeBound
<1>3. ASSUME NEW id \in Ids, NEW val \in Vals, Insert(id, val) PROVE Kept
  <2>1. PICK ok \in BOOLEAN :
          /\ Outcome(ok) /\ InsertStoreStep(id, val)
          /\ InsertIndexStep(~StoreContains(store, id), id, val, ok)
          /\ kind' = kind /\ cache_cfg' = cache_cfg
    BY <1>3 DEF Insert
  <2> QED
    BY <2>1, <1>0, <1>2, InsertKeepsStep
<1>4. ASSUME NEW id \in Ids, Delete(id) PROVE Kept
  <2>1. PICK ok \in BOOLEAN :
          /\ Outcome(ok) /\ DeleteStoreStep(id) /\ DeleteIndexStep(id, ok)
          /\ kind' = kind /\ cache_cfg' = cache_cfg
    BY <1>4 DEF Delete
  <2> QED
    BY <2>1, <1>0, <1>2, DeleteKeepsStep
<1>5. ASSUME NEW dirty \in BOOLEAN, dirty => kind = "ivf", ivf_dirty => dirty,
             MaterializeCall(dirty)
      PROVE  Kept
  <2>1. PICK ok \in BOOLEAN :
          /\ Outcome(ok) /\ Materialize(dirty, ok)
          /\ kind' = kind /\ store' = store /\ cache_cfg' = cache_cfg
    BY <1>5 DEF MaterializeCall
  <2> QED
    BY <2>1, <1>0, <1>2, <1>5, MaterializeKeepsStep
<1>6. CASE EnsureReady
  BY <1>5, <1>6, <1>0 DEF EnsureReady, IndexOK
<1>7. CASE Optimize
  <2>1. ivf_dirty \in BOOLEAN /\ (ivf_dirty => kind = "ivf")
    BY <1>0 DEF IndexOK
  <2>2. (ivf_dirty \/ kind = "ivf") \in BOOLEAN
    BY <2>1
  <2> QED
    BY <1>5, <1>7, <2>1, <2>2 DEF Optimize
<1>8. ASSUME NEW q \in Queries, Search(q) PROVE Kept
  <2>1. Answer(q) = index.entries /\ index.entries \in Entries
    BY <1>0 DEF Answer, CacheOK, IndexOK
  <2>2. CacheOK(Remembered(q), cache_cfg, index.entries)
    BY <2>1, <1>0, FilledCacheOK DEF Remembered
  <2>3. /\ cache' = Remembered(q)
        /\ UNCHANGED <<kind, store, index, cache_cfg, ivf_dirty, faults, diverged>>
    BY <1>8 DEF Search
  <2> QED
    BY <2>2, <2>3, <1>0 DEF StoreOK
<1>9. ASSUME NEW q \in Queries, Evict(q) PROVE Kept
  <2>1. /\ cache' = [on |-> cache.on, results |-> MapRemove(cache.results, q)]
        /\ UNCHANGED <<kind, store, index, cache_cfg, ivf_dirty, faults, diverged>>
    BY <1>9 DEF Evict
  <2>2. CacheOK(cache', cache_cfg, index.entries)
    BY <2>1, <1>0, EvictedCacheOK
  <2> QED
    BY <2>1, <2>2, <1>0 DEF StoreOK
<1>10. CASE UNCHANGED <<engineVars, faults>>
  BY <1>10, <1>0 DEF engineVars, StoreOK
<1>11. ASSUME NEW cfg \in BOOLEAN, Reload(cfg) PROVE Kept
  <2>1. LoadedStore(store.rows) = store
    BY <1>0, LoadedIsSaved DEF StoreOK
  <2> QED
    BY <1>11, <2>1, <1>0, LoadInStep DEF Reload, StoreOK
<1>12. CASE UNCHANGED coreVars
  BY <1>12, <1>10 DEF coreVars
<1> QED
  BY <1>3, <1>4, <1>6, <1>7, <1>8, <1>9, <1>10, <1>11, <1>12
  DEF CoreNext, GetRow, CoreLen

(***************************************************************************)
(* The invariant of the engine, from its first state on.                   *)
(***************************************************************************)
LEMMA EngineInvariant == CoreSpec => []EngineInv
<1>1. CoreInit => EngineInv
  BY CoreInitInv
<1>2. EngineInv /\ [CoreNext]_coreVars => EngineInv'
  BY EngineKeepsInv
<1> QED
  BY <1>1, <1>2, PTL DEF CoreSpec

(***************************************************************************)
(* The engine: through every sequence of inserts, replacements, deletes,   *)
(* rebuilds, searches, evictions and reloads, with any number of failed    *)
(* index calls, the index stays in step with the store outside the ids a   *)
(* failed call left behind, and the cache with the index.                  *)
(***************************************************************************)
THEOREM EngineInStep == CoreSpec => [](CoreTypeOK /\ IndexInStep /\ CacheNeverStale)
<1>1. EngineInv => CoreTypeOK /\ IndexInStep /\ CacheNeverStale
  BY DEF EngineInv
<1> QED
  BY <1>1, EngineInvariant, PTL

(***************************************************************************)
(* Its three parts by name.  The types, with the two shapes of the fields: *)
(* only IVF is ever dirty, and the cache layer is the configured one.      *)
(***************************************************************************)
THEOREM EngineTyped == CoreSpec => []CoreTypeOK
  BY EngineInStep, PTL

(***************************************************************************)
(* An index that can be searched holds exactly the current value of every  *)
(* row that no failed index call left behind.                              *)
(***************************************************************************)
THEOREM IndexFollowsStore == CoreSpec => []IndexInStep
  BY EngineInStep, PTL

(***************************************************************************)
(* What the cache would answer is what the index would answer now.         *)
(***************************************************************************)
THEOREM CacheAlwaysFresh == CoreSpec => []CacheNeverStale
  BY EngineInStep, PTL

(***************************************************************************)
(* What load_from's loop leads to for rows of distinct ids.                *)
(***************************************************************************)
LEMMA LoadedPositions ==
  ASSUME NEW rows \in Seq([id : Ids, val : Vals]),
         \A p, r \in 1 .. Len(rows) : rows[p].id = rows[r].id => p = r
  PROVE  /\ LoadedStore(rows) = [rows |-> rows, index |-> LoadedStore(rows).index]
         /\ LoadedStore(rows).rows = rows
         /\ DOMAIN LoadedStore(rows).index = {rows[p].id : p \in 1 .. Len(rows)}
         /\ LoadedStore(rows).index = [x \in DOMAIN LoadedStore(rows).index |->
                                         LoadedStore(rows).index[x]]
         /\ \A p \in 1 .. Len(rows) : LoadedStore(rows).index[rows[p].id] = p
<1> DEFINE ix == [x \in {rows[p].id : p \in 1 .. Len(rows)} |->
                    CHOOSE p \in 1 .. Len(rows) : rows[p].id = x]
<1>1. LoadedStore(rows) = [rows |-> rows, index |-> ix]
  BY DEF LoadedStore
<1>2. /\ DOMAIN ix = {rows[p].id : p \in 1 .. Len(rows)}
      /\ ix = [x \in DOMAIN ix |-> ix[x]]
  OBVIOUS
<1>3. ASSUME NEW p \in 1 .. Len(rows) PROVE ix[rows[p].id] = p
  <2>1. ix[rows[p].id] = CHOOSE r \in 1 .. Len(rows) : rows[r].id = rows[p].id
    OBVIOUS
  <2>2. \A r \in 1 .. Len(rows) : rows[r].id = rows[p].id <=> r = p
    OBVIOUS
  <2> QED
    BY <2>1, <2>2
<1> HIDE DEF ix
<1>4. LoadedStore(rows).index = ix /\ LoadedStore(rows).rows = rows
  BY <1>1
<1> QED
  BY <1>1, <1>2, <1>3, <1>4

(***************************************************************************)
(* A load of what a save wrote restores the store, upsert by upsert: the   *)
(* ids of a sound store are distinct, so every upsert of load_from's loop  *)
(* is a push.                                                              *)
(***************************************************************************)
THEOREM ReloadsRestoreStore == CoreSpec => []ReloadRestoresStore
<1>1. EngineInv => ReloadRestoresStore
  <2> SUFFICES ASSUME EngineInv PROVE ReloadRestoresStore
    OBVIOUS
  <2> DEFINE rows == store.rows
             loaded(n) == LoadedStore(SubSeq(rows, 1, n))
             ids(n) == {rows[p].id : p \in 1 .. n}
  <2>1. StoreType(store, Ids, Vals) /\ StoreSound(store)
    BY DEF EngineInv, CoreTypeOK
  <2>2. rows \in Seq([id : Ids, val : Vals]) /\ Len(rows) \in Nat
    BY <2>1 DEF StoreType
  <2>3. \A p, r \in 1 .. Len(rows) : rows[p].id = rows[r].id => p = r
    BY <2>1 DEF StoreSound
  <2> HIDE DEF rows
  <2>4. ASSUME NEW p \in 1 .. Len(rows) PROVE rows[p] = Row(rows[p].id, rows[p].val)
    <3>1. rows[p] \in [id : Ids, val : Vals]
      BY <2>2, ElementOfSeq
    <3> QED
      BY <3>1 DEF Row
  <2>5. ASSUME NEW n \in 0 .. Len(rows)
        PROVE  /\ loaded(n) = [rows |-> SubSeq(rows, 1, n), index |-> loaded(n).index]
               /\ loaded(n).rows = SubSeq(rows, 1, n)
               /\ DOMAIN loaded(n).index = ids(n)
               /\ loaded(n).index = [x \in DOMAIN loaded(n).index |-> loaded(n).index[x]]
               /\ \A p \in 1 .. n : loaded(n).index[rows[p].id] = p
    <3> DEFINE first == SubSeq(rows, 1, n)
    <3>1. /\ first \in Seq([id : Ids, val : Vals])
          /\ Len(first) = n
          /\ \A p \in 1 .. n : first[p] = rows[p]
      <4>1. n \in Nat /\ n <= Len(rows)
        BY <2>2
      <4>2. \A i \in 1 .. n : rows[i] \in [id : Ids, val : Vals]
        <5>1. \A i \in 1 .. Len(rows) : rows[i] \in [id : Ids, val : Vals]
          BY <2>2, ElementOfSeq
        <5> QED
          BY <2>2, <4>1, <5>1
      <4>3. /\ first \in Seq([id : Ids, val : Vals])
            /\ Len(first) = IF 1 <= n THEN n - 1 + 1 ELSE 0
            /\ \A i \in 1 .. n - 1 + 1 : first[i] = rows[1 + i - 1]
        BY <4>1, <4>2, SubSeqProperties
      <4> QED
        BY <4>1, <4>3
    <3> HIDE DEF first
    <3>2. \A p, r \in 1 .. Len(first) : first[p].id = first[r].id => p = r
      BY <2>2, <2>3, <3>1
    <3>3. /\ LoadedStore(first) = [rows |-> first, index |-> LoadedStore(first).index]
          /\ LoadedStore(first).rows = first
          /\ DOMAIN LoadedStore(first).index = {first[p].id : p \in 1 .. Len(first)}
          /\ LoadedStore(first).index = [x \in DOMAIN LoadedStore(first).index |->
                                           LoadedStore(first).index[x]]
          /\ \A p \in 1 .. Len(first) : LoadedStore(first).index[first[p].id] = p
      BY <3>1, <3>2, LoadedPositions
    <3>4. {first[p].id : p \in 1 .. Len(first)} = ids(n)
      BY <3>1
    <3> QED
      BY <3>1, <3>3, <3>4 DEF first
  <2>6. loaded(0) = EmptyStore
    <3>1. SubSeq(rows, 1, 0) = <<>> /\ ids(0) = {}
      BY <2>2
    <3>2. /\ loaded(0) = [rows |-> SubSeq(rows, 1, 0), index |-> loaded(0).index]
          /\ DOMAIN loaded(0).index = {}
          /\ loaded(0).index = [x \in DOMAIN loaded(0).index |-> loaded(0).index[x]]
      <4>1. 0 \in 0 .. Len(rows)
        BY <2>2
      <4> HIDE DEF loaded
      <4> QED
        BY <2>5, <3>1, <4>1
    <3> HIDE DEF loaded
    <3>3. loaded(0).index = [x \in {} |-> 0]
      BY <3>2
    <3> QED
      BY <3>1, <3>2, <3>3 DEF EmptyStore
  <2>7. ASSUME NEW n \in 1 .. Len(rows)
        PROVE  /\ ~StoreContains(loaded(n - 1), rows[n].id)
               /\ loaded(n) = StoreUpsert(loaded(n - 1), rows[n].id, rows[n].val)
    <3>1. n \in Nat /\ n - 1 \in 0 .. Len(rows) /\ n \in 0 .. Len(rows)
      BY <2>2
    <3>2. /\ loaded(n - 1).rows = SubSeq(rows, 1, n - 1)
          /\ DOMAIN loaded(n - 1).index = ids(n - 1)
          /\ \A p \in 1 .. n - 1 : loaded(n - 1).index[rows[p].id] = p
      BY <2>5, <3>1
    <3>3. /\ loaded(n) = [rows |-> SubSeq(rows, 1, n), index |-> loaded(n).index]
          /\ DOMAIN loaded(n).index = ids(n)
          /\ loaded(n).index = [x \in DOMAIN loaded(n).index |-> loaded(n).index[x]]
          /\ \A p \in 1 .. n : loaded(n).index[rows[p].id] = p
      BY <2>5, <3>1
    <3> HIDE DEF loaded
    <3>4. rows[n].id \notin ids(n - 1)
      BY <2>2, <2>3, <3>1
    <3>5. ~StoreContains(loaded(n - 1), rows[n].id)
      BY <3>2, <3>4 DEF StoreContains
    <3>6. Append(loaded(n - 1).rows, Row(rows[n].id, rows[n].val)) = SubSeq(rows, 1, n)
      <4>1. SubSeq(rows, 1, n) = Append(SubSeq(rows, 1, n - 1), rows[n])
        BY <2>2
      <4> QED
        BY <2>4, <3>2, <4>1
    <3>7. Len(loaded(n - 1).rows) + 1 = n
      BY <2>2, <3>1, <3>2
    <3>8. MapInsert(loaded(n - 1).index, rows[n].id, n) = loaded(n).index
      <4> DEFINE old == loaded(n - 1).index
                 new == MapInsert(old, rows[n].id, n)
      <4>1. ids(n - 1) \cup {rows[n].id} = ids(n)
        BY <3>1
      <4>2. /\ DOMAIN new = ids(n)
            /\ new = [x \in ids(n) |-> new[x]]
            /\ \A x \in ids(n) : new[x] = IF x = rows[n].id THEN n ELSE old[x]
        BY <3>2, <4>1 DEF MapInsert
      <4> HIDE DEF new
      <4>3. ASSUME NEW x \in ids(n) PROVE new[x] = loaded(n).index[x]
        <5>1. PICK p \in 1 .. n : x = rows[p].id
          BY <4>3
        <5>2. CASE p = n
          BY <3>3, <4>2, <5>1, <5>2
        <5>3. CASE p # n
          <6>1. p \in 1 .. n - 1
            BY <3>1, <5>3
          <6>2. old[x] = p /\ x # rows[n].id
            BY <3>2, <3>4, <5>1, <6>1
          <6> QED
            BY <3>3, <4>2, <5>1, <6>2
        <5> QED
          BY <5>2, <5>3
      <4> QED
        BY <3>3, <4>2, <4>3 DEF new
    <3>9. loaded(n) = StoreUpsert(loaded(n - 1), rows[n].id, rows[n].val)
      BY <3>3, <3>5, <3>6, <3>7, <3>8 DEF StoreUpsert
    <3> QED
      BY <3>5, <3>9
  <2>8. loaded(Len(rows)) = store
    <3>1. SubSeq(rows, 1, Len(rows)) = rows
      BY <2>2
    <3> QED
      BY <3>1, <2>1, LoadedIsSaved DEF rows
  <2> QED
    BY <2>6, <2>7, <2>8 DEF ReloadRestoresStore, rows
<1> QED
  BY <1>1, EngineInvariant, PTL

-----------------------------------------------------------------------------
(***************************************************************************)
(* The map the rows denote, read through the position map.                 *)
(***************************************************************************)
LEMMA StoreMapLookup ==
  ASSUME StoreOK
  PROVE  /\ StoreMap = [x \in Ids |-> IF StoreContains(store, x)
                                      THEN StoreGet(store, x).val ELSE Absent]
         /\ \A x \in Ids : StoreContains(store, x)
                             => StoreGet(store, x).val \in Vals
         /\ \A x \in Ids : StoreContains(store, x) <=> StoreMap[x] # Absent
<1>0. StoreType(store, Ids, Vals) /\ StoreSound(store)
  BY DEF StoreOK
<1>1. \A p \in 1 .. Len(store.rows) : store.rows[p] \in [id : Ids, val : Vals]
  BY <1>0, ElementOfSeq DEF StoreType
<1>2. \A x \in DOMAIN store.index : StoreGet(store, x).val \in Vals
  BY <1>0, <1>1 DEF StoreGet, StoreSound
<1> QED
  BY <1>0, <1>2, ScanIsLookup, CoreAssumption DEF StoreMap, StoreContains

(***************************************************************************)
(* What the store's writes do to the map its rows denote.                  *)
(***************************************************************************)
LEMMA WritesToMap ==
  ASSUME StoreOK
  PROVE  \A id \in Ids :
           /\ RowsMap(StoreRemove(store, id).rows, Ids, Absent)
                = [StoreMap EXCEPT ![id] = Absent]
           /\ \A val \in Vals : RowsMap(StoreUpsert(store, id, val).rows, Ids, Absent)
                                  = [StoreMap EXCEPT ![id] = val]
<1> TAKE id \in Ids
<1>1. RowsMap(StoreRemove(store, id).rows, Ids, Absent)
        = [StoreMap EXCEPT ![id] = Absent]
  BY RemoveMap DEF StoreOK, StoreMap
<1>2. ASSUME NEW val \in Vals
      PROVE  RowsMap(StoreUpsert(store, id, val).rows, Ids, Absent)
               = [StoreMap EXCEPT ![id] = val]
  BY UpsertMap DEF StoreOK, StoreMap
<1> QED
  BY <1>1, <1>2

(***************************************************************************)
(* An index in step with the store at every id ranks, for a search, the    *)
(* rows of the map.                                                        *)
(***************************************************************************)
LEMMA HitsAreTheMap ==
  ASSUME StoreOK, \A id \in Ids : index.entries[id] = RowsOf(store, id)
  PROVE  Hits(index.entries)
           = {<<id, StoreMap[id]>> : id \in {x \in Ids : StoreMap[x] # Absent}}
<1> DEFINE m == StoreMap
           stored == {x \in Ids : m[x] # Absent}
<1>1. ASSUME NEW id \in Ids, NEW v \in Vals
      PROVE  (\E i \in 1 .. Len(index.entries[id]) : index.entries[id][i] = v)
               <=> StoreContains(store, id) /\ StoreGet(store, id).val = v
  <2>1. CASE StoreContains(store, id)
    <3>1. index.entries[id] = <<StoreGet(store, id).val>>
      BY <2>1 DEF RowsOf
    <3> QED
      BY <3>1, <2>1
  <2>2. CASE ~StoreContains(store, id)
    <3>1. index.entries[id] = <<>>
      BY <2>2 DEF RowsOf
    <3> QED
      BY <3>1, <2>2
  <2> QED
    BY <2>1, <2>2
<1>2. Hits(index.entries)
        = {hit \in Ids \X Vals : /\ StoreContains(store, hit[1])
                                 /\ StoreGet(store, hit[1]).val = hit[2]}
  BY <1>1 DEF Hits
<1>3. \A id \in stored : /\ id \in Ids /\ StoreContains(store, id)
                         /\ m[id] = StoreGet(store, id).val /\ m[id] \in Vals
  BY StoreMapLookup
<1>4. \A id \in Ids : StoreContains(store, id) => id \in stored
  BY StoreMapLookup
<1> HIDE DEF stored, m
<1>5. Hits(index.entries) = {<<id, m[id]>> : id \in stored}
  BY <1>2, <1>3, <1>4
<1> QED
  BY <1>5 DEF stored, m

-----------------------------------------------------------------------------
(***************************************************************************)
(* No id is out of step with the store.                                    *)
(***************************************************************************)
NoDivergence == diverged = {}

(***************************************************************************)
(* Without failed index calls no id is ever out of step.                   *)
(***************************************************************************)
LEMMA NoFaultNoDivergence ==
  ASSUME MaxFaults = 0
  PROVE  CoreSpec => []NoDivergence
<1>1. CoreInit => NoDivergence
  BY DEF CoreInit, NoDivergence
<1>2. EngineInv /\ NoDivergence /\ [CoreNext]_coreVars => NoDivergence'
  <2> SUFFICES ASSUME EngineInv, diverged = {}, [CoreNext]_coreVars
               PROVE  diverged' = {}
    BY DEF NoDivergence
  <2>1. faults \in 0 .. 0
    BY EngineInvParts
  <2>2. \A ok \in BOOLEAN : Outcome(ok) => ok
    BY <2>1 DEF Outcome
  <2>3. ASSUME NEW id \in Ids, NEW val \in Vals, Insert(id, val) PROVE diverged' = {}
    BY <2>3, <2>2 DEF Insert, InsertIndexStep, InsertDeferred, InsertApplied
  <2>4. ASSUME NEW id \in Ids, Delete(id) PROVE diverged' = {}
    BY <2>4, <2>2 DEF Delete, DeleteIndexStep, InsertDeferred, DeleteApplied
  <2>5. CASE EnsureReady \/ Optimize
    BY <2>5 DEF EnsureReady, Optimize, MaterializeCall, Materialize
  <2>6. ASSUME NEW q \in Queries, Search(q) \/ Evict(q) PROVE diverged' = {}
    BY <2>6 DEF Search, Evict
  <2>7. CASE UNCHANGED <<engineVars, faults>>
    BY <2>7 DEF engineVars
  <2>8. ASSUME NEW cfg \in BOOLEAN, Reload(cfg) PROVE diverged' = {}
    BY <2>8 DEF Reload, LoadFrom
  <2>9. CASE UNCHANGED coreVars
    BY <2>9, <2>7 DEF coreVars
  <2> QED
    BY <2>3, <2>4, <2>5, <2>6, <2>7, <2>8, <2>9 DEF CoreNext, GetRow, CoreLen
<1> QED
  BY <1>1, <1>2, EngineInvariant, PTL DEF CoreSpec

(***************************************************************************)
(* While index calls succeed the engine is the abstract map: upsert,       *)
(* delete, get and len answer as the map does, a search answered through   *)
(* the cache and the derived index ranks exactly the rows of the map, and  *)
(* training, rebuilds, evictions and reloads are invisible.                *)
(***************************************************************************)
THEOREM EngineImplementsMap ==
  ASSUME MaxFaults = 0
  PROVE  CoreSpec => CoreImplementsMap
<1> DEFINE m == RowsMap(store.rows, Ids, Absent)
<1>1. CoreInit => Map!Init
  BY DEF CoreInit, EmptyStore, Map!Init, RowsMap
<1>2. EngineInv /\ NoDivergence /\ [CoreNext]_coreVars => [Map!Next]_(Map!mapVars)
  <2> SUFFICES ASSUME EngineInv, diverged = {}, [CoreNext]_coreVars
               PROVE  [Map!Next]_(Map!mapVars)
    BY DEF NoDivergence
  <2>0. /\ StoreType(store, Ids, Vals) /\ StoreSound(store)
        /\ CacheOK(cache, cache_cfg, index.entries)
        /\ IndexOK(kind, store, index, ivf_dirty, diverged)
        /\ faults \in 0 .. 0
    BY EngineInvParts DEF StoreOK
  <2>1. \A ok \in BOOLEAN : Outcome(ok) => ok
    BY <2>0 DEF Outcome
  <2>2. /\ m = [x \in Ids |-> IF x \in DOMAIN store.index
                              THEN StoreGet(store, x).val ELSE Absent]
        /\ \A x \in DOMAIN store.index :
             StoreGet(store, x).val \in Vals /\ StoreGet(store, x).val # Absent
    <3>1. \A p \in 1 .. Len(store.rows) : store.rows[p] \in [id : Ids, val : Vals]
      BY <2>0, ElementOfSeq DEF StoreType
    <3>2. \A x \in DOMAIN store.index : StoreGet(store, x).val \in Vals
      BY <3>1, <2>0 DEF StoreGet, StoreSound
    <3> QED
      BY <3>2, <2>0, ScanIsLookup, CoreAssumption
  <2>3. Map!Stored = {x \in Ids : m[x] # Absent}
    BY DEF Map!Stored
  <2>4. \A x \in Ids : (x \in Map!Stored) = StoreContains(store, x)
    BY <2>2, <2>3 DEF StoreContains
  <2>5. ASSUME NEW id \in Ids, NEW val \in Vals, Insert(id, val)
        PROVE  Map!Put(id, val)
    <3>1. /\ store' = StoreUpsert(store, id, val)
          /\ ret' = [op |-> "upsert", id |-> id, newly |-> ~StoreContains(store, id)]
      BY <2>5, <2>1 DEF Insert, InsertStoreStep
    <3>2. RowsMap(StoreUpsert(store, id, val).rows, Ids, Absent)
            = [RowsMap(store.rows, Ids, Absent) EXCEPT ![id] = val]
      BY <2>0, UpsertMap
    <3>3. m' = [m EXCEPT ![id] = val]
      BY <3>1, <3>2
    <3> QED
      BY <3>1, <3>3, <2>4 DEF Map!Put
  <2>6. ASSUME NEW id \in Ids, Delete(id)
        PROVE  Map!Del(id)
    <3>1. /\ store' = StoreRemove(store, id)
          /\ ret' = [op |-> "delete", id |-> id, existed |-> StoreContains(store, id)]
      BY <2>6, <2>1 DEF Delete, DeleteStoreStep
    <3>2. m' = [m EXCEPT ![id] = Absent]
      BY <2>0, <3>1, RemoveMap
    <3> QED
      BY <3>1, <3>2, <2>4 DEF Map!Del
  <2>7. ASSUME NEW dirty, MaterializeCall(dirty) PROVE UNCHANGED <<store, ret>>
    BY <2>7, <2>1 DEF MaterializeCall
  <2>8. ASSUME NEW q \in Queries, Search(q) PROVE Map!Search
    <3>1. /\ ret' = [op |-> "search", hits |-> Hits(Answer(q))]
          /\ store' = store /\ ~ivf_dirty
      BY <2>8 DEF Search
    <3>2. Answer(q) = index.entries
      BY <2>0 DEF Answer, CacheOK
    <3>3. \A id \in Ids : index.entries[id] = RowsOf(store, id)
      BY <2>0, <3>1 DEF IndexOK
    <3>4. Hits(index.entries) = {<<id, m[id]>> : id \in Map!Stored}
      BY <2>0, <2>3, <3>3, HitsAreTheMap DEF StoreOK, StoreMap
    <3> QED
      BY <3>1, <3>2, <3>4 DEF Map!Search
  <2>9. ASSUME NEW id \in Ids, GetRow(id) PROVE Map!Get(id)
    <3>1. /\ ret' = [op |-> "get", id |-> id,
                     row |-> IF StoreContains(store, id) THEN StoreGet(store, id).val
                                                         ELSE Absent]
          /\ store' = store
      BY <2>9 DEF GetRow, engineVars
    <3> QED
      BY <3>1, <2>2 DEF Map!Get, StoreContains
  <2>10. CASE CoreLen
    <3>1. ret' = [op |-> "len", n |-> StoreLen(store)] /\ store' = store
      BY <2>10 DEF CoreLen, engineVars
    <3>2. Cardinality(Map!Stored) = StoreLen(store)
      BY <2>0, <2>3, LenCountsIds, CoreAssumption DEF StoreLen
    <3>3. Map!Cardinality(Map!Stored) = Cardinality(Map!Stored)
      BY DEF Map!Cardinality, Cardinality
    <3>4. Map!Size
      BY <3>1, <3>2, <3>3 DEF Map!Size
    <3> QED
      BY <3>4 DEF Map!Next
  <2>11. ASSUME NEW q \in Queries, Evict(q) PROVE UNCHANGED <<store, ret>>
    BY <2>11 DEF Evict
  <2>12. ASSUME NEW cfg \in BOOLEAN, Reload(cfg) PROVE UNCHANGED <<store, ret>>
    <3>1. LoadedStore(store.rows) = store
      BY <2>0, LoadedIsSaved
    <3> QED
      BY <3>1, <2>12 DEF Reload, LoadFrom
  <2>13. CASE UNCHANGED <<store, ret>>
    BY <2>13 DEF Map!mapVars
  <2>14. CASE UNCHANGED coreVars
    BY <2>14, <2>13 DEF coreVars, engineVars
  <2> QED
    BY <2>5, <2>6, <2>7, <2>8, <2>9, <2>10, <2>11, <2>12, <2>13, <2>14
    DEF CoreNext, EnsureReady, Optimize, Map!Next
<1> QED
  BY <1>1, <1>2, EngineInvariant, NoFaultNoDivergence, PTL
  DEF CoreSpec, CoreImplementsMap, Map!Spec

=============================================================================
