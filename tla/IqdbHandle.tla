----------------------------- MODULE IqdbHandle -----------------------------
(***************************************************************************)
(* The public handle of src/handle.rs: threads that share one Iqdb call it *)
(* at the same time, and every call goes through one RwLock.  A call is    *)
(* taken apart at each point where another thread may run: before a guard  *)
(* is taken, between the calls made under it, and before it is dropped.    *)
(*                                                                         *)
(* The backend is the in-memory one (Storage::Memory); DurableHandle puts  *)
(* the file-backed one in its place.  A search is a batch of one query; a  *)
(* batch takes a guard for each of its queries.  The result cache has a    *)
(* lock of its own, so the threads that share a read guard interleave      *)
(* between its lookup and the store of a new result.  A panic under the    *)
(* write guard leaves what a failed index call leaves and poisons the      *)
(* lock, which read() and write() ignore, so it is the failed call of this *)
(* model.                                                                  *)
(***************************************************************************)
EXTENDS IqdbCore

CONSTANTS Threads,
          NoThread,
          MaxCalls,  \* bound: calls made in a behaviour, all threads together
          MaxBatch   \* bound: the queries of a batch

ASSUME HandleAssumption == /\ NoThread \notin Threads
                           /\ MaxCalls \in Nat /\ MaxBatch \in Nat \ {0}

VARIABLES readers,    \* the threads that hold a read guard
          writer,     \* the thread that holds the write guard
          pc,         \* where each thread is in its call
          call,       \* the call each thread makes, with its arguments
          answer,     \* the result a thread is about to return
          calls,      \* how many calls have been made
          committed   \* history: the map at the latest release of a write guard

lockVars == <<readers, writer>>
threadVars == <<pc, call, answer, calls>>
handleVars == <<coreVars, lockVars, threadVars, committed>>

Calls == [op : {"upsert"}, id : Ids, val : Vals]
           \cup [op : {"delete", "get"}, id : Ids]
           \cup [op : {"search"}, q : Queries, rest : 0 .. MaxBatch - 1]
           \cup [op : {"len", "optimize", "flush"}]

NoCall == [op |-> "none"]
Failed == [op |-> "error"]

NoThreadInside ==
  /\ readers = {}
  /\ writer = NoThread
  /\ pc = [t \in Threads |-> "idle"]
  /\ call = [t \in Threads |-> NoCall]
  /\ answer = [t \in Threads |-> NoCall]
  /\ calls = 0
  /\ committed = StoreMap

HandleInit == CoreInit /\ NoThreadInside

Goto(t, label) == pc' = [pc EXCEPT ![t] = label]
Result(t, r) == answer' = [answer EXCEPT ![t] = r]

-----------------------------------------------------------------------------
(* A call begins; get, len and search ask for a read guard first. *)
Begin(t) ==
  /\ pc[t] = "idle" /\ calls < MaxCalls
  /\ \E c \in Calls :
       /\ call' = [call EXCEPT ![t] = c]
       /\ Goto(t, IF c.op \in {"get", "len", "search"} THEN "want_read"
                                                       ELSE "want_write")
  /\ calls' = calls + 1
  /\ UNCHANGED <<coreVars, lockVars, answer, committed>>

\* check_dim: a vector of the wrong dimensionality is refused before any guard.
RejectDim(t) ==
  /\ pc[t] = "idle" /\ calls < MaxCalls
  /\ \E op \in {"upsert", "search"} : call' = [call EXCEPT ![t] = [op |-> op]]
  /\ Goto(t, "done")
  /\ Result(t, Failed)
  /\ calls' = calls + 1
  /\ UNCHANGED <<coreVars, lockVars, committed>>

\* A slip in the lock discipline: the writer does not wait for the readers.
AcquireWrite_PastReaders(t) ==
  /\ pc[t] = "want_write"
  /\ writer = NoThread
  /\ writer' = t
  /\ Goto(t, "writing")
  /\ UNCHANGED <<coreVars, readers, call, answer, calls, committed>>

AcquireRead(t) ==
  /\ pc[t] = "want_read"
  /\ writer = NoThread
  /\ readers' = readers \cup {t}
  /\ Goto(t, "reading")
  /\ UNCHANGED <<coreVars, writer, call, answer, calls, committed>>

AcquireWrite(t) ==
  /\ pc[t] = "want_write"
  /\ writer = NoThread /\ readers = {}
  /\ writer' = t
  /\ Goto(t, "writing")
  /\ UNCHANGED <<coreVars, readers, call, answer, calls, committed>>

-----------------------------------------------------------------------------
(* get and len, under the read guard.  get validates the row again with    *)
(* Vector::new; every row passed Vector::new or the codec's checks on its  *)
(* way in, so the error of that call is left out.                          *)
ReadStore(t) ==
  LET c == call[t]
  IN  /\ pc[t] = "reading"
      /\ \/ /\ c.op = "get"
            /\ Result(t, [op |-> "get", id |-> c.id, row |->
                            IF StoreContains(store, c.id)
                            THEN StoreGet(store, c.id).val ELSE Absent])
         \/ /\ c.op = "len"
            /\ Result(t, [op |-> "len", n |-> StoreLen(store)])
      /\ Goto(t, "unlock")
      /\ UNCHANGED <<coreVars, lockVars, call, calls, committed>>

\* A slip in search_inner: the read guard is still held when the write guard
\* is asked for.
FastPath_KeepsGuard(t) ==
  /\ pc[t] = "reading" /\ call[t].op = "search"
  /\ \/ /\ ivf_dirty
        /\ Goto(t, "want_write")
        /\ UNCHANGED answer
     \/ /\ ~ivf_dirty
        /\ Result(t, [op |-> "search", hits |-> Hits(Answer(call[t].q))])
        /\ Goto(t, "unlock")
  /\ UNCHANGED <<coreVars, lockVars, call, calls, committed>>

(***************************************************************************)
(* search_inner, fast path: an empty store answers at once, an index that  *)
(* needs no materialization is searched under the read guard; otherwise    *)
(* the guard is dropped, and only then the write guard asked for.          *)
(***************************************************************************)
FastPath(t) ==
  /\ pc[t] = "reading" /\ call[t].op = "search"
  /\ \/ /\ StoreIsEmpty(store)
        /\ Result(t, [op |-> "search", hits |-> {}])
        /\ Goto(t, "unlock")
        /\ UNCHANGED readers
     \/ /\ ~StoreIsEmpty(store) /\ ~ivf_dirty
        /\ Goto(t, "search")
        /\ UNCHANGED <<readers, answer>>
     \/ /\ ~StoreIsEmpty(store) /\ ivf_dirty
        /\ readers' = readers \ {t}
        /\ Goto(t, "want_write")
        /\ UNCHANGED answer
  /\ UNCHANGED <<coreVars, writer, call, calls, committed>>

\* A slip in search_inner: what the fast path saw is not checked again.
SlowPath_NoRecheck(t) ==
  /\ pc[t] = "writing" /\ call[t].op = "search"
  /\ \E ok \in BOOLEAN :
       /\ Outcome(ok)
       /\ Materialize(ivf_dirty, ok)
       /\ Goto(t, IF ok THEN "search" ELSE "unlock")
       /\ answer' = IF ok THEN answer ELSE [answer EXCEPT ![t] = Failed]
  /\ UNCHANGED <<kind, store, cache_cfg, ret, lockVars, call, calls, committed>>

\* search_inner, slow path: checked again, since the store may have been
\* emptied or another thread may have built the index in between.
SlowPath(t) ==
  /\ pc[t] = "writing" /\ call[t].op = "search"
  /\ \/ /\ StoreIsEmpty(store)
        /\ Result(t, [op |-> "search", hits |-> {}])
        /\ Goto(t, "unlock")
        /\ UNCHANGED <<index, cache, ivf_dirty, diverged, faults>>
     \/ /\ ~StoreIsEmpty(store)
        /\ \E ok \in BOOLEAN :
             /\ Outcome(ok)
             /\ Materialize(ivf_dirty, ok)
             /\ Goto(t, IF ok THEN "search" ELSE "unlock")
             /\ answer' = IF ok THEN answer ELSE [answer EXCEPT ![t] = Failed]
  /\ UNCHANGED <<kind, store, cache_cfg, ret, lockVars, call, calls, committed>>

(***************************************************************************)
(* The search itself, under whichever guard its thread holds: the cache    *)
(* answers a query it holds; otherwise the index does, or fails, and what  *)
(* it found is put in the cache by a step of its own.                      *)
(***************************************************************************)
SearchCached(t) ==
  /\ pc[t] = "search"
  /\ cache.on /\ call[t].q \in DOMAIN cache.results
  /\ Result(t, [op |-> "search", hits |-> Hits(cache.results[call[t].q])])
  /\ Goto(t, "unlock")
  /\ UNCHANGED <<coreVars, lockVars, call, calls, committed>>

SearchIndex(t) ==
  /\ pc[t] = "search"
  /\ ~(cache.on /\ call[t].q \in DOMAIN cache.results)
  /\ \E ok \in BOOLEAN :
       /\ Outcome(ok)
       /\ Result(t, IF ok THEN [op |-> "search", found |-> index.entries] ELSE Failed)
       /\ Goto(t, IF ok THEN "found" ELSE "unlock")
  /\ UNCHANGED <<engineVars, ret, lockVars, call, calls, committed>>

Remember(t) ==
  /\ pc[t] = "found"
  /\ Result(t, [op |-> "search", hits |-> Hits(answer[t].found)])
  /\ cache' = IF cache.on
              THEN [on |-> TRUE,
                    results |-> MapInsert(cache.results, call[t].q, answer[t].found)]
              ELSE cache
  /\ Goto(t, "unlock")
  /\ UNCHANGED <<kind, store, index, cache_cfg, ivf_dirty, diverged, faults, ret,
                 lockVars, call, calls, committed>>

-----------------------------------------------------------------------------
(***************************************************************************)
(* upsert and delete, under the write guard: the store step, with the      *)
(* result that depends on the store before it, then the index step.        *)
(***************************************************************************)
StoreCall(t) ==
  LET c == call[t]
  IN  /\ \/ /\ c.op = "upsert"
            /\ InsertStoreStep(c.id, c.val)
            /\ Result(t, [op |-> "upsert", id |-> c.id,
                          newly |-> ~StoreContains(store, c.id)])
         \/ /\ c.op = "delete"
            /\ DeleteStoreStep(c.id)
            /\ Result(t, [op |-> "delete", id |-> c.id,
                          existed |-> StoreContains(store, c.id)])
      /\ Goto(t, "index")
      /\ UNCHANGED <<kind, index, cache, cache_cfg, ivf_dirty, diverged, faults,
                     ret, lockVars, call, calls, committed>>

WriteStore(t) == pc[t] = "writing" /\ StoreCall(t)

WriteIndex(t) ==
  LET c == call[t]
  IN  /\ pc[t] = "index"
      /\ \E ok \in BOOLEAN :
           /\ Outcome(ok)
           /\ \/ c.op = "upsert" /\ InsertIndexStep(answer[t].newly, c.id, c.val, ok)
              \/ c.op = "delete" /\ DeleteIndexStep(c.id, ok)
           /\ answer' = IF ok THEN answer ELSE [answer EXCEPT ![t] = Failed]
      /\ Goto(t, "unlock")
      /\ UNCHANGED <<kind, store, cache_cfg, ret, lockVars, call, calls, committed>>

OptimizeCall(t) ==
  /\ pc[t] = "writing" /\ call[t].op = "optimize"
  /\ \E ok \in BOOLEAN :
       /\ Outcome(ok)
       /\ Materialize(ivf_dirty \/ kind = "ivf", ok)
       /\ Result(t, IF ok THEN [op |-> "optimize"] ELSE Failed)
  /\ Goto(t, "unlock")
  /\ UNCHANGED <<kind, store, cache_cfg, ret, lockVars, call, calls, committed>>

\* flush: a checkpoint of the in-memory backend does nothing.
FlushMemory(t) ==
  /\ pc[t] = "writing" /\ call[t].op = "flush"
  /\ Result(t, [op |-> "flush"])
  /\ Goto(t, "unlock")
  /\ UNCHANGED <<coreVars, lockVars, call, calls, committed>>

-----------------------------------------------------------------------------
(***************************************************************************)
(* A guard is dropped.  This is the moment at which a call takes effect    *)
(* for the others; the answer of a call that is one of the map's           *)
(* operations becomes the latest answer of the database.                   *)
(***************************************************************************)
Unlock(t) ==
  /\ pc[t] = "unlock"
  /\ readers' = readers \ {t}
  /\ writer' = IF writer = t THEN NoThread ELSE writer
  /\ committed' = IF writer = t THEN StoreMap ELSE committed
  /\ ret' = IF call[t].op \in {"optimize", "flush"} THEN ret ELSE answer[t]
  /\ Goto(t, "done")
  /\ UNCHANGED <<engineVars, faults, call, answer, calls>>

\* search_batch goes on to its next query, whose dimensionality may be wrong.
More(t) == call[t].op = "search" /\ answer[t] # Failed /\ call[t].rest > 0

NextQuery(t) ==
  /\ pc[t] = "done" /\ More(t)
  /\ \/ /\ \E q \in Queries :
             call' = [call EXCEPT ![t] = [op |-> "search", q |-> q,
                                          rest |-> call[t].rest - 1]]
        /\ Goto(t, "want_read")
        /\ Result(t, NoCall)
     \/ /\ Result(t, Failed)
        /\ UNCHANGED <<call, pc>>
  /\ UNCHANGED <<coreVars, lockVars, calls, committed>>

Return(t) ==
  /\ pc[t] = "done" /\ ~More(t)
  /\ Goto(t, "idle")
  /\ call' = [call EXCEPT ![t] = NoCall]
  /\ Result(t, NoCall)
  /\ UNCHANGED <<coreVars, lockVars, calls, committed>>

CacheEvicts ==
  /\ \E q \in Queries : Evict(q)
  /\ UNCHANGED <<lockVars, threadVars, committed>>

\* The steps that are the same for both backends.
ReadStep(t) ==
  \/ AcquireRead(t) \/ AcquireWrite(t)
  \/ ReadStore(t) \/ FastPath(t) \/ SlowPath(t)
  \/ SearchCached(t) \/ SearchIndex(t) \/ Remember(t)
  \/ OptimizeCall(t) \/ NextQuery(t) \/ Return(t)

Step(t) == ReadStep(t) \/ WriteStore(t) \/ WriteIndex(t) \/ FlushMemory(t) \/ Unlock(t)

Finished == /\ calls = MaxCalls
            /\ \A t \in Threads : pc[t] = "idle"
            /\ UNCHANGED handleVars

HandleNext ==
  \/ \E t \in Threads : Begin(t) \/ RejectDim(t) \/ Step(t)
  \/ CacheEvicts
  \/ Finished

\* A thread that can move does: the scheduler runs every runnable thread.
Fairness == \A t \in Threads : WF_handleVars(Step(t))

HandleSpec == HandleInit /\ [][HandleNext]_handleVars
LiveHandleSpec == HandleSpec /\ Fairness

-----------------------------------------------------------------------------
(***************************************************************************)
(* A search only ever reads an index that is ready: trained, not dirty,    *)
(* over a store that is not empty.  The checks were made earlier in the    *)
(* call, and the guard held since, or checked again under the write guard, *)
(* is what keeps another thread's write from undoing them.                 *)
(***************************************************************************)
SearchesReadyIndex ==
  \A t \in Threads : pc[t] \in {"search", "found"} =>
    ~StoreIsEmpty(store) /\ ~ivf_dirty /\ ~NeedsTraining(kind, index)

(***************************************************************************)
(* Whenever no thread holds the write guard the index is in step with the  *)
(* store and the cache with the index, so a reader never sees the middle   *)
(* of an upsert or a delete.  The ids of failed index calls (diverged) are *)
(* excused: of these it says that the damage stays with them until a later *)
(* call heals it, and that the cache agrees with the index on them too.    *)
(***************************************************************************)
InStepBetweenWrites == writer = NoThread => IndexInStep /\ CacheNeverStale

AtomicMap == INSTANCE VectorMap WITH map <- committed

(***************************************************************************)
(* The handle is linearizable: every call takes effect, with the answer    *)
(* the abstract map gives, at one moment between its begin and its return  *)
(* (the drop of its last guard).  In particular two concurrent deletes of  *)
(* one id never both report that it existed, and a search that waited to   *)
(* build the IVF index answers for the map of that moment.                 *)
(***************************************************************************)
Linearizable == AtomicMap!Spec

(***************************************************************************)
(* Every call returns: no call waits for a guard its own thread holds, and *)
(* every guard is dropped, on the error paths too.                         *)
(***************************************************************************)
CallsReturn == \A t \in Threads : pc[t] # "idle" ~> pc[t] = "idle"

=============================================================================
