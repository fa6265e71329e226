-------------------------- MODULE IqdbHandleProofs --------------------------
(***************************************************************************)
(* Proofs about the concurrent handle, for any number of threads, calls,   *)
(* ids, values and index faults: the guards exclude, a search reads only a *)
(* ready index, readers never see the middle of a write, and, while index  *)
(* calls succeed, the handle is linearizable.                              *)
(***************************************************************************)
EXTENDS IqdbHandle, IqdbCoreProofs

\* Where a thread may be; "logged" and "reset" are places in a call of the
\* file-backed handle, which keeps this invariant too (DurableHandleProofs).
Labels == {"idle", "want_read", "want_write", "reading", "writing", "logged",
           "reset", "search", "found", "index", "unlock", "done"}

\* Where a thread holds neither guard.
Outside == {"idle", "want_read", "want_write", "done"}

(* The inductive invariant, in parts. *)

\* Who holds which guard follows from where the threads are, and a writer
\* excludes everyone else.
GuardsOK ==
  /\ pc \in [Threads -> Labels]
  /\ readers \subseteq Threads
  /\ writer \in Threads \cup {NoThread}
  /\ \A t \in Threads :
       /\ t \in readers => pc[t] \in {"reading", "search", "found", "unlock"}
       /\ writer = t => pc[t] \in {"writing", "logged", "reset", "search", "found",
                                   "index", "unlock"}
       /\ pc[t] = "reading" => t \in readers
       /\ pc[t] \in {"writing", "logged", "reset", "index"} => writer = t
       /\ pc[t] \in {"search", "found", "unlock"} => t \in readers \/ writer = t
  /\ writer # NoThread => readers = {}

\* A thread inside a call has one, of the sort its place asks for.
CallsOK ==
  /\ call = [t \in Threads |-> call[t]]
  /\ answer = [t \in Threads |-> answer[t]]
  /\ \A t \in Threads :
       /\ pc[t] \notin {"idle", "done"} => call[t] \in Calls
       /\ pc[t] = "done" /\ answer[t] # Failed => call[t] \in Calls
       /\ pc[t] \in {"want_read", "reading"} => call[t].op \in {"get", "len", "search"}
       /\ pc[t] \in {"want_write", "writing"}
            => call[t].op \in {"upsert", "delete", "search", "optimize", "flush"}
       /\ pc[t] \in {"search", "found"} => call[t].op = "search"
       /\ pc[t] \in {"logged", "index"} => call[t].op \in {"upsert", "delete"}
       /\ pc[t] = "reset" => call[t].op = "flush"

\* Between the two steps of a write the store is ahead of the index at one id.
HalfWritten(t) ==
  LET c == call[t]
  IN  /\ kind \in Kinds /\ cache_cfg \in BOOLEAN
      /\ diverged \subseteq Ids /\ faults \in 0 .. MaxFaults
      /\ StoreOK
      /\ CacheOK(cache, cache_cfg, index.entries)
      /\ IndexOK(kind, store, index, ivf_dirty, diverged \cup {c.id})
      /\ c.op = "upsert" =>
           /\ RowsOf(store, c.id) = <<c.val>>
           /\ answer[t].newly \in BOOLEAN
           /\ answer[t].newly /\ ~NeedsTraining(kind, index) /\ c.id \notin diverged
                => index.entries[c.id] = <<>>
      /\ c.op = "delete" => RowsOf(store, c.id) = <<>>

EngineOK ==
  /\ (\A t \in Threads : pc[t] # "index") => EngineInv
  /\ \A t \in Threads : pc[t] = "index" => HalfWritten(t)

\* What a search found is still what the index would answer.
FoundIsCurrent ==
  \A t \in Threads : pc[t] = "found" => answer[t].found = index.entries

HandleInv == GuardsOK /\ CallsOK /\ EngineOK /\ SearchesReadyIndex /\ FoundIsCurrent

-----------------------------------------------------------------------------
(***************************************************************************)
(* What the record of a call holds, by its operation.                      *)
(***************************************************************************)
LEMMA CallFields ==
  ASSUME NEW c \in Calls
  PROVE  /\ c.op \in {"upsert", "delete", "get", "search", "len", "optimize", "flush"}
         /\ c.op \in {"upsert", "delete", "get"} => c.id \in Ids
         /\ c.op = "upsert" => c.val \in Vals
         /\ c.op = "search" => /\ c \in [op : {"search"}, q : Queries,
                                         rest : 0 .. MaxBatch - 1]
                               /\ c.q \in Queries
BY DEF Calls

(***************************************************************************)
(* A thread that holds the write guard is alone: all others are outside.   *)
(***************************************************************************)
LEMMA WriterAlone ==
  ASSUME GuardsOK, NEW t \in Threads, writer = t,
         NEW u \in Threads, u # t
  PROVE  pc[u] \in Outside
BY HandleAssumption DEF GuardsOK, Labels, Outside

(***************************************************************************)
(* The engine's part of the invariant reads the engine's variables only.   *)
(***************************************************************************)
LEMMA EngineStutter ==
  ASSUME UNCHANGED <<engineVars, faults>>
  PROVE  /\ EngineInv' <=> EngineInv
         /\ StoreOK' <=> StoreOK
BY DEF engineVars, EngineInv, CoreTypeOK, IndexInStep, CacheNeverStale, StoreOK

(***************************************************************************)
(* While a thread holds the write guard and is not between the two steps   *)
(* of a write, the engine is in step.                                      *)
(***************************************************************************)
LEMMA EngineAtRest ==
  ASSUME GuardsOK, EngineOK, NEW t \in Threads, pc[t] # "index",
         t \in readers \/ writer = t
  PROVE  EngineInv /\ \A u \in Threads : pc[u] # "index"
<1>1. ASSUME NEW u \in Threads, pc[u] = "index" PROVE FALSE
  <2>1. writer = u /\ u # t
    BY <1>1 DEF GuardsOK
  <2>2. pc[t] \in Outside
    BY <2>1, WriterAlone
  <2> QED
    BY <2>1, <2>2, HandleAssumption DEF GuardsOK, Outside
<1> QED
  BY <1>1 DEF EngineOK

-----------------------------------------------------------------------------
(***************************************************************************)
(* Every step respects the guards: a reader enters only where no writer    *)
(* is, a writer only where nobody is, and each leaves what it took.        *)
(***************************************************************************)
LEMMA GuardsStep == GuardsOK /\ [HandleNext]_handleVars => GuardsOK'
<1> SUFFICES ASSUME GuardsOK, [HandleNext]_handleVars PROVE GuardsOK'
  OBVIOUS
<1> USE HandleAssumption DEF GuardsOK, Labels, Goto, lockVars
<1>1. ASSUME NEW t \in Threads, Begin(t) PROVE GuardsOK'
  BY <1>1 DEF Begin
<1>2. ASSUME NEW t \in Threads, RejectDim(t) PROVE GuardsOK'
  BY <1>2 DEF RejectDim
<1>3. ASSUME NEW t \in Threads, AcquireRead(t) PROVE GuardsOK'
  BY <1>3 DEF AcquireRead
<1>4. ASSUME NEW t \in Threads, AcquireWrite(t) PROVE GuardsOK'
  BY <1>4 DEF AcquireWrite
<1>5. ASSUME NEW t \in Threads, ReadStore(t) PROVE GuardsOK'
  BY <1>5 DEF ReadStore
<1>6. ASSUME NEW t \in Threads, FastPath(t) PROVE GuardsOK'
  BY <1>6 DEF FastPath
<1>7. ASSUME NEW t \in Threads, SlowPath(t) PROVE GuardsOK'
  BY <1>7 DEF SlowPath
<1>8. ASSUME NEW t \in Threads, SearchCached(t) PROVE GuardsOK'
  BY <1>8 DEF SearchCached
<1>9. ASSUME NEW t \in Threads, SearchIndex(t) PROVE GuardsOK'
  BY <1>9 DEF SearchIndex
<1>10. ASSUME NEW t \in Threads, Remember(t) PROVE GuardsOK'
  BY <1>10 DEF Remember
<1>11. ASSUME NEW t \in Threads, WriteStore(t) PROVE GuardsOK'
  BY <1>11 DEF WriteStore, StoreCall
<1>12. ASSUME NEW t \in Threads, WriteIndex(t) PROVE GuardsOK'
  BY <1>12 DEF WriteIndex
<1>13. ASSUME NEW t \in Threads, OptimizeCall(t) PROVE GuardsOK'
  BY <1>13 DEF OptimizeCall
<1>14. ASSUME NEW t \in Threads, FlushMemory(t) PROVE GuardsOK'
  BY <1>14 DEF FlushMemory
<1>15. ASSUME NEW t \in Threads, Unlock(t) PROVE GuardsOK'
  BY <1>15 DEF Unlock
<1>16. ASSUME NEW t \in Threads, NextQuery(t) PROVE GuardsOK'
  BY <1>16 DEF NextQuery
<1>17. ASSUME NEW t \in Threads, Return(t) PROVE GuardsOK'
  BY <1>17 DEF Return
<1>18. CASE CacheEvicts
  BY <1>18 DEF CacheEvicts, threadVars
<1>19. CASE UNCHANGED handleVars
  BY <1>19 DEF handleVars, threadVars
<1> QED
  BY <1>1, <1>2, <1>3, <1>4, <1>5, <1>6, <1>7, <1>8, <1>9, <1>10, <1>11, <1>12, <1>13, <1>14, <1>15, <1>16, <1>17, <1>18, <1>19
  DEF HandleNext, Step, ReadStep, Finished

(***************************************************************************)
(* Every step keeps a thread's call one that its next step knows.          *)
(***************************************************************************)
LEMMA CallsStep ==
  GuardsOK /\ CallsOK /\ [HandleNext]_handleVars => CallsOK'
<1> SUFFICES ASSUME GuardsOK, CallsOK, [HandleNext]_handleVars PROVE CallsOK'
  OBVIOUS
<1>0. pc \in [Threads -> Labels]
  BY DEF GuardsOK
<1> USE <1>0, CallFields DEF CallsOK, Labels, Goto, Result
<1>1. ASSUME NEW t \in Threads, Begin(t) PROVE CallsOK'
  BY <1>1 DEF Begin
<1>2. ASSUME NEW t \in Threads, RejectDim(t) PROVE CallsOK'
  BY <1>2 DEF RejectDim
<1>3. ASSUME NEW t \in Threads, AcquireRead(t) PROVE CallsOK'
  BY <1>3 DEF AcquireRead
<1>4. ASSUME NEW t \in Threads, AcquireWrite(t) PROVE CallsOK'
  BY <1>4 DEF AcquireWrite
<1>5. ASSUME NEW t \in Threads, ReadStore(t) PROVE CallsOK'
  BY <1>5 DEF ReadStore
<1>6. ASSUME NEW t \in Threads, FastPath(t) PROVE CallsOK'
  BY <1>6 DEF FastPath
<1>7. ASSUME NEW t \in Threads, SlowPath(t) PROVE CallsOK'
  BY <1>7 DEF SlowPath
<1>8. ASSUME NEW t \in Threads, SearchCached(t) PROVE CallsOK'
  BY <1>8 DEF SearchCached
<1>9. ASSUME NEW t \in Threads, SearchIndex(t) PROVE CallsOK'
  BY <1>9 DEF SearchIndex
<1>10. ASSUME NEW t \in Threads, Remember(t) PROVE CallsOK'
  BY <1>10 DEF Remember
<1>11. ASSUME NEW t \in Threads, WriteStore(t) PROVE CallsOK'
  BY <1>11 DEF WriteStore, StoreCall
<1>12. ASSUME NEW t \in Threads, WriteIndex(t) PROVE CallsOK'
  BY <1>12 DEF WriteIndex
<1>13. ASSUME NEW t \in Threads, OptimizeCall(t) PROVE CallsOK'
  BY <1>13 DEF OptimizeCall
<1>14. ASSUME NEW t \in Threads, FlushMemory(t) PROVE CallsOK'
  BY <1>14 DEF FlushMemory
<1>15. ASSUME NEW t \in Threads, Unlock(t) PROVE CallsOK'
  BY <1>15 DEF Unlock
<1>16. ASSUME NEW t \in Threads, NextQuery(t) PROVE CallsOK'
  <2>1. CASE Result(t, Failed) /\ UNCHANGED <<call, pc>>
    BY <2>1, <1>16 DEF NextQuery
  <2>2. ASSUME NEW q \in Queries,
               call' = [call EXCEPT ![t] = [op |-> "search", q |-> q,
                                            rest |-> call[t].rest - 1]],
               Goto(t, "want_read"), Result(t, NoCall)
        PROVE  CallsOK'
    <3>1. /\ call[t] \in [op : {"search"}, q : Queries, rest : 0 .. MaxBatch - 1]
          /\ call[t].rest > 0
      BY <1>16 DEF NextQuery, More
    <3>2. call[t].rest - 1 \in 0 .. MaxBatch - 1
      BY <3>1, HandleAssumption
    <3>3. call'[t] \in Calls /\ call'[t].op = "search"
      BY <2>2, <3>2 DEF Calls
    <3> QED
      BY <2>2, <3>3
  <2> QED
    BY <2>1, <2>2, <1>16 DEF NextQuery
<1>17. ASSUME NEW t \in Threads, Return(t) PROVE CallsOK'
  BY <1>17 DEF Return
<1>18. CASE CacheEvicts
  BY <1>18 DEF CacheEvicts, threadVars
<1>19. CASE UNCHANGED handleVars
  BY <1>19 DEF handleVars, threadVars
<1> QED
  BY <1>1, <1>2, <1>3, <1>4, <1>5, <1>6, <1>7, <1>8, <1>9, <1>10, <1>11, <1>12, <1>13, <1>14, <1>15, <1>16, <1>17, <1>18, <1>19
  DEF HandleNext, Step, ReadStep, Finished

-----------------------------------------------------------------------------
(***************************************************************************)
(* A step that leaves the engine alone, and does not move a thread to or   *)
(* from the middle of a write, keeps the engine's part of the invariant.   *)
(***************************************************************************)
LEMMA QuietStep ==
  ASSUME EngineOK, UNCHANGED <<engineVars, faults>>,
         \A u \in Threads : /\ pc'[u] = "index" <=> pc[u] = "index"
                            /\ pc[u] = "index" => /\ call'[u] = call[u]
                                                  /\ answer'[u] = answer[u]
  PROVE  EngineOK'
<1>1. ASSUME NEW u \in Threads, pc'[u] = "index" PROVE HalfWritten(u)'
  <2>1. HalfWritten(u) /\ call'[u] = call[u] /\ answer'[u] = answer[u]
    BY <1>1 DEF EngineOK
  <2>2. StoreOK'
    BY <2>1, EngineStutter DEF HalfWritten
  <2> QED
    BY <2>1, <2>2 DEF HalfWritten, engineVars
<1> QED
  BY <1>1, EngineStutter DEF EngineOK

(***************************************************************************)
(* A materialization under the write guard keeps the engine in step; one   *)
(* that succeeds for the flag as it was leaves an index that is ready.     *)
(***************************************************************************)
LEMMA MaterializeStep ==
  ASSUME EngineInv, NEW dirty \in BOOLEAN, NEW ok \in BOOLEAN,
         dirty => kind = "ivf", ivf_dirty => dirty,
         Outcome(ok), Materialize(dirty, ok), UNCHANGED <<kind, store, cache_cfg>>
  PROVE  /\ EngineInv'
         /\ ok /\ ~StoreIsEmpty(store) => ~ivf_dirty' /\ ~NeedsTraining(kind', index')
<1>1. /\ kind \in Kinds /\ cache_cfg \in BOOLEAN /\ faults \in 0 .. MaxFaults
      /\ IndexOK(kind, store, index, ivf_dirty, diverged)
  BY EngineInvParts
<1>2. /\ diverged' \subseteq Ids
      /\ StoreOK'
      /\ CacheOK(cache', cache_cfg, index'.entries)
      /\ IndexOK(kind, store', index', ivf_dirty', diverged')
  BY MaterializeKeepsStep
<1>3. EngineInv'
  BY <1>1, <1>2, OutcomeBound, EngineInvNext
<1>4. ASSUME ok, ~StoreIsEmpty(store) PROVE ~ivf_dirty'
  BY <1>4 DEF Materialize
<1>5. ~ivf_dirty' => ~NeedsTraining(kind', index')
  BY <1>2 DEF IndexOK
<1> QED
  BY <1>3, <1>4, <1>5

(***************************************************************************)
(* The store step of a write leaves the store half a write ahead of the    *)
(* index, whether or not the write was logged first.                       *)
(***************************************************************************)
LEMMA StoreCallEngine ==
  ASSUME HandleInv, NEW t \in Threads, pc[t] \in {"writing", "logged"}, StoreCall(t)
  PROVE  EngineOK'
<1>0. /\ GuardsOK /\ CallsOK /\ EngineOK
      /\ pc \in [Threads -> Labels]
      /\ answer = [u \in Threads |-> answer[u]]
  BY DEF HandleInv, GuardsOK, CallsOK
<1> USE DEF Goto, Result
<1> DEFINE c == call[t]
<1>1. /\ writer = t /\ c \in Calls
      /\ EngineInv /\ \A u \in Threads : pc[u] # "index"
  BY <1>0, EngineAtRest DEF GuardsOK, CallsOK
<1>2. /\ pc'[t] = "index"
      /\ \A u \in Threads \ {t} : pc'[u] # "index"
      /\ call'[t] = call[t]
      /\ UNCHANGED <<kind, index, cache, cache_cfg, ivf_dirty, diverged, faults>>
  BY <1>0, <1>1 DEF StoreCall
<1>3. /\ kind \in Kinds /\ cache_cfg \in BOOLEAN
      /\ diverged \subseteq Ids /\ faults \in 0 .. MaxFaults
      /\ StoreOK
      /\ CacheOK(cache, cache_cfg, index.entries)
      /\ IndexOK(kind, store, index, ivf_dirty, diverged)
  BY <1>1, EngineInvParts
<1>4. CASE c.op = "upsert"
  <2>1. /\ InsertStoreStep(c.id, c.val)
        /\ answer'[t].newly = ~StoreContains(store, c.id)
    BY <1>0, <1>4 DEF StoreCall
  <2>2. c.id \in Ids /\ c.val \in Vals
    BY <1>1, <1>4, CallFields
  <2>3. /\ StoreOK'
        /\ RowsOf(store', c.id) = <<c.val>>
        /\ IndexOK(kind, store', index, ivf_dirty, diverged \cup {c.id})
        /\ ~StoreContains(store, c.id) /\ ~NeedsTraining(kind, index)
             /\ c.id \notin diverged => index.entries[c.id] = <<>>
    BY <2>1, <2>2, <1>3, InsertStoreKeepsStep
  <2>4. HalfWritten(t)'
    BY <2>1, <2>3, <1>2, <1>3, <1>4 DEF HalfWritten
  <2> QED
    BY <2>4, <1>2 DEF EngineOK
<1>5. CASE c.op = "delete"
  <2>1. DeleteStoreStep(c.id)
    BY <1>5 DEF StoreCall
  <2>2. c.id \in Ids
    BY <1>1, <1>5, CallFields
  <2>3. /\ StoreOK'
        /\ RowsOf(store', c.id) = <<>>
        /\ IndexOK(kind, store', index, ivf_dirty, diverged \cup {c.id})
    BY <2>1, <2>2, <1>3, DeleteStoreKeepsStep
  <2>4. HalfWritten(t)'
    BY <2>3, <1>2, <1>3, <1>5 DEF HalfWritten
  <2> QED
    BY <2>4, <1>2 DEF EngineOK
<1> QED
  BY <1>4, <1>5 DEF StoreCall

(***************************************************************************)
(* Every step keeps the engine in step with its store, or half a write     *)
(* away from it under the write guard.                                     *)
(***************************************************************************)
LEMMA EngineStep ==
  HandleInv /\ [HandleNext]_handleVars => EngineOK'
<1> SUFFICES ASSUME HandleInv, [HandleNext]_handleVars PROVE EngineOK'
  OBVIOUS
<1>0. /\ GuardsOK /\ CallsOK /\ EngineOK /\ FoundIsCurrent
      /\ pc \in [Threads -> Labels]
      /\ call = [t \in Threads |-> call[t]] /\ answer = [t \in Threads |-> answer[t]]
  BY DEF HandleInv, GuardsOK, CallsOK
<1> USE DEF Goto, Result
<1>1. ASSUME NEW t \in Threads,
             \/ Begin(t) \/ RejectDim(t) \/ AcquireRead(t) \/ AcquireWrite(t)
             \/ ReadStore(t) \/ FastPath(t) \/ SearchCached(t) \/ FlushMemory(t)
             \/ Unlock(t) \/ NextQuery(t) \/ Return(t)
      PROVE  EngineOK'
  <2>1. UNCHANGED <<engineVars, faults>>
    BY <1>1 DEF Begin, RejectDim, AcquireRead, AcquireWrite, ReadStore, FastPath,
                SearchCached, FlushMemory, Unlock, NextQuery, Return, coreVars
  <2>2. /\ pc[t] # "index" /\ pc'[t] # "index"
        /\ \A u \in Threads \ {t} : /\ pc'[u] = pc[u] /\ call'[u] = call[u]
                                    /\ answer'[u] = answer[u]
    BY <1>0, <1>1
    DEF Begin, RejectDim, AcquireRead, AcquireWrite, ReadStore, FastPath,
        SearchCached, FlushMemory, Unlock, NextQuery, Return
  <2> QED
    BY <2>1, <2>2, <1>0, QuietStep
<1>2. ASSUME NEW t \in Threads, SlowPath(t) PROVE EngineOK'
  <2>1. /\ pc[t] = "writing" /\ writer = t
        /\ EngineInv /\ \A u \in Threads : pc[u] # "index"
    BY <1>0, <1>2, EngineAtRest DEF SlowPath, GuardsOK
  <2>2. \A u \in Threads : pc'[u] # "index"
    BY <1>0, <1>2, <2>1 DEF SlowPath
  <2>3. CASE StoreIsEmpty(store)
    <3>1. UNCHANGED <<engineVars, faults>>
      BY <1>2, <2>3 DEF SlowPath, engineVars
    <3> QED
      BY <3>1, <2>1, <2>2, EngineStutter DEF EngineOK
  <2>4. CASE ~StoreIsEmpty(store)
    <3>1. PICK ok \in BOOLEAN : Outcome(ok) /\ Materialize(ivf_dirty, ok)
      BY <1>2, <2>4 DEF SlowPath
    <3>2. ivf_dirty \in BOOLEAN /\ (ivf_dirty => kind = "ivf")
      BY <2>1, EngineInvParts DEF IndexOK
    <3>3. UNCHANGED <<kind, store, cache_cfg>>
      BY <1>2 DEF SlowPath
    <3>4. EngineInv'
      BY <3>1, <3>2, <3>3, <2>1, MaterializeStep
    <3> QED
      BY <3>4, <2>2 DEF EngineOK
  <2> QED
    BY <2>3, <2>4
<1>3. ASSUME NEW t \in Threads, OptimizeCall(t) PROVE EngineOK'
  <2>1. /\ pc[t] = "writing" /\ writer = t
        /\ EngineInv /\ \A u \in Threads : pc[u] # "index"
    BY <1>0, <1>3, EngineAtRest DEF OptimizeCall, GuardsOK
  <2>2. \A u \in Threads : pc'[u] # "index"
    BY <1>0, <1>3, <2>1 DEF OptimizeCall
  <2>3. PICK ok \in BOOLEAN : Outcome(ok) /\ Materialize(ivf_dirty \/ kind = "ivf", ok)
    BY <1>3 DEF OptimizeCall
  <2>4. ivf_dirty \in BOOLEAN /\ (ivf_dirty => kind = "ivf")
    BY <2>1, EngineInvParts DEF IndexOK
  <2>5. UNCHANGED <<kind, store, cache_cfg>>
    BY <1>3 DEF OptimizeCall
  <2>6. (ivf_dirty \/ kind = "ivf") \in BOOLEAN
    BY <2>4
  <2>7. EngineInv'
    BY <2>1, <2>3, <2>4, <2>5, <2>6, MaterializeStep
  <2> QED
    BY <2>2, <2>7 DEF EngineOK
<1>4. ASSUME NEW t \in Threads, SearchIndex(t) PROVE EngineOK'
  <2>1. /\ EngineInv /\ \A u \in Threads : pc[u] # "index"
    BY <1>0, <1>4, EngineAtRest DEF SearchIndex, GuardsOK
  <2>2. \A u \in Threads : pc'[u] # "index"
    BY <1>0, <1>4, <2>1 DEF SearchIndex
  <2>3. faults' \in 0 .. MaxFaults /\ UNCHANGED engineVars
    BY <1>4, <2>1, EngineInvParts, OutcomeBound DEF SearchIndex
  <2>4. EngineInv'
    BY <2>1, <2>3 DEF engineVars, EngineInv, CoreTypeOK, IndexInStep, CacheNeverStale
  <2> QED
    BY <2>2, <2>4 DEF EngineOK
<1>5. ASSUME NEW t \in Threads, Remember(t) PROVE EngineOK'
  <2>1. /\ pc[t] = "found" /\ call[t].op = "search" /\ call[t] \in Calls
        /\ answer[t].found = index.entries
        /\ EngineInv /\ \A u \in Threads : pc[u] # "index"
    BY <1>0, <1>5, EngineAtRest DEF Remember, GuardsOK, CallsOK, FoundIsCurrent
  <2>2. \A u \in Threads : pc'[u] # "index"
    BY <1>0, <1>5, <2>1 DEF Remember
  <2>3. /\ kind \in Kinds /\ cache_cfg \in BOOLEAN
        /\ diverged \subseteq Ids /\ faults \in 0 .. MaxFaults
        /\ StoreOK
        /\ CacheOK(cache, cache_cfg, index.entries)
        /\ IndexOK(kind, store, index, ivf_dirty, diverged)
    BY <2>1, EngineInvParts
  <2>4. index.entries \in Entries /\ call[t].q \in Queries
    BY <2>1, <2>3, CallFields DEF IndexOK
  <2>5. /\ cache' = IF cache.on
                    THEN [on |-> TRUE,
                          results |-> MapInsert(cache.results, call[t].q, index.entries)]
                    ELSE cache
        /\ UNCHANGED <<kind, store, index, cache_cfg, ivf_dirty, diverged, faults>>
    BY <1>5, <2>1 DEF Remember
  <2>6. CacheOK(cache', cache_cfg', index'.entries)
    BY <2>3, <2>4, <2>5, FilledCacheOK
  <2>7. StoreOK'
    BY <2>3, <2>5 DEF StoreOK
  <2>8. EngineInv'
    BY <2>3, <2>5, <2>6, <2>7, EngineInvNext
  <2> QED
    BY <2>2, <2>8 DEF EngineOK
<1>6. ASSUME NEW t \in Threads, WriteStore(t) PROVE EngineOK'
  BY <1>6, StoreCallEngine DEF WriteStore
<1>7. ASSUME NEW t \in Threads, WriteIndex(t) PROVE EngineOK'
  <2> DEFINE c == call[t]
  <2>1. /\ pc[t] = "index" /\ writer = t /\ c \in Calls
        /\ c.op \in {"upsert", "delete"}
        /\ HalfWritten(t)
    BY <1>0, <1>7 DEF WriteIndex, GuardsOK, CallsOK, EngineOK
  <2>2. \A u \in Threads : pc'[u] # "index"
    BY <1>0, <1>7, <2>1, WriterAlone DEF WriteIndex, Outside
  <2>3. /\ kind \in Kinds /\ cache_cfg \in BOOLEAN
        /\ diverged \subseteq Ids /\ faults \in 0 .. MaxFaults
        /\ StoreOK
        /\ CacheOK(cache, cache_cfg, index.entries)
        /\ IndexOK(kind, store, index, ivf_dirty, diverged \cup {c.id})
        /\ c.op = "upsert" =>
             /\ RowsOf(store, c.id) = <<c.val>>
             /\ answer[t].newly \in BOOLEAN
             /\ answer[t].newly /\ ~NeedsTraining(kind, index) /\ c.id \notin diverged
                  => index.entries[c.id] = <<>>
        /\ c.op = "delete" => RowsOf(store, c.id) = <<>>
    BY <2>1 DEF HalfWritten
  <2>4. PICK ok \in BOOLEAN :
          /\ Outcome(ok)
          /\ \/ c.op = "upsert" /\ InsertIndexStep(answer[t].newly, c.id, c.val, ok)
             \/ c.op = "delete" /\ DeleteIndexStep(c.id, ok)
    BY <1>7 DEF WriteIndex
  <2>5. UNCHANGED <<kind, store, cache_cfg>>
    BY <1>7 DEF WriteIndex
  <2>6. c.id \in Ids /\ (c.op = "upsert" => c.val \in Vals)
    BY <2>1, CallFields
  <2>7. /\ diverged' \subseteq Ids
        /\ CacheOK(cache', cache_cfg, index'.entries)
        /\ IndexOK(kind, store, index', ivf_dirty', diverged')
    BY <2>3, <2>4, <2>6, InsertIndexKeepsStep, DeleteIndexKeepsStep
  <2>8. faults' \in 0 .. MaxFaults /\ StoreOK'
    BY <2>3, <2>4, <2>5, OutcomeBound DEF StoreOK
  <2>9. EngineInv'
    BY <2>3, <2>5, <2>7, <2>8, EngineInvNext
  <2> QED
    BY <2>2, <2>9 DEF EngineOK
<1>8. CASE CacheEvicts
  <2>1. PICK q \in Queries : Evict(q)
    BY <1>8 DEF CacheEvicts
  <2>2. /\ cache' = [on |-> cache.on, results |-> MapRemove(cache.results, q)]
        /\ UNCHANGED <<kind, store, index, cache_cfg, ivf_dirty, faults, diverged>>
        /\ UNCHANGED <<pc, call, answer>>
    BY <1>8, <2>1 DEF Evict, CacheEvicts, threadVars
  <2>3. ASSUME CacheOK(cache, cache_cfg, index.entries)
        PROVE  CacheOK(cache', cache_cfg', index'.entries)
    BY <2>2, <2>3, EvictedCacheOK
  <2>4. StoreOK => StoreOK'
    BY <2>2 DEF StoreOK
  <2>5. EngineInv => EngineInv'
    BY <2>2, <2>3, <2>4, EngineInvParts, EngineInvNext
  <2>6. ASSUME NEW u \in Threads, HalfWritten(u) PROVE HalfWritten(u)'
    BY <2>2, <2>3, <2>4, <2>6 DEF HalfWritten
  <2> QED
    BY <2>2, <2>5, <2>6, <1>0 DEF EngineOK
<1>9. CASE UNCHANGED handleVars
  BY <1>9, <1>0, QuietStep DEF handleVars, coreVars, threadVars
<1> QED
  BY <1>1, <1>2, <1>3, <1>4, <1>5, <1>6, <1>7, <1>8, <1>9
  DEF HandleNext, Step, ReadStep, Finished

(***************************************************************************)
(* Every step keeps the searches on a ready index, and what they found     *)
(* current: only a writer changes the index, and it is alone.              *)
(***************************************************************************)
LEMMA SearchStep ==
  HandleInv /\ [HandleNext]_handleVars => SearchesReadyIndex' /\ FoundIsCurrent'
<1> SUFFICES ASSUME HandleInv, [HandleNext]_handleVars
             PROVE  SearchesReadyIndex' /\ FoundIsCurrent'
  OBVIOUS
<1>0. /\ GuardsOK /\ CallsOK /\ EngineOK /\ SearchesReadyIndex /\ FoundIsCurrent
      /\ pc \in [Threads -> Labels]
      /\ answer = [t \in Threads |-> answer[t]]
  BY DEF HandleInv, GuardsOK, CallsOK
<1> DEFINE Ready == ~StoreIsEmpty(store) /\ ~ivf_dirty /\ ~NeedsTraining(kind, index)
<1> USE DEF Goto, Result
\* A step of t under which the index stays as it is.
<1>1. ASSUME NEW t \in Threads, UNCHANGED <<kind, store, index, ivf_dirty>>,
             \A u \in Threads \ {t} : pc'[u] = pc[u] /\ answer'[u] = answer[u],
             pc'[t] \in {"search", "found"} => Ready,
             pc'[t] = "found" => answer'[t].found = index.entries
      PROVE  SearchesReadyIndex' /\ FoundIsCurrent'
  BY <1>0, <1>1 DEF SearchesReadyIndex, FoundIsCurrent
\* A step of t under the write guard: the others are outside.
<1>2. ASSUME NEW t \in Threads, writer = t,
             \A u \in Threads \ {t} : pc'[u] = pc[u],
             pc'[t] = "search" => Ready', pc'[t] # "found"
      PROVE  SearchesReadyIndex' /\ FoundIsCurrent'
  <2>1. \A u \in Threads \ {t} : pc'[u] \notin {"search", "found"}
    BY <1>0, <1>2, WriterAlone DEF Outside
  <2> QED
    BY <2>1, <1>2 DEF SearchesReadyIndex, FoundIsCurrent
<1>3. ASSUME NEW t \in Threads,
             \/ Begin(t) \/ RejectDim(t) \/ AcquireRead(t) \/ AcquireWrite(t)
             \/ ReadStore(t) \/ SearchCached(t) \/ FlushMemory(t)
             \/ Unlock(t) \/ NextQuery(t) \/ Return(t)
      PROVE  SearchesReadyIndex' /\ FoundIsCurrent'
  <2>1. UNCHANGED <<kind, store, index, ivf_dirty>>
    BY <1>3 DEF Begin, RejectDim, AcquireRead, AcquireWrite, ReadStore,
                SearchCached, FlushMemory, Unlock, NextQuery, Return, coreVars, engineVars
  <2>2. /\ pc'[t] \notin {"search", "found"}
        /\ \A u \in Threads \ {t} : pc'[u] = pc[u] /\ answer'[u] = answer[u]
    BY <1>0, <1>3
    DEF Begin, RejectDim, AcquireRead, AcquireWrite, ReadStore,
        SearchCached, FlushMemory, Unlock, NextQuery, Return
  <2> QED
    BY <1>1, <2>1, <2>2
<1>4. ASSUME NEW t \in Threads, FastPath(t)
      PROVE  SearchesReadyIndex' /\ FoundIsCurrent'
  <2>1. EngineInv
    BY <1>0, <1>4, EngineAtRest DEF FastPath, GuardsOK
  <2>2. ~ivf_dirty => ~NeedsTraining(kind, index)
    BY <2>1, EngineInvParts DEF IndexOK
  <2>3. /\ UNCHANGED <<kind, store, index, ivf_dirty>>
        /\ pc'[t] # "found"
        /\ pc'[t] = "search" => ~StoreIsEmpty(store) /\ ~ivf_dirty
        /\ \A u \in Threads \ {t} : pc'[u] = pc[u] /\ answer'[u] = answer[u]
    BY <1>0, <1>4 DEF FastPath, coreVars, engineVars
  <2> QED
    BY <1>1, <2>2, <2>3
<1>5. ASSUME NEW t \in Threads, SearchIndex(t)
      PROVE  SearchesReadyIndex' /\ FoundIsCurrent'
  <2>1. Ready
    BY <1>0, <1>5 DEF SearchIndex, SearchesReadyIndex
  <2>2. /\ UNCHANGED <<kind, store, index, ivf_dirty>>
        /\ pc'[t] = "found" => answer'[t].found = index.entries
        /\ \A u \in Threads \ {t} : pc'[u] = pc[u] /\ answer'[u] = answer[u]
    BY <1>0, <1>5 DEF SearchIndex, engineVars
  <2> QED
    BY <1>1, <2>1, <2>2
<1>6. ASSUME NEW t \in Threads, Remember(t)
      PROVE  SearchesReadyIndex' /\ FoundIsCurrent'
  <2>1. /\ UNCHANGED <<kind, store, index, ivf_dirty>>
        /\ pc'[t] = "unlock"
        /\ \A u \in Threads \ {t} : pc'[u] = pc[u] /\ answer'[u] = answer[u]
    BY <1>0, <1>6 DEF Remember
  <2> QED
    BY <1>1, <2>1
<1>7. ASSUME NEW t \in Threads, SlowPath(t)
      PROVE  SearchesReadyIndex' /\ FoundIsCurrent'
  <2>1. writer = t /\ EngineInv
    BY <1>0, <1>7, EngineAtRest DEF SlowPath, GuardsOK
  <2>2. /\ \A u \in Threads \ {t} : pc'[u] = pc[u]
        /\ pc'[t] # "found"
        /\ UNCHANGED <<kind, store, cache_cfg>>
    BY <1>0, <1>7 DEF SlowPath
  <2>3. ASSUME pc'[t] = "search" PROVE Ready'
    <3>1. /\ ~StoreIsEmpty(store)
          /\ Outcome(TRUE) /\ Materialize(ivf_dirty, TRUE)
      BY <1>0, <1>7, <2>3 DEF SlowPath
    <3>2. ivf_dirty \in BOOLEAN /\ (ivf_dirty => kind = "ivf")
      BY <2>1, EngineInvParts DEF IndexOK
    <3>3. ~ivf_dirty' /\ ~NeedsTraining(kind', index')
      BY <3>1, <3>2, <2>1, <2>2, MaterializeStep
    <3> QED
      BY <3>1, <3>3, <2>2
  <2> QED
    BY <1>2, <2>1, <2>2, <2>3
<1>8. ASSUME NEW t \in Threads, OptimizeCall(t) \/ WriteStore(t) \/ WriteIndex(t)
      PROVE  SearchesReadyIndex' /\ FoundIsCurrent'
  <2>1. writer = t
    BY <1>0, <1>8 DEF OptimizeCall, WriteStore, WriteIndex, GuardsOK
  <2>2. /\ \A u \in Threads \ {t} : pc'[u] = pc[u]
        /\ pc'[t] \notin {"search", "found"}
    BY <1>0, <1>8 DEF OptimizeCall, WriteStore, StoreCall, WriteIndex
  <2> QED
    BY <1>2, <2>1, <2>2
<1>9. CASE CacheEvicts
  <2>1. UNCHANGED <<kind, store, index, ivf_dirty, pc, answer>>
    BY <1>9 DEF CacheEvicts, Evict, threadVars
  <2> QED
    BY <2>1, <1>0 DEF SearchesReadyIndex, FoundIsCurrent
<1>10. CASE UNCHANGED handleVars
  BY <1>10, <1>0
  DEF handleVars, coreVars, engineVars, threadVars, SearchesReadyIndex, FoundIsCurrent
<1> QED
  BY <1>3, <1>4, <1>5, <1>6, <1>7, <1>8, <1>9, <1>10
  DEF HandleNext, Step, ReadStep, Finished

(***************************************************************************)
(* The parts together are inductive.                                       *)
(***************************************************************************)
LEMMA HandleInvariant == HandleSpec => []HandleInv
<1>1. HandleInit => HandleInv
  <2> SUFFICES ASSUME HandleInit PROVE HandleInv
    OBVIOUS
  <2>1. EngineInv
    BY CoreInitInv DEF HandleInit
  <2>2. NoThreadInside
    BY DEF HandleInit
  <2>3. GuardsOK
    BY <2>2, HandleAssumption DEF NoThreadInside, GuardsOK, Labels
  <2>4. CallsOK
    BY <2>2 DEF NoThreadInside, CallsOK
  <2> QED
    BY <2>1, <2>2, <2>3, <2>4
    DEF NoThreadInside, HandleInv, EngineOK, SearchesReadyIndex, FoundIsCurrent
<1>2. HandleInv /\ [HandleNext]_handleVars => HandleInv'
  BY GuardsStep, CallsStep, EngineStep, SearchStep DEF HandleInv
<1> QED
  BY <1>1, <1>2, PTL DEF HandleSpec

(***************************************************************************)
(* search_inner reads the index only when it is ready: what the fast path  *)
(* saw under its guard, or the slow path restored under the write guard,   *)
(* is still so when the index is searched, whatever other threads do.      *)
(***************************************************************************)
THEOREM SearchesAreReady == HandleSpec => []SearchesReadyIndex
BY HandleInvariant, PTL DEF HandleInv

(***************************************************************************)
(* Between writes the index is in step with the store and the cache with   *)
(* the index, outside the ids of failed index calls: no reader sees the    *)
(* middle of an upsert or a delete, for any number of threads, and a       *)
(* failed index call does no damage beyond its own id.                     *)
(***************************************************************************)
THEOREM ReadersSeeWholeWrites == HandleSpec => []InStepBetweenWrites
<1>1. HandleInv => InStepBetweenWrites
  <2> SUFFICES ASSUME HandleInv, writer = NoThread
               PROVE  IndexInStep /\ CacheNeverStale
    BY DEF InStepBetweenWrites
  <2>1. \A t \in Threads : pc[t] # "index"
    BY HandleAssumption DEF HandleInv, GuardsOK
  <2> QED
    BY <2>1 DEF HandleInv, EngineOK, EngineInv
<1> QED
  BY <1>1, HandleInvariant, PTL

-----------------------------------------------------------------------------
(* Linearizability, while index calls succeed. *)

\* The answer the map m gives to the call c.
AnswersMap(c, r, m) ==
  LET stored == {x \in Ids : m[x] # Absent}
  IN  /\ c.op = "get" => r = [op |-> "get", id |-> c.id, row |-> m[c.id]]
      /\ c.op = "len" => r = [op |-> "len", n |-> Cardinality(stored)]
      /\ c.op = "search" => r = [op |-> "search", hits |-> {<<x, m[x]>> : x \in stored}]
      /\ c.op = "upsert" => r = [op |-> "upsert", id |-> c.id, newly |-> m[c.id] = Absent]
      /\ c.op = "delete" => r = [op |-> "delete", id |-> c.id, existed |-> m[c.id] # Absent]
      /\ c.op \in {"optimize", "flush"} => r.op \in {"optimize", "flush", "error"}

\* The map after the call c.
Applied(c, m) == [m EXCEPT ![c.id] = IF c.op = "upsert" THEN c.val ELSE Absent]

WritesMap(t) == call[t].op \in {"upsert", "delete"}

\* The store holds a write of t that is not committed yet.
Ahead(t) == pc[t] \in {"index", "unlock"} /\ WritesMap(t)

\* The store is the committed map, with the write of the thread that holds the
\* write guard applied; an answer that waits for its guard to be dropped is the
\* committed map's.
LinInv ==
  /\ diverged = {}
  /\ committed = [x \in Ids |-> committed[x]]
  /\ \A t \in Threads :
       /\ pc[t] \in {"index", "unlock"} => AnswersMap(call[t], answer[t], committed)
       /\ pc[t] = "unlock" /\ WritesMap(t) => writer = t
       /\ Ahead(t) => StoreMap = Applied(call[t], committed)
  /\ (\A t \in Threads : ~Ahead(t)) => committed = StoreMap

(***************************************************************************)
(* Where no index call may fail none does.                                 *)
(***************************************************************************)
LEMMA NoFault ==
  ASSUME MaxFaults = 0, HandleInv, NEW ok \in BOOLEAN, Outcome(ok)
  PROVE  ok
<1>1. faults \in 0 .. MaxFaults
  <2>1. CASE \E t \in Threads : pc[t] = "index"
    BY <2>1 DEF HandleInv, EngineOK, HalfWritten
  <2>2. CASE \A t \in Threads : pc[t] # "index"
    BY <2>2 DEF HandleInv, EngineOK, EngineInv, CoreTypeOK
  <2> QED
    BY <2>1, <2>2
<1> QED
  BY <1>1 DEF Outcome

(***************************************************************************)
(* A thread that holds a guard and has no write under way sees the         *)
(* committed map in the store, and an engine in step with it.              *)
(***************************************************************************)
LEMMA GuardSeesCommitted ==
  ASSUME HandleInv, LinInv, NEW t \in Threads,
         t \in readers \/ writer = t, pc[t] # "index", ~Ahead(t)
  PROVE  /\ \A u \in Threads : ~Ahead(u)
         /\ committed = StoreMap
         /\ EngineInv /\ StoreOK
<1>1. GuardsOK /\ CallsOK /\ EngineOK
  BY DEF HandleInv
<1>2. ASSUME NEW u \in Threads, Ahead(u) PROVE FALSE
  <2>1. writer = u /\ u # t
    BY <1>1, <1>2 DEF Ahead, GuardsOK, LinInv
  <2>2. pc[t] \in Outside
    BY <2>1, <1>1, WriterAlone
  <2> QED
    BY <2>1, <2>2, <1>1, HandleAssumption DEF GuardsOK, Outside
<1>3. EngineInv
  BY <1>1, EngineAtRest
<1> QED
  BY <1>2, <1>3, EngineInvParts DEF LinInv

(***************************************************************************)
(* The answers read under a guard are the committed map's: a row, the      *)
(* number of rows, the hits of the index, and those of an empty store.     *)
(***************************************************************************)
LEMMA ReadsAnswerMap ==
  ASSUME StoreOK
  PROVE  /\ \A id \in Ids : (IF StoreContains(store, id) THEN StoreGet(store, id).val
                                                         ELSE Absent) = StoreMap[id]
         /\ StoreLen(store) = Cardinality({x \in Ids : StoreMap[x] # Absent})
         /\ StoreIsEmpty(store) =>
              {<<x, StoreMap[x]>> : x \in {y \in Ids : StoreMap[y] # Absent}} = {}
<1>1. \A id \in Ids : (IF StoreContains(store, id) THEN StoreGet(store, id).val
                                                   ELSE Absent) = StoreMap[id]
  BY StoreMapLookup
<1>2. StoreLen(store) = Cardinality({x \in Ids : StoreMap[x] # Absent})
  BY LenCountsIds, CoreAssumption DEF StoreOK, StoreMap, StoreLen
<1>3. ASSUME StoreIsEmpty(store), NEW x \in Ids PROVE StoreMap[x] = Absent
  <2>1. Len(store.rows) = 0
    BY <1>3 DEF StoreIsEmpty
  <2> QED
    BY <2>1 DEF StoreMap, RowsMap
<1> QED
  BY <1>1, <1>2, <1>3

(***************************************************************************)
(* A search of a ready index, in step at every id, answers as the map.     *)
(***************************************************************************)
LEMMA SearchAnswersMap ==
  ASSUME EngineInv, diverged = {}, ~NeedsTraining(kind, index)
  PROVE  Hits(index.entries)
           = {<<x, StoreMap[x]>> : x \in {y \in Ids : StoreMap[y] # Absent}}
<1>1. StoreOK /\ IndexOK(kind, store, index, ivf_dirty, diverged)
  BY EngineInvParts
<1>2. \A id \in Ids : index.entries[id] = RowsOf(store, id)
  BY <1>1 DEF IndexOK
<1> QED
  BY <1>1, <1>2, HitsAreTheMap

(***************************************************************************)
(* A step of t that leaves the store and the committed map alone keeps the *)
(* invariant if the answer t is left with is the committed map's.          *)
(***************************************************************************)
LEMMA SameMapStep ==
  ASSUME LinInv, NEW t \in Threads,
         UNCHANGED <<store, committed>>, diverged' = {},
         \A u \in Threads \ {t} : /\ pc'[u] = pc[u] /\ call'[u] = call[u]
                                  /\ answer'[u] = answer[u]
                                  /\ writer = u => writer' = u,
         Ahead(t)' <=> Ahead(t),
         Ahead(t) => call'[t] = call[t],
         pc'[t] \in {"index", "unlock"}
           => AnswersMap(call'[t], answer'[t], committed),
         pc'[t] = "unlock" /\ WritesMap(t)' => writer' = t
  PROVE  LinInv'
<1>1. StoreMap' = StoreMap
  BY DEF StoreMap
<1>2. \A u \in Threads \ {t} : (Ahead(u)' <=> Ahead(u)) /\ (WritesMap(u)' <=> WritesMap(u))
  BY DEF Ahead, WritesMap
<1>3. ASSUME NEW u \in Threads
      PROVE  /\ pc'[u] \in {"index", "unlock"}
                  => AnswersMap(call'[u], answer'[u], committed')
             /\ pc'[u] = "unlock" /\ WritesMap(u)' => writer' = u
             /\ Ahead(u)' => StoreMap' = Applied(call'[u], committed')
  <2>1. CASE u = t
    BY <2>1, <1>1 DEF LinInv
  <2>2. CASE u # t
    BY <2>2, <1>1, <1>2 DEF LinInv
  <2> QED
    BY <2>1, <2>2
<1>4. (\A u \in Threads : ~Ahead(u)') => committed' = StoreMap'
  BY <1>1, <1>2 DEF LinInv
<1>5. committed' = [x \in Ids |-> committed'[x]]
  BY DEF LinInv
<1> QED
  BY <1>3, <1>4, <1>5 DEF LinInv

(***************************************************************************)
(* The store step of a write takes the store from the committed map to the *)
(* map after the write, with the committed map's answer.                   *)
(***************************************************************************)
LEMMA StoreCallLin ==
  ASSUME HandleInv, LinInv, NEW t \in Threads, pc[t] \in {"writing", "logged"},
         StoreCall(t)
  PROVE  LinInv'
<1>0. /\ GuardsOK /\ CallsOK
      /\ pc \in [Threads -> Labels]
      /\ answer = [u \in Threads |-> answer[u]]
      /\ diverged = {}
  BY DEF HandleInv, GuardsOK, CallsOK, LinInv
<1> USE DEF Goto, Result
<1> DEFINE c == call[t]
<1>1. /\ UNCHANGED <<committed, writer, call>> /\ diverged' = {}
      /\ pc[t] # "index" /\ writer = t /\ pc'[t] = "index"
      /\ c \in Calls /\ ~Ahead(t)
      /\ \A u \in Threads \ {t} : pc'[u] = pc[u] /\ answer'[u] = answer[u]
  BY <1>0
  DEF StoreCall, lockVars, GuardsOK, CallsOK, Ahead
<1>2. committed = StoreMap /\ StoreOK
  BY <1>1, GuardSeesCommitted
<1>3. c.op \in {"upsert", "delete"} /\ c.id \in Ids
  BY <1>1, CallFields DEF StoreCall
<1>4. StoreContains(store, c.id) = (committed[c.id] # Absent)
  BY <1>2, <1>3, StoreMapLookup DEF StoreContains
<1>5. /\ AnswersMap(c, answer'[t], committed)
      /\ StoreMap' = Applied(c, committed)
  <2>1. CASE c.op = "upsert"
    <3>1. /\ store' = StoreUpsert(store, c.id, c.val)
          /\ answer'[t] = [op |-> "upsert", id |-> c.id,
                           newly |-> ~StoreContains(store, c.id)]
      BY <1>0, <2>1 DEF StoreCall, InsertStoreStep
    <3>2. c.val \in Vals
      BY <1>1, <2>1, CallFields
    <3>3. StoreMap' = RowsMap(StoreUpsert(store, c.id, c.val).rows, Ids, Absent)
      BY <3>1 DEF StoreMap
    <3>4. StoreMap' = [committed EXCEPT ![c.id] = c.val]
      BY <3>2, <3>3, <1>2, <1>3, WritesToMap
    <3>5. answer'[t] = [op |-> "upsert", id |-> c.id, newly |-> committed[c.id] = Absent]
      BY <3>1, <1>4
    <3> QED
      BY <3>4, <3>5, <2>1 DEF AnswersMap, Applied
  <2>2. CASE c.op = "delete"
    <3>1. /\ store' = StoreRemove(store, c.id)
          /\ answer'[t] = [op |-> "delete", id |-> c.id,
                           existed |-> StoreContains(store, c.id)]
      BY <1>0, <2>2 DEF StoreCall, DeleteStoreStep
    <3>2. StoreMap' = RowsMap(StoreRemove(store, c.id).rows, Ids, Absent)
      BY <3>1 DEF StoreMap
    <3>3. StoreMap' = [committed EXCEPT ![c.id] = Absent]
      BY <3>2, <1>2, <1>3, WritesToMap
    <3>4. answer'[t] = [op |-> "delete", id |-> c.id, existed |-> committed[c.id] # Absent]
      BY <3>1, <1>4
    <3> QED
      BY <3>3, <3>4, <2>2 DEF AnswersMap, Applied
  <2> QED
    BY <2>1, <2>2, <1>3
<1>6. \A u \in Threads \ {t} : pc'[u] \notin {"index", "unlock"}
  BY <1>0, <1>1, WriterAlone DEF Outside
<1>7. Ahead(t)' /\ \A u \in Threads \ {t} : ~Ahead(u)'
  BY <1>1, <1>3, <1>6 DEF Ahead, WritesMap
<1>8. \A u \in Threads :
        /\ pc'[u] \in {"index", "unlock"} => AnswersMap(call'[u], answer'[u], committed')
        /\ pc'[u] = "unlock" /\ WritesMap(u)' => writer' = u
        /\ Ahead(u)' => StoreMap' = Applied(call'[u], committed')
  BY <1>1, <1>5, <1>6, <1>7
<1>9. committed' = [x \in Ids |-> committed'[x]]
  BY <1>1 DEF LinInv
<1> QED
  BY <1>1, <1>7, <1>8, <1>9 DEF LinInv

(***************************************************************************)
(* Every step keeps the store the committed map but for the write of the   *)
(* thread that holds the write guard.                                      *)
(***************************************************************************)
LEMMA LinStep ==
  ASSUME MaxFaults = 0
  PROVE  HandleInv /\ LinInv /\ [HandleNext]_handleVars => LinInv'
<1> SUFFICES ASSUME HandleInv, LinInv, [HandleNext]_handleVars PROVE LinInv'
  OBVIOUS
<1>0. /\ GuardsOK /\ CallsOK /\ EngineOK /\ SearchesReadyIndex /\ FoundIsCurrent
      /\ pc \in [Threads -> Labels]
      /\ call = [t \in Threads |-> call[t]] /\ answer = [t \in Threads |-> answer[t]]
      /\ diverged = {}
  BY DEF HandleInv, GuardsOK, CallsOK, LinInv
<1> USE DEF Goto, Result
\* A step of t, which has no write under way, to a place where it has no answer.
<1>1. ASSUME NEW t \in Threads,
             UNCHANGED <<store, committed>>, diverged' = {},
             \A u \in Threads \ {t} : /\ pc'[u] = pc[u] /\ call'[u] = call[u]
                                      /\ answer'[u] = answer[u]
                                      /\ writer = u => writer' = u,
             pc[t] \notin {"index", "unlock"}, pc'[t] \notin {"index", "unlock"}
      PROVE  LinInv'
  <2>1. ~Ahead(t) /\ ~Ahead(t)'
    BY <1>1 DEF Ahead
  <2> QED
    BY <1>1, <2>1, SameMapStep
\* A step of t, which only reads, to the drop of its guard.
<1>2. ASSUME NEW t \in Threads,
             UNCHANGED <<store, committed, writer, call>>, diverged' = {},
             \A u \in Threads \ {t} : pc'[u] = pc[u] /\ answer'[u] = answer[u],
             pc[t] \notin {"index", "unlock"}, ~WritesMap(t),
             AnswersMap(call[t], answer'[t], committed)
      PROVE  LinInv'
  <2>1. ~Ahead(t) /\ ~Ahead(t)' /\ ~WritesMap(t)'
    BY <1>2 DEF Ahead, WritesMap
  <2> QED
    BY <1>2, <2>1, SameMapStep
<1>3. ASSUME NEW t \in Threads,
             \/ Begin(t) \/ RejectDim(t) \/ AcquireRead(t) \/ AcquireWrite(t)
             \/ NextQuery(t) \/ Return(t)
      PROVE  LinInv'
  <2>1. UNCHANGED <<store, committed, diverged>>
    BY <1>3 DEF Begin, RejectDim, AcquireRead, AcquireWrite, NextQuery, Return,
                coreVars, engineVars
  <2>2. /\ pc[t] \notin {"index", "unlock"} /\ pc'[t] \notin {"index", "unlock"}
        /\ \A u \in Threads \ {t} : /\ pc'[u] = pc[u] /\ call'[u] = call[u]
                                    /\ answer'[u] = answer[u]
    BY <1>0, <1>3 DEF Begin, RejectDim, AcquireRead, AcquireWrite, NextQuery, Return
  <2>3. \A u \in Threads : writer = u => writer' = u
    BY <1>3, HandleAssumption
    DEF Begin, RejectDim, AcquireRead, AcquireWrite, NextQuery, Return, lockVars
  <2> QED
    BY <1>0, <1>1, <2>1, <2>2, <2>3
<1>4. ASSUME NEW t \in Threads, ReadStore(t) PROVE LinInv'
  <2>1. t \in readers /\ call[t] \in Calls /\ pc[t] = "reading" /\ ~Ahead(t)
    BY <1>0, <1>4 DEF ReadStore, GuardsOK, CallsOK, Ahead
  <2>2. committed = StoreMap /\ StoreOK
    BY <2>1, GuardSeesCommitted
  <2>3. /\ call[t].op \in {"get", "len"}
        /\ call[t].op = "get" => call[t].id \in Ids
    BY <1>4, <2>1, CallFields DEF ReadStore
  <2>4. AnswersMap(call[t], answer'[t], committed)
    <3>1. CASE call[t].op = "get"
      <4>1. answer'[t] = [op |-> "get", id |-> call[t].id, row |->
                           IF StoreContains(store, call[t].id)
                           THEN StoreGet(store, call[t].id).val ELSE Absent]
        BY <1>0, <1>4, <3>1 DEF ReadStore
      <4>2. answer'[t] = [op |-> "get", id |-> call[t].id,
                          row |-> committed[call[t].id]]
        BY <4>1, <2>2, <2>3, <3>1, ReadsAnswerMap
      <4> QED
        BY <4>2, <3>1 DEF AnswersMap
    <3>2. CASE call[t].op = "len"
      <4>1. answer'[t] = [op |-> "len", n |-> StoreLen(store)]
        BY <1>0, <1>4, <3>2 DEF ReadStore
      <4> QED
        BY <4>1, <2>2, <3>2, ReadsAnswerMap DEF AnswersMap
    <3> QED
      BY <3>1, <3>2, <2>3
  <2>5. /\ UNCHANGED <<store, committed, writer, call, diverged>>
        /\ \A u \in Threads \ {t} : pc'[u] = pc[u] /\ answer'[u] = answer[u]
    BY <1>0, <1>4 DEF ReadStore, coreVars, engineVars, lockVars
  <2> QED
    BY <1>0, <1>2, <2>1, <2>3, <2>4, <2>5 DEF WritesMap
\* A search that answers for an empty store.
<1>5. ASSUME NEW t \in Threads, t \in readers \/ writer = t,
             pc[t] \in {"reading", "writing"}, call[t].op = "search",
             StoreIsEmpty(store), answer'[t] = [op |-> "search", hits |-> {}]
      PROVE  AnswersMap(call[t], answer'[t], committed)
  <2>1. committed = StoreMap /\ StoreOK
    BY <1>5, GuardSeesCommitted DEF Ahead, WritesMap
  <2> QED
    BY <1>5, <2>1, ReadsAnswerMap DEF AnswersMap
<1>6. ASSUME NEW t \in Threads, FastPath(t) PROVE LinInv'
  <2>1. /\ UNCHANGED <<store, committed, writer, call, diverged>>
        /\ pc[t] = "reading" /\ t \in readers
        /\ call[t].op = "search" /\ ~WritesMap(t)
        /\ \A u \in Threads \ {t} : /\ pc'[u] = pc[u] /\ call'[u] = call[u]
                                    /\ answer'[u] = answer[u]
    BY <1>0, <1>6 DEF FastPath, coreVars, engineVars, GuardsOK, WritesMap
  <2>2. CASE pc'[t] \in {"search", "want_write"}
    BY <1>0, <1>1, <2>1, <2>2
  <2>3. CASE StoreIsEmpty(store) /\ answer' = [answer EXCEPT ![t] = [op |-> "search", hits |-> {}]]
    <3>1. AnswersMap(call[t], answer'[t], committed)
      BY <1>0, <1>5, <2>1, <2>3
    <3> QED
      BY <3>1, <1>0, <1>2, <2>1
  <2> QED
    BY <1>0, <1>6, <2>2, <2>3 DEF FastPath
<1>7. ASSUME NEW t \in Threads, SlowPath(t) PROVE LinInv'
  <2>1. /\ UNCHANGED <<store, committed, writer, call>>
        /\ pc[t] = "writing" /\ writer = t
        /\ call[t].op = "search" /\ ~WritesMap(t)
        /\ \A u \in Threads \ {t} : /\ pc'[u] = pc[u] /\ call'[u] = call[u]
                                    /\ answer'[u] = answer[u]
    BY <1>0, <1>7 DEF SlowPath, lockVars, GuardsOK, WritesMap
  <2>2. CASE StoreIsEmpty(store)
    <3>1. answer'[t] = [op |-> "search", hits |-> {}] /\ diverged' = {}
      BY <1>0, <1>7, <2>2 DEF SlowPath
    <3>2. AnswersMap(call[t], answer'[t], committed)
      BY <3>1, <1>5, <2>1, <2>2
    <3> QED
      BY <3>1, <3>2, <1>2, <2>1
  <2>3. CASE ~StoreIsEmpty(store)
    <3>1. PICK ok \in BOOLEAN :
            /\ Outcome(ok) /\ Materialize(ivf_dirty, ok)
            /\ pc' = [pc EXCEPT ![t] = IF ok THEN "search" ELSE "unlock"]
      BY <1>7, <2>3 DEF SlowPath
    <3>2. ok
      BY <3>1, NoFault
    <3>3. pc'[t] = "search" /\ diverged' = {}
      BY <3>1, <3>2, <1>0 DEF Materialize
    <3> QED
      BY <3>3, <1>1, <2>1
  <2> QED
    BY <2>2, <2>3
\* A search that answers from a ready index.
<1>8. ASSUME NEW t \in Threads, pc[t] \in {"search", "found"},
             answer'[t] = [op |-> "search", hits |-> Hits(index.entries)]
      PROVE  AnswersMap(call[t], answer'[t], committed)
  <2>1. /\ t \in readers \/ writer = t
        /\ ~NeedsTraining(kind, index) /\ call[t].op = "search"
    BY <1>0, <1>8 DEF GuardsOK, SearchesReadyIndex, CallsOK
  <2>2. committed = StoreMap /\ EngineInv
    BY <1>8, <2>1, GuardSeesCommitted DEF Ahead
  <2>3. Hits(index.entries)
          = {<<x, committed[x]>> : x \in {y \in Ids : committed[y] # Absent}}
    BY <2>1, <2>2, <1>0, SearchAnswersMap
  <2> QED
    BY <1>8, <2>1, <2>3 DEF AnswersMap
<1>9. ASSUME NEW t \in Threads, SearchCached(t) PROVE LinInv'
  <2>1. /\ UNCHANGED <<store, committed, writer, call, diverged>>
        /\ pc[t] = "search" /\ call[t].op = "search" /\ ~WritesMap(t)
        /\ t \in readers \/ writer = t
        /\ \A u \in Threads \ {t} : pc'[u] = pc[u] /\ answer'[u] = answer[u]
    BY <1>0, <1>9
    DEF SearchCached, coreVars, engineVars, lockVars, GuardsOK, CallsOK, WritesMap
  <2>2. cache.results[call[t].q] = index.entries
    <3>1. CacheOK(cache, cache_cfg, index.entries)
      BY <1>0, <2>1, EngineAtRest, EngineInvParts
    <3> QED
      BY <3>1, <1>9 DEF SearchCached, CacheOK
  <2>3. answer'[t] = [op |-> "search", hits |-> Hits(index.entries)]
    BY <1>0, <1>9, <2>2 DEF SearchCached
  <2> QED
    BY <1>0, <1>2, <1>8, <2>1, <2>3
<1>10. ASSUME NEW t \in Threads, SearchIndex(t) PROVE LinInv'
  <2>1. /\ UNCHANGED <<store, committed, writer, call, diverged>>
        /\ pc[t] = "search"
        /\ \A u \in Threads \ {t} : pc'[u] = pc[u] /\ answer'[u] = answer[u]
    BY <1>0, <1>10 DEF SearchIndex, engineVars, lockVars
  <2>2. pc'[t] = "found"
    <3>1. PICK ok \in BOOLEAN : /\ Outcome(ok)
                                /\ pc' = [pc EXCEPT ![t] = IF ok THEN "found" ELSE "unlock"]
      BY <1>10 DEF SearchIndex
    <3> QED
      BY <3>1, <1>0, NoFault
  <2> QED
    BY <1>0, <1>1, <2>1, <2>2
<1>11. ASSUME NEW t \in Threads, Remember(t) PROVE LinInv'
  <2>1. /\ UNCHANGED <<store, committed, writer, call, diverged>>
        /\ pc[t] = "found" /\ call[t].op = "search" /\ ~WritesMap(t)
        /\ answer[t].found = index.entries
        /\ \A u \in Threads \ {t} : pc'[u] = pc[u] /\ answer'[u] = answer[u]
    BY <1>0, <1>11 DEF Remember, lockVars, CallsOK, FoundIsCurrent, WritesMap
  <2>2. answer'[t] = [op |-> "search", hits |-> Hits(index.entries)]
    BY <1>0, <1>11, <2>1 DEF Remember
  <2> QED
    BY <1>0, <1>2, <1>8, <2>1, <2>2
<1>12. ASSUME NEW t \in Threads, OptimizeCall(t) \/ FlushMemory(t) PROVE LinInv'
  <2>1. /\ UNCHANGED <<store, committed, writer, call>>
        /\ pc[t] = "writing" /\ call[t].op \in {"optimize", "flush"} /\ ~WritesMap(t)
        /\ \A u \in Threads \ {t} : pc'[u] = pc[u] /\ answer'[u] = answer[u]
    BY <1>0, <1>12 DEF OptimizeCall, FlushMemory, coreVars, engineVars, lockVars, WritesMap
  <2>2. diverged' = {}
    BY <1>0, <1>12 DEF OptimizeCall, FlushMemory, Materialize, coreVars, engineVars
  <2>3. answer'[t].op \in {"optimize", "flush", "error"}
    BY <1>0, <1>12 DEF OptimizeCall, FlushMemory, Failed
  <2>4. AnswersMap(call[t], answer'[t], committed)
    BY <2>1, <2>3 DEF AnswersMap
  <2> QED
    BY <1>2, <2>1, <2>2, <2>4
<1>13. ASSUME NEW t \in Threads, WriteStore(t) PROVE LinInv'
  BY <1>13, StoreCallLin DEF WriteStore
<1>14. ASSUME NEW t \in Threads, WriteIndex(t) PROVE LinInv'
  <2>1. PICK ok \in BOOLEAN :
          /\ Outcome(ok)
          /\ \/ InsertIndexStep(answer[t].newly, call[t].id, call[t].val, ok)
             \/ DeleteIndexStep(call[t].id, ok)
          /\ answer' = IF ok THEN answer ELSE [answer EXCEPT ![t] = Failed]
    BY <1>14 DEF WriteIndex
  <2>2. ok
    BY <2>1, NoFault
  <2>3. answer' = answer /\ diverged' = {}
    BY <2>1, <2>2, <1>0
    DEF InsertIndexStep, DeleteIndexStep, InsertDeferred, InsertApplied, DeleteApplied
  <2>4. /\ UNCHANGED <<store, committed, writer, call>>
        /\ pc[t] = "index" /\ pc'[t] = "unlock" /\ writer = t
        /\ \A u \in Threads \ {t} : pc'[u] = pc[u]
    BY <1>0, <1>14 DEF WriteIndex, lockVars, GuardsOK
  <2>5. /\ Ahead(t)' <=> Ahead(t)
        /\ AnswersMap(call[t], answer[t], committed)
    BY <2>4 DEF Ahead, WritesMap, LinInv
  <2> QED
    BY <2>3, <2>4, <2>5, SameMapStep
<1>15. ASSUME NEW t \in Threads, Unlock(t) PROVE LinInv'
  <2>1. /\ UNCHANGED <<store, diverged, call, answer>>
        /\ pc[t] = "unlock" /\ pc'[t] = "done" /\ ~Ahead(t)'
        /\ committed' = IF writer = t THEN StoreMap ELSE committed
        /\ writer' = IF writer = t THEN NoThread ELSE writer
        /\ \A u \in Threads \ {t} : pc'[u] = pc[u]
    BY <1>0, <1>15 DEF Unlock, engineVars, Ahead
  <2>2. StoreMap' = StoreMap
    BY <2>1 DEF StoreMap
  <2>3. CASE writer = t
    <3>1. \A u \in Threads : pc'[u] \notin {"index", "unlock"}
      BY <1>0, <2>1, <2>3, WriterAlone DEF Outside
    <3>2. \A u \in Threads : ~Ahead(u)'
      BY <3>1 DEF Ahead
    <3>3. committed' = StoreMap' /\ committed' = [x \in Ids |-> committed'[x]]
      BY <2>1, <2>2, <2>3 DEF StoreMap, RowsMap
    <3> QED
      BY <3>1, <3>2, <3>3, <2>1, <1>0 DEF LinInv
  <2>4. CASE writer # t
    <3>1. ~Ahead(t)
      BY <2>1, <2>4 DEF Ahead, LinInv
    <3> QED
      BY <3>1, <2>1, <2>4, <1>0, SameMapStep
  <2> QED
    BY <2>3, <2>4
<1>16. CASE CacheEvicts \/ UNCHANGED handleVars
  <2>1. UNCHANGED <<store, diverged, committed, writer, pc, call, answer>>
    BY <1>16
    DEF CacheEvicts, Evict, handleVars, coreVars, engineVars, threadVars, lockVars
  <2> QED
    BY <2>1 DEF LinInv, Ahead, WritesMap, StoreMap
<1> QED
  BY <1>3, <1>4, <1>6, <1>7, <1>9, <1>10, <1>11, <1>12, <1>13, <1>14, <1>15, <1>16
  DEF HandleNext, Step, ReadStep, Finished

(***************************************************************************)
(* The drop of a call's last guard is the moment at which it takes effect: *)
(* the committed map becomes the map after a write, stays as it is for any *)
(* other call, and the answer is the one the committed map gives.          *)
(***************************************************************************)
LEMMA UnlockTakesEffect ==
  ASSUME HandleInv, LinInv, NEW t \in Threads, Unlock(t)
  PROVE  /\ call[t] \in Calls
         /\ AnswersMap(call[t], answer[t], committed)
         /\ call[t].op \notin {"upsert", "delete"} => committed' = committed
         /\ call[t].op \in {"upsert", "delete"} =>
              committed' = Applied(call[t], committed)
         /\ call[t].op \in {"optimize", "flush"} => ret' = ret
         /\ call[t].op \notin {"optimize", "flush"} =>
              AnswersMap(call[t], ret', committed)
<1> DEFINE c == call[t]
<1>1. /\ c \in Calls /\ pc[t] = "unlock"
      /\ t \in readers \/ writer = t
      /\ AnswersMap(c, answer[t], committed)
      /\ committed' = IF writer = t THEN StoreMap ELSE committed
      /\ ret' = IF c.op \in {"optimize", "flush"} THEN ret ELSE answer[t]
  BY DEF Unlock, HandleInv, GuardsOK, CallsOK, LinInv
<1>2. ASSUME c.op \notin {"upsert", "delete"} PROVE committed' = committed
  <2>1. committed = StoreMap
    BY <1>1, <1>2, GuardSeesCommitted DEF Ahead, WritesMap
  <2> QED
    BY <2>1, <1>1
<1>3. ASSUME c.op \in {"upsert", "delete"} PROVE committed' = Applied(c, committed)
  BY <1>1, <1>3 DEF LinInv, Ahead, WritesMap
<1> QED
  BY <1>1, <1>2, <1>3

(***************************************************************************)
(* The handle is linearizable while index calls succeed, for any number of *)
(* threads and calls: the drop of a call's last guard is a step of the     *)
(* abstract map with the answer the call returns, and every other step is  *)
(* invisible.                                                              *)
(***************************************************************************)
THEOREM HandleIsLinearizable ==
  ASSUME MaxFaults = 0
  PROVE  HandleSpec => Linearizable
<1>1. HandleInit => AtomicMap!Init /\ LinInv
  <2> SUFFICES ASSUME HandleInit PROVE AtomicMap!Init /\ LinInv
    OBVIOUS
  <2>1. StoreMap = [x \in Ids |-> Absent]
    BY DEF HandleInit, CoreInit, EmptyStore, StoreMap, RowsMap
  <2>2. /\ committed = StoreMap /\ ret = [op |-> "open"] /\ diverged = {}
        /\ \A t \in Threads : pc[t] = "idle"
    BY DEF HandleInit, CoreInit, NoThreadInside
  <2> QED
    BY <2>1, <2>2 DEF AtomicMap!Init, LinInv, Ahead
<1>2. HandleInv /\ LinInv /\ [HandleNext]_handleVars => LinInv'
  BY LinStep
<1>3. HandleInv /\ LinInv /\ [HandleNext]_handleVars
        => [AtomicMap!Next]_(AtomicMap!mapVars)
  <2> SUFFICES ASSUME HandleInv, LinInv, [HandleNext]_handleVars
               PROVE  [AtomicMap!Next]_(AtomicMap!mapVars)
    OBVIOUS
  <2>1. ASSUME UNCHANGED <<committed, ret>>
        PROVE  [AtomicMap!Next]_(AtomicMap!mapVars)
    BY <2>1 DEF AtomicMap!mapVars
  <2>2. ASSUME NEW t \in Threads, Unlock(t)
        PROVE  [AtomicMap!Next]_(AtomicMap!mapVars)
    <3> DEFINE c == call[t]
    <3>1. /\ c \in Calls
          /\ c.op \notin {"upsert", "delete"} => committed' = committed
          /\ c.op \in {"upsert", "delete"} => committed' = Applied(c, committed)
          /\ c.op \in {"optimize", "flush"} => ret' = ret
          /\ c.op \notin {"optimize", "flush"} => AnswersMap(c, ret', committed)
      BY <2>2, UnlockTakesEffect
    <3>2. AtomicMap!Stored = {x \in Ids : committed[x] # Absent}
      BY DEF AtomicMap!Stored
    <3>3. CASE c.op \in {"optimize", "flush"}
      BY <3>1, <3>3, <2>1
    <3>4. CASE c.op = "get"
      <4>1. ret' = [op |-> "get", id |-> c.id, row |-> committed[c.id]]
        BY <3>1, <3>4 DEF AnswersMap
      <4> QED
        BY <4>1, <3>1, <3>4, CallFields DEF AtomicMap!Get, AtomicMap!Next
    <3>5. CASE c.op = "len"
      <4>1. ret' = [op |-> "len", n |-> Cardinality(AtomicMap!Stored)]
        BY <3>1, <3>2, <3>5 DEF AnswersMap
      <4>2. AtomicMap!Cardinality(AtomicMap!Stored) = Cardinality(AtomicMap!Stored)
        BY DEF AtomicMap!Cardinality, Cardinality
      <4>3. AtomicMap!Size
        BY <4>1, <4>2, <3>1, <3>5 DEF AtomicMap!Size
      <4> QED
        BY <4>3 DEF AtomicMap!Next
    <3>6. CASE c.op = "search"
      <4>1. ret' = [op |-> "search",
                    hits |-> {<<x, committed[x]>> : x \in AtomicMap!Stored}]
        BY <3>1, <3>2, <3>6 DEF AnswersMap
      <4>2. AtomicMap!Search
        BY <4>1, <3>1, <3>6 DEF AtomicMap!Search
      <4> QED
        BY <4>2 DEF AtomicMap!Next
    <3>7. CASE c.op = "upsert"
      <4>1. ret' = [op |-> "upsert", id |-> c.id, newly |-> committed[c.id] = Absent]
        BY <3>1, <3>7 DEF AnswersMap
      <4>2. c.id \in Ids /\ c.val \in Vals
        BY <3>1, <3>7, CallFields
      <4>3. ret' = [op |-> "upsert", id |-> c.id, newly |-> c.id \notin AtomicMap!Stored]
        BY <4>1, <4>2, <3>2
      <4>4. AtomicMap!Put(c.id, c.val)
        BY <4>3, <3>1, <3>7 DEF AtomicMap!Put, Applied
      <4> QED
        BY <4>2, <4>4 DEF AtomicMap!Next
    <3>8. CASE c.op = "delete"
      <4>1. ret' = [op |-> "delete", id |-> c.id, existed |-> committed[c.id] # Absent]
        BY <3>1, <3>8 DEF AnswersMap
      <4>2. c.id \in Ids
        BY <3>1, <3>8, CallFields
      <4>3. ret' = [op |-> "delete", id |-> c.id, existed |-> c.id \in AtomicMap!Stored]
        BY <4>1, <4>2, <3>2
      <4>4. AtomicMap!Del(c.id)
        BY <4>3, <3>1, <3>8 DEF AtomicMap!Del, Applied
      <4> QED
        BY <4>2, <4>4 DEF AtomicMap!Next
    <3> QED
      BY <3>1, <3>3, <3>4, <3>5, <3>6, <3>7, <3>8, CallFields
  <2>3. ASSUME NEW t \in Threads,
               Begin(t) \/ RejectDim(t) \/ ReadStep(t) \/ WriteStore(t)
                 \/ WriteIndex(t) \/ FlushMemory(t)
        PROVE  UNCHANGED <<committed, ret>>
    BY <2>3
    DEF Begin, RejectDim, ReadStep, AcquireRead, AcquireWrite, ReadStore, FastPath,
        SlowPath, SearchCached, SearchIndex, Remember, OptimizeCall, NextQuery, Return,
        WriteStore, StoreCall, WriteIndex, FlushMemory, coreVars
  <2>4. ASSUME CacheEvicts \/ UNCHANGED handleVars
        PROVE  UNCHANGED <<committed, ret>>
    BY <2>4 DEF CacheEvicts, Evict, handleVars, coreVars
  <2> QED
    BY <2>1, <2>2, <2>3, <2>4 DEF HandleNext, Step, Finished
<1> QED
  BY <1>1, <1>2, <1>3, HandleInvariant, PTL
  DEF HandleSpec, Linearizable, AtomicMap!Spec

=============================================================================
