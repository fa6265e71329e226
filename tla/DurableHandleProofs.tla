------------------------ MODULE DurableHandleProofs ------------------------
(***************************************************************************)
(* The file-backed handle is durably linearizable, for any number of       *)
(* threads, calls, ids, values and crashes, while index calls succeed: its *)
(* steps are steps of DurableMap.  The invariants of the handle and of the *)
(* files are put together, tied by where the threads are in their calls.   *)
(***************************************************************************)
EXTENDS DurableHandle, IqdbHandleProofs, DurableProofs

\* A write of t is on its way: in the log, and not yet acknowledged.
UnderWay(t) == pc[t] \in {"logged", "index"} \/ (pc[t] = "unlock" /\ WritesMap(t))

(***************************************************************************)
(* How far the store of an open database is along its log: at its end, but *)
(* for a write that is logged and not applied, which is the last record.   *)
(* Under the policy Always a write under way is on stable storage, and in  *)
(* the middle of a flush the snapshot holds what the log does.             *)
(***************************************************************************)
ThreadsFollowLog ==
  /\ (\A t \in Threads : pc[t] # "logged")
       => StoreMap = FilesMap(snap.rows, wal, Len(wal))
  /\ \A t \in Threads :
       /\ pc[t] = "logged" => /\ Len(wal) > 0 /\ wal[Len(wal)] = call[t]
                              /\ StoreMap = FilesMap(snap.rows, wal, Len(wal) - 1)
       /\ UnderWay(t) /\ policy = "always" => synced = Len(wal)
       /\ pc[t] = "reset" => RowsMap(snap.rows, Ids, Absent) = StoreMap

\* While calls are served: the invariants of the handle, those of the files,
\* and what ties them.
Serving == /\ HandleInv /\ LinInv
           /\ FilesTyped /\ SnapshotOK /\ HistoryOK
           /\ ThreadsFollowLog

\* At any other time nobody is inside, and the files are as Durable has them.
NotServing == /\ GuardsOK /\ CallsOK /\ NobodyInside
              /\ DurableInv
              /\ phase = "down" => ret = [op |-> "open"]
              /\ phase # "down" => diverged = {}
              /\ phase = "close" => committed = StoreMap

DHInv == /\ phase \in {"down", "replay", "failed", "open", "close"}
         /\ phase = "open" => Serving
         /\ phase # "open" => NotServing

-----------------------------------------------------------------------------
(* Who may have a write under way. *)

(***************************************************************************)
(* While a thread holds the write guard every other one is outside, with   *)
(* no write under way.                                                     *)
(***************************************************************************)
LEMMA OthersOutside ==
  ASSUME HandleInv, NEW t \in Threads, writer = t
  PROVE  \A u \in Threads \ {t} : pc[u] \in Outside /\ ~UnderWay(u)
BY WriterAlone DEF HandleInv, UnderWay, Outside

(***************************************************************************)
(* A thread that holds a guard and has no write under way knows that       *)
(* nobody has.                                                             *)
(***************************************************************************)
LEMMA NoneUnderWay ==
  ASSUME HandleInv, LinInv, NEW t \in Threads, t \in readers \/ writer = t,
         ~UnderWay(t)
  PROVE  \A u \in Threads : ~UnderWay(u)
<1>1. ASSUME NEW u \in Threads, UnderWay(u) PROVE FALSE
  <2>1. writer = u /\ u # t
    BY <1>1 DEF UnderWay, HandleInv, GuardsOK, LinInv
  <2> QED
    BY <2>1, HandleAssumption, OthersOutside DEF HandleInv, GuardsOK, Outside
<1> QED
  BY <1>1

(***************************************************************************)
(* The handle's invariant bounds the faults and the kind, at any place.    *)
(***************************************************************************)
LEMMA HandleTyped ==
  ASSUME HandleInv'
  PROVE  kind' \in Kinds /\ faults' \in 0 .. MaxFaults
<1>1. CASE \E t \in Threads : pc'[t] = "index"
  BY <1>1 DEF HandleInv, EngineOK, HalfWritten
<1>2. CASE \A t \in Threads : pc'[t] # "index"
  BY <1>2 DEF HandleInv, EngineOK, EngineInv, CoreTypeOK
<1> QED
  BY <1>1, <1>2

(***************************************************************************)
(* A step of the thread that holds the write guard which leaves the engine *)
(* alone, a step of its call on the files, keeps the handle's invariants.  *)
(***************************************************************************)
LEMMA FileStep ==
  ASSUME HandleInv, LinInv, NEW t \in Threads, pc[t] \in {"writing", "reset"},
         NEW label \in {"logged", "reset", "unlock"},
         Goto(t, label), UNCHANGED <<coreVars, lockVars, call, calls, committed>>,
         \A u \in Threads \ {t} : answer'[u] = answer[u],
         answer' = [u \in Threads |-> answer'[u]],
         label = "logged" => WritesMap(t),
         label # "logged" => call[t].op = "flush",
         label = "unlock" => answer'[t].op \in {"flush", "error"}
  PROVE  HandleInv' /\ LinInv'
<1>1. /\ GuardsOK /\ CallsOK /\ EngineOK /\ SearchesReadyIndex /\ FoundIsCurrent
      /\ pc \in [Threads -> Labels] /\ writer = t
  BY DEF HandleInv, GuardsOK
<1>2. /\ pc'[t] = label
      /\ \A u \in Threads \ {t} : pc'[u] = pc[u]
      /\ UNCHANGED <<kind, store, index, cache, cache_cfg, ivf_dirty, diverged, faults,
                     readers, writer, call>>
  BY <1>1 DEF Goto, coreVars, engineVars, lockVars
<1>3. GuardsOK'
  BY <1>1, HandleAssumption DEF GuardsOK, Labels, Goto, lockVars
<1>4. CallsOK'
  BY <1>1, <1>2 DEF CallsOK, WritesMap
<1>5. EngineOK'
  <2>1. UNCHANGED <<engineVars, faults>>
    BY DEF coreVars
  <2> QED
    BY <2>1, <1>1, <1>2, QuietStep
<1>6. SearchesReadyIndex' /\ FoundIsCurrent'
  BY <1>1, <1>2 DEF SearchesReadyIndex, FoundIsCurrent
<1>7. LinInv'
  <2>1. diverged' = {}
    BY <1>2 DEF LinInv
  <2>2. ~Ahead(t) /\ ~Ahead(t)'
    BY <1>2 DEF Ahead, WritesMap
  <2>3. pc'[t] \in {"index", "unlock"} => AnswersMap(call'[t], answer'[t], committed)
    BY <1>2 DEF AnswersMap
  <2>4. ~(pc'[t] = "unlock" /\ WritesMap(t)')
    BY <1>2 DEF WritesMap
  <2> QED
    BY <2>1, <2>2, <2>3, <2>4, <1>2, SameMapStep
<1> QED
  BY <1>3, <1>4, <1>5, <1>6, <1>7 DEF HandleInv

-----------------------------------------------------------------------------
(* The steps of the calls. *)

(***************************************************************************)
(* Searches, reads and the taking of guards touch no file, and neither     *)
(* begin nor end a write.                                                  *)
(***************************************************************************)
LEMMA ServeMoves ==
  ASSUME HandleInv, NEW t \in Threads, Serve(t)
  PROVE  /\ UNCHANGED <<kind, store, committed, ret, fileVars, phase, policy, past>>
         /\ \A u \in Threads \ {t} : pc'[u] = pc[u] /\ call'[u] = call[u]
         /\ pc[t] \notin {"logged", "reset"} /\ pc'[t] \notin {"logged", "reset"}
         /\ ~UnderWay(t) /\ ~UnderWay(t)'
<1>1. /\ pc \in [Threads -> Labels]
      /\ call = [u \in Threads |-> call[u]]
      /\ CallsOK
  BY DEF HandleInv, GuardsOK, CallsOK
<1>2. UNCHANGED <<kind, store, committed, ret, fileVars, phase, policy, past>>
  BY DEF Serve, Begin, RejectDim, ReadStep, AcquireRead, AcquireWrite, ReadStore,
         FastPath, SlowPath, SearchCached, SearchIndex, Remember, OptimizeCall,
         NextQuery, Return, coreVars, engineVars, processVars
<1>3. \A u \in Threads \ {t} : pc'[u] = pc[u] /\ call'[u] = call[u]
  BY <1>1
  DEF Serve, Begin, RejectDim, ReadStep, AcquireRead, AcquireWrite, ReadStore,
      FastPath, SlowPath, SearchCached, SearchIndex, Remember, OptimizeCall,
      NextQuery, Return, Goto
<1>4. /\ pc[t] \notin {"logged", "reset", "index", "unlock"}
      /\ pc'[t] \notin {"logged", "reset", "index"}
  BY <1>1
  DEF Serve, Begin, RejectDim, ReadStep, AcquireRead, AcquireWrite, ReadStore,
      FastPath, SlowPath, SearchCached, SearchIndex, Remember, OptimizeCall,
      NextQuery, Return, Goto
<1>5. ASSUME pc'[t] = "unlock" PROVE call'[t].op \notin {"upsert", "delete"}
  BY <1>1, <1>5
  DEF Serve, Begin, RejectDim, ReadStep, AcquireRead, AcquireWrite, ReadStore,
      FastPath, SlowPath, SearchCached, SearchIndex, Remember, OptimizeCall,
      NextQuery, Return, Goto, CallsOK
<1> QED
  BY <1>2, <1>3, <1>4, <1>5 DEF UnderWay, WritesMap

(***************************************************************************)
(* ... so they keep the invariant.                                         *)
(***************************************************************************)
LEMMA ServeStep ==
  ASSUME MaxFaults = 0, Serving, NEW t \in Threads, Serve(t)
  PROVE  Serving'
<1>1. [HandleNext]_handleVars
  BY DEF Serve, HandleNext, Step
<1>2. HandleInv' /\ LinInv'
  BY <1>1, GuardsStep, CallsStep, EngineStep, SearchStep, LinStep DEF Serving, HandleInv
<1>3. /\ UNCHANGED <<kind, store, fileVars, phase, policy, past>>
      /\ \A u \in Threads \ {t} : pc'[u] = pc[u] /\ call'[u] = call[u]
      /\ pc[t] \notin {"logged", "reset"} /\ pc'[t] \notin {"logged", "reset"}
      /\ ~UnderWay(t) /\ ~UnderWay(t)'
  BY ServeMoves DEF Serving
<1>4. SnapshotOK' /\ HistoryOK'
  BY <1>3, FilesStutter DEF Serving
<1>5. FilesTyped'
  BY <1>2, <1>3, HandleTyped DEF Serving, FilesTyped, fileVars
<1>6. \A u \in Threads : /\ UnderWay(u)' <=> UnderWay(u)
                         /\ pc'[u] = "logged" <=> pc[u] = "logged"
                         /\ pc'[u] = "reset" <=> pc[u] = "reset"
                         /\ pc[u] = "logged" => call'[u] = call[u]
  BY <1>3 DEF UnderWay, WritesMap
<1>7. ThreadsFollowLog'
  BY <1>3, <1>6 DEF Serving, ThreadsFollowLog, StoreMap, fileVars
<1> QED
  BY <1>2, <1>4, <1>5, <1>7 DEF Serving

(***************************************************************************)
(* A write is logged before it is applied.                                 *)
(***************************************************************************)
LEMMA LogCallStep ==
  ASSUME Serving, phase \in Phases, NEW t \in Threads, LogCall(t)
  PROVE  Serving'
<1>1. /\ HandleInv /\ LinInv /\ FilesTyped /\ SnapshotOK /\ HistoryOK
      /\ pc \in [Threads -> Labels] /\ pc[t] = "writing" /\ WritesMap(t)
      /\ writer = t /\ call[t] \in Calls
  BY DEF Serving, LogCall, HandleInv, GuardsOK, CallsOK, WritesMap
<1>2. /\ UNCHANGED <<coreVars, processVars, lockVars, call, answer, calls, committed>>
      /\ LogRecord(call[t]) /\ Goto(t, "logged")
  BY DEF LogCall
<1>3. HandleInv' /\ LinInv'
  <2>1. answer' = [u \in Threads |-> answer'[u]]
    BY <1>1, <1>2 DEF HandleInv, CallsOK
  <2> QED
    BY <2>1, <1>1, <1>2, FileStep
<1>4. /\ \A u \in Threads \ {t} : pc'[u] \in Outside /\ ~UnderWay(u)'
      /\ \A u \in Threads : pc[u] # "logged"
      /\ pc'[t] = "logged"
  BY <1>1, <1>2, OthersOutside DEF Outside, Goto, UnderWay, WritesMap
<1>5. StoreMap = FilesMap(snap.rows, wal, Len(wal)) /\ StoreOK
  <2>1. StoreOK
    BY <1>1, EngineAtRest, EngineInvParts DEF HandleInv
  <2> QED
    BY <2>1, <1>4 DEF Serving, ThreadsFollowLog
<1>6. call[t] \in Writes
  BY <1>1 DEF Calls, Writes, WritesMap
<1>7. phase' \in Phases /\ UNCHANGED <<kind, faults>>
  BY <1>2 DEF processVars, coreVars, engineVars
<1>8. /\ FilesTyped' /\ SnapshotOK' /\ HistoryOK'
      /\ Len(wal') > 0 /\ wal'[Len(wal')] = call[t]
      /\ FilesMap(snap'.rows, wal', Len(wal') - 1) = StoreMap
      /\ policy = "always" => synced' = Len(wal')
  BY <1>1, <1>2, <1>5, <1>6, <1>7, LogKeepsFiles
<1>9. StoreMap' = StoreMap /\ policy' = policy /\ call' = call
  BY <1>2 DEF StoreMap, processVars, coreVars, engineVars
<1>10. ThreadsFollowLog'
  BY <1>4, <1>8, <1>9 DEF ThreadsFollowLog, Outside
<1> QED
  BY <1>3, <1>8, <1>10 DEF Serving

(***************************************************************************)
(* The store step of a write takes the store to the end of the log.        *)
(***************************************************************************)
LEMMA StoreCallStep ==
  ASSUME MaxFaults = 0, Serving, NEW t \in Threads, pc[t] = "logged", StoreCall(t),
         UNCHANGED <<fileVars, processVars, past>>
  PROVE  Serving'
<1>1. /\ HandleInv /\ LinInv /\ FilesTyped /\ SnapshotOK /\ HistoryOK
      /\ pc \in [Threads -> Labels] /\ WritesMap(t)
      /\ writer = t
      /\ Len(wal) > 0 /\ wal[Len(wal)] = call[t] /\ wal \in Seq(Writes)
      /\ StoreMap = FilesMap(snap.rows, wal, Len(wal) - 1)
  BY DEF Serving, HandleInv, GuardsOK, CallsOK, WritesMap, ThreadsFollowLog, FilesTyped
<1>2. /\ pc'[t] = "index" /\ \A u \in Threads \ {t} : pc'[u] = pc[u]
      /\ Goto(t, "index")
      /\ UNCHANGED <<kind, index, ivf_dirty, faults, readers, writer, call, committed>>
      /\ UNCHANGED <<snap, wal, synced, policy, past, phase>>
      /\ answer' = [answer EXCEPT ![t] = answer'[t]]
  BY <1>1 DEF StoreCall, Goto, Result, lockVars, fileVars, processVars, HandleInv, CallsOK
<1>3. \A u \in Threads \ {t} : pc'[u] \in Outside /\ ~UnderWay(u)'
  BY <1>1, <1>2, OthersOutside DEF UnderWay, WritesMap, Outside
<1>4. HandleInv'
  <2>1. GuardsOK'
    BY <1>1, <1>2, HandleAssumption DEF HandleInv, GuardsOK, Labels, Goto
  <2>2. CallsOK'
    BY <1>1, <1>2 DEF HandleInv, CallsOK, WritesMap
  <2>3. EngineOK'
    BY <1>1, StoreCallEngine
  <2>4. SearchesReadyIndex' /\ FoundIsCurrent'
    BY <1>2, <1>3 DEF SearchesReadyIndex, FoundIsCurrent, Outside
  <2> QED
    BY <2>1, <2>2, <2>3, <2>4 DEF HandleInv
<1>5. LinInv'
  BY <1>1, StoreCallLin
<1>6. FilesTyped' /\ SnapshotOK' /\ HistoryOK'
  BY <1>1, <1>2 DEF FilesTyped, SnapshotOK, HistoryOK
<1>7. StoreMap' = FilesMap(snap'.rows, wal', Len(wal'))
  <2>1. committed = StoreMap
    BY <1>1, GuardSeesCommitted DEF Ahead
  <2>2. StoreMap' = Applied(call[t], StoreMap)
    BY <2>1, <1>1, <1>2, <1>5 DEF LinInv, Ahead, WritesMap
  <2>3. Len(wal) - 1 \in Nat /\ (Len(wal) - 1) + 1 = Len(wal)
    BY <1>1
  <2>4. FilesMap(snap.rows, wal, (Len(wal) - 1) + 1)
          = After(FilesMap(snap.rows, wal, Len(wal) - 1), wal[(Len(wal) - 1) + 1])
    BY <2>3, FilesMapSteps
  <2>5. FilesMap(snap.rows, wal, Len(wal)) = After(StoreMap, call[t])
    BY <2>3, <2>4, <1>1
  <2> QED
    BY <2>2, <2>5, <1>2 DEF Applied, After, Written
<1>8. policy = "always" => synced = Len(wal)
  BY DEF Serving, ThreadsFollowLog, UnderWay
<1>9. ThreadsFollowLog'
  BY <1>2, <1>3, <1>7, <1>8 DEF ThreadsFollowLog, Outside
<1> QED
  BY <1>4, <1>5, <1>6, <1>9 DEF Serving

(***************************************************************************)
(* The index step of a write changes neither the store nor a file.         *)
(***************************************************************************)
LEMMA WriteIndexStep ==
  ASSUME MaxFaults = 0, Serving, NEW t \in Threads, WriteIndex(t),
         UNCHANGED <<fileVars, processVars, past>>
  PROVE  Serving'
<1>1. [HandleNext]_handleVars
  BY DEF HandleNext, Step
<1>2. HandleInv' /\ LinInv'
  BY <1>1, GuardsStep, CallsStep, EngineStep, SearchStep, LinStep DEF Serving, HandleInv
<1>3. /\ HandleInv /\ pc \in [Threads -> Labels]
      /\ pc[t] = "index" /\ WritesMap(t) /\ writer = t
  BY DEF Serving, HandleInv, GuardsOK, CallsOK, WriteIndex, WritesMap
<1>4. /\ pc'[t] = "unlock" /\ \A u \in Threads \ {t} : pc'[u] = pc[u]
      /\ UNCHANGED <<kind, store, call, snap, wal, synced, policy, past, phase>>
  BY <1>3 DEF WriteIndex, Goto, fileVars, processVars
<1>5. \A u \in Threads \ {t} : pc[u] \in Outside /\ pc'[u] \in Outside /\ ~UnderWay(u)'
  BY <1>3, <1>4, OthersOutside DEF UnderWay, WritesMap, Outside
<1>6. FilesTyped' /\ SnapshotOK' /\ HistoryOK'
  BY <1>2, <1>4, HandleTyped DEF Serving, FilesTyped, SnapshotOK, HistoryOK
<1>7. /\ StoreMap = FilesMap(snap.rows, wal, Len(wal))
      /\ policy = "always" => synced = Len(wal)
  BY <1>3, <1>5 DEF Serving, ThreadsFollowLog, UnderWay, Outside
<1>8. ThreadsFollowLog'
  BY <1>4, <1>5, <1>7 DEF ThreadsFollowLog, StoreMap, Outside
<1> QED
  BY <1>2, <1>6, <1>8 DEF Serving

(***************************************************************************)
(* A flush replaces the snapshot by what the whole log leads to.           *)
(***************************************************************************)
LEMMA SnapshotCallStep ==
  ASSUME Serving, phase \in Phases, NEW t \in Threads, SnapshotCall(t)
  PROVE  Serving'
<1>1. /\ HandleInv /\ LinInv /\ FilesTyped /\ SnapshotOK /\ HistoryOK
      /\ pc \in [Threads -> Labels] /\ pc[t] = "writing" /\ call[t].op = "flush"
      /\ writer = t
  BY DEF Serving, SnapshotCall, HandleInv, GuardsOK
<1>2. /\ UNCHANGED <<coreVars, processVars, lockVars, call, answer, calls, committed>>
      /\ WriteSnapshot /\ Goto(t, "reset")
  BY DEF SnapshotCall
<1>3. HandleInv' /\ LinInv'
  <2>1. answer' = [u \in Threads |-> answer'[u]]
    BY <1>1, <1>2 DEF HandleInv, CallsOK
  <2> QED
    BY <2>1, <1>1, <1>2, FileStep
<1>4. /\ \A u \in Threads \ {t} : pc'[u] \in Outside /\ ~UnderWay(u)'
      /\ \A u \in Threads : pc[u] # "logged"
      /\ pc'[t] = "reset" /\ ~UnderWay(t)'
  BY <1>1, <1>2, OthersOutside DEF Outside, Goto, UnderWay, WritesMap
<1>5. StoreMap = FilesMap(snap.rows, wal, Len(wal)) /\ StoreOK
  <2>1. StoreOK
    BY <1>1, EngineAtRest, EngineInvParts DEF HandleInv
  <2> QED
    BY <2>1, <1>4 DEF Serving, ThreadsFollowLog
<1>6. phase' \in Phases /\ UNCHANGED <<kind, faults>>
  BY <1>2 DEF processVars, coreVars, engineVars
<1>7. /\ FilesTyped' /\ SnapshotOK' /\ HistoryOK'
      /\ RowsMap(snap'.rows, Ids, Absent) = StoreMap
      /\ FilesMap(snap'.rows, wal', Len(wal')) = StoreMap
  BY <1>1, <1>2, <1>5, <1>6, SnapshotKeepsFiles
<1>8. StoreMap' = StoreMap
  BY <1>2 DEF StoreMap, coreVars, engineVars
<1>9. ThreadsFollowLog'
  BY <1>4, <1>7, <1>8 DEF ThreadsFollowLog, Outside
<1> QED
  BY <1>3, <1>7, <1>9 DEF Serving

(***************************************************************************)
(* In the middle of a flush the snapshot, the store, the committed map and *)
(* the latest map of the history are the same, and no write is under way.  *)
(***************************************************************************)
LEMMA ResetSeesOneMap ==
  ASSUME Serving, NEW t \in Threads, pc[t] = "reset"
  PROVE  /\ writer = t /\ call[t].op = "flush"
         /\ \A u \in Threads \ {t} : pc[u] \in Outside /\ ~UnderWay(u)
         /\ Latest = StoreMap /\ committed = StoreMap
         /\ RowsMap(snap.rows, Ids, Absent) = StoreMap
         /\ StoreMap = FilesMap(snap.rows, wal, Len(wal))
<1>1. /\ HandleInv /\ LinInv /\ FilesTyped /\ HistoryOK
      /\ writer = t /\ call[t].op = "flush"
      /\ RowsMap(snap.rows, Ids, Absent) = StoreMap
  BY DEF Serving, HandleInv, GuardsOK, CallsOK, ThreadsFollowLog
<1>2. \A u \in Threads \ {t} : pc[u] \in Outside /\ ~UnderWay(u)
  BY <1>1, OthersOutside
<1>3. StoreMap = FilesMap(snap.rows, wal, Len(wal))
  BY <1>2 DEF Serving, ThreadsFollowLog, Outside
<1>4. Latest = StoreMap
  BY <1>1, <1>3, LatestIsWholeLog
<1>5. committed = StoreMap
  BY <1>1, GuardSeesCommitted DEF Ahead
<1> QED
  BY <1>1, <1>2, <1>3, <1>4, <1>5

(***************************************************************************)
(* It empties the log, or fails to and leaves a log that the snapshot      *)
(* already holds.                                                          *)
(***************************************************************************)
LEMMA ResetCallStep ==
  ASSUME Serving, phase \in Phases, NEW t \in Threads, ResetCall(t)
  PROVE  Serving'
<1>1. /\ HandleInv /\ LinInv /\ FilesTyped /\ SnapshotOK /\ HistoryOK
      /\ pc \in [Threads -> Labels] /\ pc[t] = "reset"
      /\ answer = [u \in Threads |-> answer[u]]
  BY DEF Serving, ResetCall, HandleInv, GuardsOK, CallsOK
<1>2. /\ writer = t /\ call[t].op = "flush"
      /\ \A u \in Threads \ {t} : pc[u] \in Outside
      /\ Latest = StoreMap /\ RowsMap(snap.rows, Ids, Absent) = StoreMap
      /\ StoreMap = FilesMap(snap.rows, wal, Len(wal))
  BY <1>1, ResetSeesOneMap
<1>3. /\ UNCHANGED <<coreVars, processVars, lockVars, call, calls, committed>>
      /\ Goto(t, "unlock")
      /\ \/ EmptyLog
         \/ UNCHANGED <<fileVars, past>>
      /\ answer' = [answer EXCEPT ![t] = answer'[t]]
      /\ answer'[t].op \in {"flush", "error"}
  BY <1>1 DEF ResetCall, Result, Failed
<1>4. HandleInv' /\ LinInv'
  <2>1. /\ answer' = [u \in Threads |-> answer'[u]]
        /\ \A u \in Threads \ {t} : answer'[u] = answer[u]
    BY <1>1, <1>3
  <2> QED
    BY <2>1, <1>1, <1>2, <1>3, FileStep
<1>5. /\ \A u \in Threads \ {t} : pc'[u] \in Outside /\ ~UnderWay(u)'
      /\ pc'[t] = "unlock" /\ ~UnderWay(t)'
  BY <1>1, <1>2, <1>3 DEF Outside, Goto, UnderWay, WritesMap
<1>6. phase' \in Phases /\ UNCHANGED <<kind, faults>> /\ StoreMap' = StoreMap
  BY <1>3 DEF processVars, coreVars, engineVars, StoreMap
<1>7. /\ FilesTyped' /\ SnapshotOK' /\ HistoryOK'
      /\ FilesMap(snap'.rows, wal', Len(wal')) = StoreMap
  <2>1. CASE EmptyLog
    BY <2>1, <1>1, <1>2, <1>6, ResetKeepsFiles
  <2>2. CASE UNCHANGED <<fileVars, past>>
    <3>1. SnapshotOK' /\ HistoryOK'
      BY <2>2, <1>1, FilesStutter
    <3>2. FilesTyped'
      BY <2>2, <1>1, <1>6 DEF FilesTyped, fileVars
    <3> QED
      BY <3>1, <3>2, <2>2, <1>2 DEF fileVars
  <2> QED
    BY <2>1, <2>2, <1>3
<1>8. ThreadsFollowLog'
  BY <1>5, <1>6, <1>7 DEF ThreadsFollowLog, Outside
<1> QED
  BY <1>4, <1>7, <1>8 DEF Serving

(***************************************************************************)
(* The answer that a guard is dropped with tells whether the call was a    *)
(* write.                                                                  *)
(***************************************************************************)
LEMMA AnswerTellsWrite ==
  ASSUME NEW c \in Calls, NEW r, NEW m, AnswersMap(c, r, m)
  PROVE  r.op \in {"upsert", "delete"} <=> c.op \in {"upsert", "delete"}
<1>1. c.op \in {"upsert", "delete", "get", "search", "len", "optimize", "flush"}
  BY CallFields
<1> QED
  BY <1>1 DEF AnswersMap

(***************************************************************************)
(* A guard is dropped; a write acknowledged under the policy Always leaves *)
(* its map alone in the history.                                           *)
(***************************************************************************)
LEMMA UnlockCallStep ==
  ASSUME MaxFaults = 0, Serving, NEW t \in Threads, UnlockCall(t)
  PROVE  Serving'
<1>1. [HandleNext]_handleVars
  BY DEF UnlockCall, HandleNext, Step
<1>2. HandleInv' /\ LinInv'
  BY <1>1, GuardsStep, CallsStep, EngineStep, SearchStep, LinStep DEF Serving, HandleInv
<1>3. /\ HandleInv /\ LinInv /\ FilesTyped /\ SnapshotOK /\ HistoryOK
      /\ pc \in [Threads -> Labels] /\ pc[t] = "unlock"
      /\ Unlock(t)
  BY DEF Serving, UnlockCall, Unlock, HandleInv, GuardsOK
<1>4. /\ pc'[t] = "done" /\ \A u \in Threads \ {t} : pc'[u] = pc[u]
      /\ UNCHANGED <<kind, store, call, snap, wal, synced, policy, phase, faults>>
  BY <1>3 DEF UnlockCall, Unlock, Goto, engineVars, fileVars, processVars
<1>5. FilesTyped' /\ SnapshotOK' /\ HistoryOK'
  <2>1. CASE past' = past
    BY <2>1, <1>3, <1>4 DEF FilesTyped, SnapshotOK, HistoryOK
  <2>2. CASE past' = Promised /\ policy = "always" /\ answer[t].op \in {"upsert", "delete"}
    <3>1. WritesMap(t)
      BY <2>2, <1>3, UnlockTakesEffect, AnswerTellsWrite DEF WritesMap
    <3>2. synced = Len(wal)
      BY <3>1, <2>2, <1>3 DEF Serving, ThreadsFollowLog, UnderWay
    <3>3. phase' \in Phases /\ kind' \in Kinds /\ faults' \in 0 .. MaxFaults
      BY <1>3, <1>4 DEF FilesTyped
    <3>4. FilesTyped' /\ HistoryOK'
      BY <3>2, <3>3, <2>2, <1>3, <1>4, PromiseKeepsFiles
    <3> QED
      BY <3>4, <1>3, <1>4 DEF SnapshotOK
  <2> QED
    BY <2>1, <2>2 DEF UnlockCall
<1>6. \A u \in Threads : /\ UnderWay(u)' => UnderWay(u)
                         /\ pc'[u] = "logged" <=> pc[u] = "logged"
                         /\ pc'[u] = "reset" <=> pc[u] = "reset"
  BY <1>3, <1>4 DEF UnderWay, WritesMap
<1>7. ThreadsFollowLog'
  BY <1>4, <1>6 DEF Serving, ThreadsFollowLog, StoreMap
<1> QED
  BY <1>2, <1>5, <1>7 DEF Serving

-----------------------------------------------------------------------------
(* Where no thread is inside the files are as Durable has them. *)

(***************************************************************************)
(* With nobody inside, the invariant of the files alone holds, and the     *)
(* committed map is the one the store holds.                               *)
(***************************************************************************)
LEMMA RestIsDurable ==
  ASSUME DHInv, NobodyInside
  PROVE  /\ GuardsOK /\ CallsOK /\ DurableInv
         /\ phase \in {"open", "close"} => committed = StoreMap
         /\ phase # "down" => diverged = {}
<1>1. CASE phase = "open"
  <2>1. Serving
    BY <1>1 DEF DHInv
  <2>2. EngineInv /\ StoreMap = FilesMap(snap.rows, wal, Len(wal))
    BY <2>1 DEF Serving, HandleInv, EngineOK, ThreadsFollowLog, NobodyInside
  <2>3. diverged = {} /\ committed = StoreMap
    BY <2>1 DEF Serving, LinInv, Ahead, NobodyInside
  <2>4. DurableInv
    BY <2>1, <2>2, <1>1 DEF Serving, DurableInv, FailureIsFault, StoreFollowsLog
  <2> QED
    BY <2>1, <2>3, <2>4 DEF Serving, HandleInv
<1>2. CASE phase # "open"
  BY <1>2 DEF DHInv, NotServing
<1> QED
  BY <1>1, <1>2

(***************************************************************************)
(* An open that returns lets the threads in: the map served is the one the *)
(* files denote, and nobody is inside yet.                                 *)
(***************************************************************************)
LEMMA OpenServes ==
  ASSUME GuardsOK', CallsOK', NobodyInside', DurableInv', phase' = "open",
         diverged' = {}, committed' = StoreMap'
  PROVE  Serving'
<1>1. /\ EngineInv' /\ FilesTyped' /\ SnapshotOK' /\ HistoryOK'
      /\ StoreMap' = FilesMap(snap'.rows, wal', Len(wal'))
  BY DEF DurableInv, NothingYet, StoreFollowsLog
<1>2. HandleInv'
  BY <1>1 DEF HandleInv, EngineOK, SearchesReadyIndex, FoundIsCurrent, NobodyInside
<1>3. LinInv'
  <2>1. committed' = [x \in Ids |-> committed'[x]]
    BY DEF StoreMap, RowsMap
  <2> QED
    BY <2>1 DEF LinInv, Ahead, NobodyInside
<1>4. ThreadsFollowLog'
  BY <1>1 DEF ThreadsFollowLog, UnderWay, NobodyInside
<1> QED
  BY <1>1, <1>2, <1>3, <1>4 DEF Serving

(***************************************************************************)
(* Threads that do not move keep their guards and their calls.             *)
(***************************************************************************)
LEMMA ThreadsStay ==
  ASSUME GuardsOK, CallsOK, NobodyInside, UNCHANGED <<lockVars, threadVars>>
  PROVE  GuardsOK' /\ CallsOK' /\ NobodyInside'
BY DEF GuardsOK, CallsOK, NobodyInside, lockVars, threadVars

(***************************************************************************)
(* An open that returns.                                                   *)
(***************************************************************************)
LEMMA OpenHandleStep ==
  ASSUME DHInv, OpenHandle
  PROVE  /\ DHInv'
         /\ phase \in {"down", "replay"} /\ phase' = "open"
         /\ NobodyInside /\ NobodyInside'
         /\ committed' = Latest
         /\ ret' = [op |-> "open"] /\ UNCHANGED <<past, policy>>
<1>1. PICK cfg \in BOOLEAN : Create(cfg) \/ FinishOpen(cfg)
  BY DEF OpenHandle
<1>2. /\ phase \in {"down", "replay"} /\ phase' = "open" /\ UNCHANGED <<past, policy>>
      /\ committed' = StoreMap' /\ UNCHANGED <<lockVars, threadVars>>
  BY <1>1 DEF OpenHandle, Create, FinishOpen, Replayed
<1>3. NotServing
  BY <1>2 DEF DHInv
<1>4. DurableInv'
  BY <1>1, <1>3, CreateStep, FinishStep DEF NotServing
<1>5. diverged' = {} /\ ret' = [op |-> "open"]
  BY <1>1, <1>2, <1>3 DEF NotServing, Create, FinishOpen, LoadFrom, Replayed
<1>6. GuardsOK' /\ CallsOK' /\ NobodyInside'
  BY <1>2, <1>3, ThreadsStay DEF NotServing
<1>7. Serving'
  BY <1>2, <1>4, <1>5, <1>6, OpenServes
<1>8. StoreMap' = Latest
  <2>1. past'[Len(past')] = FilesMap(snap'.rows, wal', Len(wal'))
    <3>1. FilesTyped' /\ HistoryOK'
      BY <1>7 DEF Serving
    <3>2. /\ Len(wal') \in Nat /\ Len(past') \in Nat
          /\ 0 \in 0 .. Len(wal') - synced'
      BY <3>1 DEF FilesTyped
    <3>3. past'[Len(past') - 0] = FilesMap(snap'.rows, wal', Len(wal') - 0)
      BY <3>1, <3>2 DEF HistoryOK
    <3> QED
      BY <3>2, <3>3
  <2>2. StoreMap' = FilesMap(snap'.rows, wal', Len(wal'))
    BY <1>2, <1>4 DEF DurableInv, NothingYet, StoreFollowsLog
  <2> QED
    BY <2>1, <2>2, <1>2 DEF Latest
<1> QED
  BY <1>2, <1>3, <1>5, <1>6, <1>7, <1>8 DEF DHInv, NotServing

(***************************************************************************)
(* A load, a replayed record and an open that is refused.                  *)
(***************************************************************************)
LEMMA LoadHandleStep ==
  ASSUME MaxFaults = 0, DHInv, LoadHandle
  PROVE  /\ DHInv'
         /\ phase \notin {"open", "close"} /\ phase' \notin {"open", "close"}
         /\ NobodyInside /\ NobodyInside'
         /\ UNCHANGED <<past, committed>>
         /\ policy' = policy \/ policy' \in Policies
<1>1. /\ Replay \/ RejectOpen \/ \E p \in Policies : Load(p)
      /\ UNCHANGED <<lockVars, threadVars, committed>>
  BY DEF LoadHandle
<1>2. /\ phase \in {"down", "replay", "failed"} /\ phase' \in {"down", "replay", "failed"}
      /\ UNCHANGED past /\ (policy' = policy \/ policy' \in Policies)
      /\ RejectOpen => phase # "down"
      /\ Replay => phase = "replay"
      /\ phase' = "down" => RejectOpen
  BY <1>1 DEF Replay, RejectOpen, Replayed, Load
<1>3. NotServing
  BY <1>2 DEF DHInv
<1>4. DurableInv'
  <2>1. CASE RejectOpen
    <3>1. /\ phase # "down" /\ phase' = "down"
          /\ UNCHANGED <<fileVars, past, kind, faults>>
      BY <2>1, <1>2 DEF RejectOpen
    <3> QED
      BY <3>1, <1>3, EndKeepsFiles DEF NotServing
  <2> QED
    BY <2>1, <1>1, <1>3, LoadStep, ReplayStep DEF NotServing
<1>5. diverged' = {}
  <2>1. ASSUME Replay PROVE diverged' = {}
    <3>1. diverged = {} /\ faults \in 0 .. MaxFaults
      BY <2>1, <1>2, <1>3 DEF NotServing, DurableInv, FilesTyped
    <3>2. \A ok \in BOOLEAN : Outcome(ok) => ok
      BY <3>1 DEF Outcome
    <3>3. Apply(wal[cursor])
      BY <2>1 DEF Replay
    <3> QED
      BY <3>1, <3>2, <3>3
      DEF Apply, Insert, Delete, InsertIndexStep, DeleteIndexStep, InsertDeferred,
          InsertApplied, DeleteApplied
  <2> QED
    BY <2>1, <1>1 DEF RejectOpen, NoCore, Load, LoadFrom
<1>6. phase' = "down" => ret' = [op |-> "open"]
  BY <1>2 DEF RejectOpen, NoCore
<1>7. GuardsOK' /\ CallsOK' /\ NobodyInside'
  BY <1>1, <1>3, ThreadsStay DEF NotServing
<1> QED
  BY <1>1, <1>2, <1>3, <1>4, <1>5, <1>6, <1>7 DEF DHInv, NotServing

(***************************************************************************)
(* The end of a handle, by close or by a drop: the history keeps its       *)
(* latest map or stays as it was.                                          *)
(***************************************************************************)
LEMMA CloseHandleStep ==
  ASSUME DHInv, CloseHandle
  PROVE  /\ DHInv'
         /\ phase \in {"open", "close"} /\ phase' \in {"close", "down"}
         /\ NobodyInside /\ NobodyInside'
         /\ UNCHANGED <<committed, policy>>
         /\ phase' = "close" => UNCHANGED <<ret, past>>
         /\ phase' = "down" => past' \in {<<committed>>, past}
<1>1. /\ ReplaceSnapshot("close") \/ ResetLog \/ ResetFails \/ Abandon
      /\ UNCHANGED <<lockVars, threadVars, committed>> /\ NobodyInside
  BY DEF CloseHandle
<1>2. /\ GuardsOK /\ CallsOK /\ DurableInv /\ phase # "flush"
      /\ phase \in {"open", "close"} => committed = StoreMap
      /\ phase # "down" => diverged = {}
  BY <1>1, RestIsDurable DEF DHInv
<1>3. GuardsOK' /\ CallsOK' /\ NobodyInside'
  BY <1>1, <1>2, ThreadsStay
<1>4. CASE ReplaceSnapshot("close")
  <2>1. /\ phase = "open" /\ phase' = "close" /\ UNCHANGED <<store, ret, past, policy, diverged>>
    BY <1>4 DEF ReplaceSnapshot, WriteSnapshot, coreVars, engineVars
  <2>2. DurableInv'
    BY <1>2, <1>4, SnapshotStep
  <2>3. committed' = StoreMap' /\ diverged' = {}
    BY <2>1, <1>1, <1>2 DEF StoreMap
  <2> QED
    BY <2>1, <2>2, <2>3, <1>1, <1>3 DEF DHInv, NotServing
<1>5. CASE ResetLog \/ ResetFails \/ Abandon
  <2>1. /\ phase \in {"open", "close"} /\ phase' = "down" /\ NoCore
        /\ UNCHANGED policy
        /\ ResetLog => phase = "close" /\ past' = <<Latest>>
        /\ ~ResetLog => past' = past
    BY <1>2, <1>5
    DEF ResetLog, ResetFails, Abandon, Checkpointed, EmptyLog, Promised
  <2>2. DurableInv'
    <3>1. CASE Abandon
      <4>1. UNCHANGED <<fileVars, past, kind, faults>>
        BY <3>1 DEF Abandon
      <4> QED
        BY <4>1, <2>1, <1>2, EndKeepsFiles
    <3> QED
      BY <3>1, <1>2, <1>5, ResetStep, ResetFailsStep
  <2>3. past' \in {<<committed>>, past}
    <3>1. ASSUME ResetLog PROVE Latest = committed
      BY <3>1, <2>1, <1>2, LatestIsWholeLog
      DEF DurableInv, NothingYet, StoreFollowsLog
    <3> QED
      BY <3>1, <2>1
  <2>4. diverged' = {} /\ ret' = [op |-> "open"]
    BY <2>1 DEF NoCore
  <2> QED
    BY <2>1, <2>2, <2>3, <2>4, <1>1, <1>3 DEF DHInv, NotServing
<1> QED
  BY <1>1, <1>4, <1>5

(***************************************************************************)
(* A crash, at any place of any thread: the history is cut to a prefix.    *)
(***************************************************************************)
LEMMA CrashHandleStep ==
  ASSUME DHInv, CrashHandle
  PROVE  /\ DHInv'
         /\ phase' = "down" /\ NobodyInside'
         /\ UNCHANGED <<committed, policy>>
         /\ \E n \in 1 .. Len(past) : past' = SubSeq(past, 1, n)
<1>1. /\ Crash /\ phase' = "down" /\ NoCore /\ UNCHANGED <<committed, policy>>
      /\ phase # "down" \/ synced < Len(wal)
      /\ readers' = {} /\ writer' = NoThread
      /\ pc' = [t \in Threads |-> "idle"]
      /\ call' = [t \in Threads |-> NoCall]
      /\ answer' = [t \in Threads |-> NoCall]
  BY DEF CrashHandle, Crash
<1>2. FilesTyped /\ SnapshotOK /\ HistoryOK
  <2>1. CASE phase = "open"
    BY <2>1 DEF DHInv, Serving
  <2>2. CASE phase # "open"
    BY <2>2, <1>1 DEF DHInv, NotServing, DurableInv, NothingYet
  <2> QED
    BY <2>1, <2>2
<1>3. /\ FilesTyped' /\ SnapshotOK' /\ HistoryOK'
      /\ \E n \in 1 .. Len(past) : past' = SubSeq(past, 1, n)
  BY <1>1, <1>2, CrashKeepsFiles
<1>4. DurableInv'
  BY <1>1, <1>3 DEF DurableInv, FailureIsFault, StoreFollowsLog
<1>5. GuardsOK' /\ CallsOK' /\ NobodyInside'
  BY <1>1, HandleAssumption DEF GuardsOK, Labels, CallsOK, NobodyInside
<1>6. ret' = [op |-> "open"]
  BY <1>1 DEF NoCore
<1> QED
  BY <1>1, <1>3, <1>4, <1>5, <1>6 DEF DHInv, NotServing

(***************************************************************************)
(* A call is made on an open database only.                                *)
(***************************************************************************)
LEMMA CallsWhileServing ==
  ASSUME DHInv, NEW t \in Threads,
         Serve(t) \/ LogCall(t) \/ ApplyCall(t) \/ SnapshotCall(t) \/ ResetCall(t)
           \/ UnlockCall(t)
  PROVE  phase = "open" /\ phase' = "open" /\ Serving /\ phase \in Phases
<1>1. phase = "open"
  BY DEF DHInv, NotServing, NobodyInside, Serve, LogCall, ApplyCall, SnapshotCall,
         ResetCall, UnlockCall, Unlock, WriteIndex
<1>2. UNCHANGED phase
  BY DEF Serve, LogCall, ApplyCall, SnapshotCall, ResetCall, UnlockCall, processVars
<1> QED
  BY <1>1, <1>2 DEF DHInv, Phases

(***************************************************************************)
(* The parts together are inductive.                                       *)
(***************************************************************************)
LEMMA DHInvariant ==
  ASSUME MaxFaults = 0
  PROVE  DHSpec => []DHInv
<1>1. DHInit => DHInv
  <2> SUFFICES ASSUME DHInit PROVE DHInv
    OBVIOUS
  <2>1. /\ phase = "down" /\ ret = [op |-> "open"] /\ NoThreadInside /\ DurableInit
    BY DEF DHInit, DurableInit
  <2>2. DurableInv
    BY <2>1, DurableInitInv
  <2>3. GuardsOK /\ CallsOK /\ NobodyInside
    BY <2>1, HandleAssumption DEF NoThreadInside, GuardsOK, Labels, CallsOK, NobodyInside
  <2> QED
    BY <2>1, <2>2, <2>3 DEF DHInv, NotServing
<1>2. DHInv /\ [DHNext]_dhVars => DHInv'
  <2> SUFFICES ASSUME DHInv, [DHNext]_dhVars PROVE DHInv'
    OBVIOUS
  <2>1. ASSUME NEW t \in Threads,
               Serve(t) \/ LogCall(t) \/ ApplyCall(t) \/ SnapshotCall(t)
                 \/ ResetCall(t) \/ UnlockCall(t)
        PROVE  DHInv'
    <3>1. phase' = "open" /\ Serving /\ phase \in Phases
      BY <2>1, CallsWhileServing
    <3>2. Serving'
      BY <2>1, <3>1, ServeStep, LogCallStep, StoreCallStep, WriteIndexStep,
         SnapshotCallStep, ResetCallStep, UnlockCallStep
      DEF ApplyCall
    <3> QED
      BY <3>1, <3>2 DEF DHInv
  <2>2. CASE UNCHANGED dhVars
    <3>1. /\ UNCHANGED handleVars /\ UNCHANGED <<fileVars, past, phase, policy, cursor>>
          /\ UNCHANGED <<engineVars, faults, ret, committed, pc, call, store, kind,
                         diverged, lockVars, threadVars>>
          /\ UNCHANGED <<snap, wal, synced>>
      BY <2>2 DEF dhVars, handleVars, coreVars, engineVars, threadVars, processVars, fileVars
    <3>2. CASE phase = "open"
      <4>1. Serving
        BY <3>2 DEF DHInv
      <4>2. HandleInv' /\ LinInv'
        BY <4>1, <3>1, GuardsStep, CallsStep, EngineStep, SearchStep, LinStep
        DEF Serving, HandleInv
      <4>3. FilesTyped' /\ SnapshotOK' /\ HistoryOK'
        BY <4>1, <3>1, FilesStutter DEF Serving, FilesTyped
      <4>4. ThreadsFollowLog'
        BY <4>1, <3>1 DEF Serving, ThreadsFollowLog, UnderWay, WritesMap, StoreMap
      <4> QED
        BY <4>2, <4>3, <4>4, <3>1, <3>2 DEF DHInv, Serving
    <3>3. CASE phase # "open"
      <4>1. NotServing
        BY <3>3 DEF DHInv
      <4>2. GuardsOK' /\ CallsOK' /\ NobodyInside'
        BY <4>1, <3>1, ThreadsStay DEF NotServing
      <4>3. DurableInv'
        <5>1. /\ FilesTyped' /\ (SnapshotOK' <=> SnapshotOK) /\ (HistoryOK' <=> HistoryOK)
              /\ EngineInv' <=> EngineInv
          BY <4>1, <3>1, FilesStutter, EngineStutter DEF NotServing, DurableInv, FilesTyped
        <5> QED
          BY <5>1, <4>1, <3>1
          DEF NotServing, DurableInv, FailureIsFault, NothingYet, StoreFollowsLog, StoreMap
      <4> QED
        BY <4>1, <4>2, <4>3, <3>1, <3>3 DEF DHInv, NotServing, StoreMap
    <3> QED
      BY <3>2, <3>3
  <2> QED
    BY <2>1, <2>2, OpenHandleStep, LoadHandleStep, CloseHandleStep, CrashHandleStep
    DEF DHNext
<1> QED
  BY <1>1, <1>2, PTL DEF DHSpec

-----------------------------------------------------------------------------
(* The steps as steps of DurableMap. *)

\* Whether the abstract map has a write under way.
Pending == \E t \in Threads : UnderWay(t)

(***************************************************************************)
(* A step that changes nothing the abstract map shows.                     *)
(***************************************************************************)
LEMMA Invisible ==
  ASSUME UNCHANGED <<committed, past, policy>>, IsUp' <=> IsUp, IsUp => ret' = ret,
         Pending' <=> Pending
  PROVE  UNCHANGED Promise!durableMapVars
<1>1. (IF IsUp THEN ret ELSE [op |-> "open"])' = IF IsUp THEN ret ELSE [op |-> "open"]
  OBVIOUS
<1> QED
  BY <1>1 DEF Promise!durableMapVars, Pending, UnderWay, WritesMap

(***************************************************************************)
(* A logged write announces the map it leads to.                           *)
(***************************************************************************)
LEMMA LogCallAnnounces ==
  ASSUME Serving, phase = "open", NEW t \in Threads, LogCall(t)
  PROVE  Promise!Announce
<1>1. /\ HandleInv /\ LinInv /\ pc \in [Threads -> Labels]
      /\ pc[t] = "writing" /\ writer = t
      /\ call[t] \in Calls /\ call[t].op \in {"upsert", "delete"}
  BY DEF Serving, LogCall, HandleInv, GuardsOK, CallsOK
<1>2. /\ past' = Append(past, After(StoreMap, call[t])) /\ pc'[t] = "logged"
      /\ UNCHANGED <<committed, ret, phase, policy>>
  BY <1>1 DEF LogCall, LogRecord, Goto, coreVars, processVars
<1>3. committed = StoreMap
  BY <1>1, GuardSeesCommitted DEF Ahead
<1>4. ~Pending
  BY <1>1, NoneUnderWay DEF Pending, UnderWay
<1>5. Pending'
  BY <1>2 DEF Pending, UnderWay
<1>6. IsUp /\ IsUp'
  BY <1>2 DEF IsUp
<1>7. \E id \in Ids, v \in Vals \cup {Absent} :
        past' = Append(past, [committed EXCEPT ![id] = v])
  <2>1. call[t].id \in Ids /\ Written(call[t]) \in Vals \cup {Absent}
    BY <1>1, CallFields DEF Written
  <2> QED
    BY <2>1, <1>2, <1>3 DEF After
<1> QED
  BY <1>2, <1>4, <1>5, <1>6, <1>7 DEF Promise!Announce, Pending, UnderWay, WritesMap

(***************************************************************************)
(* A flush that returns keeps the latest map alone.                        *)
(***************************************************************************)
LEMMA ResetCallKeeps ==
  ASSUME Serving, phase = "open", NEW t \in Threads, ResetCall(t)
  PROVE  [Promise!DurableNext]_(Promise!durableMapVars)
<1>1. pc[t] = "reset" /\ pc \in [Threads -> Labels]
  BY DEF ResetCall, Serving, HandleInv, GuardsOK
<1>2. /\ call[t].op = "flush" /\ Latest = committed
      /\ \A u \in Threads \ {t} : ~UnderWay(u)
  BY <1>1, ResetSeesOneMap
<1>3. /\ UNCHANGED <<committed, ret, phase, policy, call>>
      /\ pc'[t] = "unlock" /\ \A u \in Threads \ {t} : pc'[u] = pc[u]
      /\ past' = <<Latest>> \/ past' = past
  BY <1>1 DEF ResetCall, EmptyLog, Promised, Goto, coreVars, processVars
<1>4. ~Pending /\ ~Pending'
  BY <1>1, <1>2, <1>3 DEF Pending, UnderWay, WritesMap
<1>5. IsUp /\ IsUp'
  BY <1>3 DEF IsUp
<1>6. CASE past' = past
  BY <1>3, <1>4, <1>5, <1>6, Invisible
<1>7. CASE past' = <<Latest>>
  BY <1>2, <1>3, <1>4, <1>5, <1>7
  DEF Promise!Keep, Promise!DurableNext, Pending, UnderWay, WritesMap
<1> QED
  BY <1>3, <1>6, <1>7

(***************************************************************************)
(* The drop of a guard: a write takes effect as announced, a read answers  *)
(* for the committed map, and optimize and flush show nothing.             *)
(***************************************************************************)
LEMMA UnlockCallActs ==
  ASSUME Serving, phase = "open", NEW t \in Threads, UnlockCall(t)
  PROVE  [Promise!DurableNext]_(Promise!durableMapVars)
<1> DEFINE c == call[t]
<1>1. /\ HandleInv /\ LinInv /\ FilesTyped /\ HistoryOK
      /\ pc \in [Threads -> Labels] /\ pc[t] = "unlock"
      /\ t \in readers \/ writer = t
      /\ Unlock(t)
  BY DEF Serving, UnlockCall, Unlock, HandleInv, GuardsOK
<1>2. /\ c \in Calls
      /\ AnswersMap(c, answer[t], committed)
      /\ c.op \notin {"upsert", "delete"} => committed' = committed
      /\ c.op \in {"upsert", "delete"} => committed' = Applied(c, committed)
      /\ c.op \in {"optimize", "flush"} => ret' = ret
      /\ c.op \notin {"optimize", "flush"} => AnswersMap(c, ret', committed)
  BY <1>1, UnlockTakesEffect
<1>3. /\ pc'[t] = "done" /\ \A u \in Threads \ {t} : pc'[u] = pc[u]
      /\ UNCHANGED <<call, phase, policy>>
      /\ past' = IF answer[t].op \in {"upsert", "delete"} /\ policy = "always"
                 THEN <<Latest>> ELSE past
  BY <1>1 DEF UnlockCall, Unlock, Goto, processVars, Promised
<1>4. IsUp /\ IsUp'
  BY <1>3 DEF IsUp
<1>5. past' = IF c.op \in {"upsert", "delete"} /\ policy = "always"
              THEN <<Latest>> ELSE past
  BY <1>2, <1>3, AnswerTellsWrite
<1>6. ~UnderWay(t)' /\ \A u \in Threads \ {t} : UnderWay(u)' <=> UnderWay(u)
  BY <1>3 DEF UnderWay, WritesMap
<1>7. Promise!Stored = {x \in Ids : committed[x] # Absent}
  BY DEF Promise!Stored
<1>8. ASSUME c.op \notin {"upsert", "delete"}
      PROVE  ~UnderWay(t) /\ (Pending' <=> Pending) /\ UNCHANGED <<committed, past, policy>>
  BY <1>1, <1>2, <1>3, <1>5, <1>6, <1>8 DEF Pending, UnderWay, WritesMap
<1>9. CASE c.op \in {"optimize", "flush"}
  BY <1>2, <1>4, <1>8, <1>9, Invisible
<1>10. ASSUME c.op \in {"get", "len", "search"},
              Promise!Size \/ Promise!Search \/ \E id \in Ids : Promise!Get(id)
       PROVE  Promise!DurableNext
  <2>1. UNCHANGED <<past, policy>> /\ (Pending' <=> Pending)
    BY <1>8, <1>10
  <2>2. Promise!Read
    BY <2>1, <1>4, <1>10 DEF Promise!Read, Pending, UnderWay, WritesMap
  <2> QED
    BY <2>2 DEF Promise!DurableNext
<1>11. CASE c.op = "get"
  <2>1. ret' = [op |-> "get", id |-> c.id, row |-> committed[c.id]] /\ c.id \in Ids
    BY <1>2, <1>11, CallFields DEF AnswersMap
  <2>2. Promise!Get(c.id)
    BY <2>1, <1>2, <1>4, <1>11 DEF Promise!Get
  <2> QED
    BY <2>1, <2>2, <1>10, <1>11
<1>12. CASE c.op = "len"
  <2>1. ret' = [op |-> "len", n |-> Cardinality(Promise!Stored)]
    BY <1>2, <1>7, <1>12 DEF AnswersMap
  <2>2. Promise!Cardinality(Promise!Stored) = Cardinality(Promise!Stored)
    BY DEF Promise!Cardinality, Cardinality
  <2>3. Promise!Size
    BY <2>1, <2>2, <1>2, <1>4, <1>12 DEF Promise!Size
  <2> QED
    BY <2>3, <1>10, <1>12
<1>13. CASE c.op = "search"
  <2>1. ret' = [op |-> "search", hits |-> {<<x, committed[x]>> : x \in Promise!Stored}]
    BY <1>2, <1>7, <1>13 DEF AnswersMap
  <2>2. Promise!Search
    BY <2>1, <1>2, <1>4, <1>13 DEF Promise!Search
  <2> QED
    BY <2>2, <1>10, <1>13
<1>14. CASE c.op \in {"upsert", "delete"}
  <2>1. /\ UnderWay(t) /\ writer = t /\ c.id \in Ids
        /\ StoreMap = committed'
    BY <1>1, <1>2, <1>14, CallFields DEF UnderWay, WritesMap, LinInv, Ahead
  <2>2. \A u \in Threads \ {t} : ~UnderWay(u) /\ pc[u] # "logged"
    BY <2>1, <1>1, OthersOutside DEF Outside
  <2>3. committed' = past[Len(past)]
    <3>1. StoreMap = FilesMap(snap.rows, wal, Len(wal))
      BY <2>2, <1>1 DEF Serving, ThreadsFollowLog
    <3> QED
      BY <3>1, <2>1, <1>1, LatestIsWholeLog DEF Latest
  <2>4. Pending /\ ~Pending'
    BY <2>1, <2>2, <1>6 DEF Pending
  <2>5. past' = IF policy = "always" THEN <<committed'>> ELSE past
    BY <2>3, <1>5, <1>14 DEF Latest
  <2>6. \E id \in Ids : Promise!Del(id) \/ \E val \in Vals : Promise!Put(id, val)
    <3>1. CASE c.op = "upsert"
      <4>1. ret' = [op |-> "upsert", id |-> c.id, newly |-> committed[c.id] = Absent]
        BY <1>2, <3>1 DEF AnswersMap
      <4>2. c.val \in Vals
        BY <1>2, <3>1, CallFields
      <4>3. ret' = [op |-> "upsert", id |-> c.id, newly |-> c.id \notin Promise!Stored]
        BY <4>1, <2>1, <1>7
      <4>4. Promise!Put(c.id, c.val)
        BY <4>3, <3>1, <1>2, <1>4 DEF Promise!Put, Applied
      <4> QED
        BY <4>2, <4>4, <2>1
    <3>2. CASE c.op = "delete"
      <4>1. ret' = [op |-> "delete", id |-> c.id, existed |-> committed[c.id] # Absent]
        BY <1>2, <3>2 DEF AnswersMap
      <4>2. ret' = [op |-> "delete", id |-> c.id, existed |-> c.id \in Promise!Stored]
        BY <4>1, <2>1, <1>7
      <4>3. Promise!Del(c.id)
        BY <4>2, <3>2, <1>2, <1>4 DEF Promise!Del, Applied
      <4> QED
        BY <4>3, <2>1
    <3> QED
      BY <3>1, <3>2, <1>14
  <2>7. Promise!Write
    BY <2>3, <2>4, <2>5, <2>6, <1>3, <1>4
    DEF Promise!Write, Pending, UnderWay, WritesMap
  <2> QED
    BY <2>7 DEF Promise!DurableNext
<1> QED
  BY <1>2, <1>9, <1>11, <1>12, <1>13, <1>14, CallFields

(***************************************************************************)
(* With nobody inside no write is under way.                               *)
(***************************************************************************)
LEMMA RestIsNotPending ==
  /\ NobodyInside => ~Pending
  /\ NobodyInside' => ~Pending'
BY DEF NobodyInside, Pending, UnderWay

(***************************************************************************)
(* An open that returns brings back the latest map of the history.         *)
(***************************************************************************)
LEMMA OpenHandleOpens ==
  ASSUME DHInv, OpenHandle
  PROVE  Promise!DurableNext
<1>1. /\ phase \in {"down", "replay"} /\ phase' = "open"
      /\ ~Pending /\ ~Pending'
      /\ committed' = past[Len(past)]
      /\ ret' = [op |-> "open"] /\ UNCHANGED <<past, policy>>
  BY OpenHandleStep, RestIsNotPending DEF Latest
<1>2. ~IsUp /\ IsUp'
  BY <1>1 DEF IsUp
<1>3. Promise!Open
  BY <1>1, <1>2 DEF Promise!Open, Pending, UnderWay, WritesMap
<1> QED
  BY <1>3 DEF Promise!DurableNext

(***************************************************************************)
(* A load shows the policy the caller chose, and nothing else.             *)
(***************************************************************************)
LEMMA LoadHandleChooses ==
  ASSUME MaxFaults = 0, DHInv, LoadHandle
  PROVE  [Promise!DurableNext]_(Promise!durableMapVars)
<1>1. /\ phase \notin {"open", "close"} /\ phase' \notin {"open", "close"}
      /\ ~Pending /\ ~Pending' /\ UNCHANGED <<past, committed>>
      /\ policy' = policy \/ policy' \in Policies
  BY LoadHandleStep, RestIsNotPending
<1>2. ~IsUp /\ ~IsUp'
  BY <1>1 DEF IsUp
<1>3. CASE policy' = policy
  BY <1>1, <1>2, <1>3, Invisible
<1>4. CASE policy' \in Policies
  <2>1. (IF IsUp THEN ret ELSE [op |-> "open"])' = IF IsUp THEN ret ELSE [op |-> "open"]
    BY <1>2
  <2>2. UNCHANGED IsUp
    BY <1>1 DEF IsUp
  <2>3. Promise!Choose
    BY <1>1, <1>2, <1>4, <2>1, <2>2
    DEF Promise!Choose, Pending, UnderWay, WritesMap
  <2> QED
    BY <2>3 DEF Promise!DurableNext
<1> QED
  BY <1>1, <1>3, <1>4

(***************************************************************************)
(* The end of a handle shuts the abstract map.                             *)
(***************************************************************************)
LEMMA CloseHandleShuts ==
  ASSUME DHInv, CloseHandle
  PROVE  [Promise!DurableNext]_(Promise!durableMapVars)
<1>1. /\ phase \in {"open", "close"} /\ phase' \in {"close", "down"}
      /\ ~Pending /\ ~Pending' /\ UNCHANGED <<committed, policy>>
      /\ phase' = "close" => UNCHANGED <<ret, past>>
      /\ phase' = "down" => past' \in {<<committed>>, past}
  BY CloseHandleStep, RestIsNotPending
<1>2. IsUp /\ (IsUp' <=> phase' = "close")
  BY <1>1 DEF IsUp
<1>3. CASE phase' = "close"
  BY <1>1, <1>2, <1>3, Invisible
<1>4. CASE phase' = "down"
  <2>1. Promise!Shut
    BY <1>1, <1>2, <1>4
    DEF Promise!Shut, Promise!Opened, Pending, UnderWay, WritesMap
  <2> QED
    BY <2>1 DEF Promise!DurableNext
<1> QED
  BY <1>1, <1>3, <1>4

(***************************************************************************)
(* A crash is a crash of the abstract map.                                 *)
(***************************************************************************)
LEMMA CrashHandleCrashes ==
  ASSUME DHInv, CrashHandle
  PROVE  Promise!DurableNext
<1>1. /\ phase' = "down" /\ ~Pending' /\ UNCHANGED <<committed, policy>>
      /\ \E n \in 1 .. Len(past) : past' = SubSeq(past, 1, n)
  BY CrashHandleStep, RestIsNotPending
<1>2. ~IsUp'
  BY <1>1 DEF IsUp
<1>3. Promise!Crash
  BY <1>1, <1>2 DEF Promise!Crash, Promise!Opened, Pending, UnderWay, WritesMap
<1> QED
  BY <1>3 DEF Promise!DurableNext

(***************************************************************************)
(* The other steps of a call show nothing: a read before its guard is      *)
(* dropped, the two steps that apply a write, the snapshot of a flush.     *)
(***************************************************************************)
LEMMA CallsAreInvisible ==
  ASSUME Serving, phase = "open", phase' = "open", NEW t \in Threads,
         Serve(t) \/ ApplyCall(t) \/ SnapshotCall(t)
  PROVE  UNCHANGED Promise!durableMapVars
<1>1. /\ HandleInv /\ pc \in [Threads -> Labels] /\ CallsOK
  BY DEF Serving, HandleInv, GuardsOK
<1>2. IsUp /\ IsUp'
  BY DEF IsUp
<1>3. UNCHANGED <<committed, past, policy, ret>>
  <2>1. CASE Serve(t)
    BY <2>1, <1>1, ServeMoves
  <2>2. CASE ApplyCall(t)
    BY <2>2 DEF ApplyCall, StoreCall, WriteIndex, processVars
  <2>3. CASE SnapshotCall(t)
    BY <2>3 DEF SnapshotCall, WriteSnapshot, processVars, coreVars
  <2> QED
    BY <2>1, <2>2, <2>3
<1>4. \A u \in Threads : UnderWay(u)' <=> UnderWay(u)
  <2>1. CASE Serve(t)
    BY <2>1, <1>1, ServeMoves DEF UnderWay, WritesMap
  <2>2. CASE ApplyCall(t)
    <3>1. /\ UNCHANGED call /\ \A u \in Threads \ {t} : pc'[u] = pc[u]
          /\ pc[t] \in {"logged", "index"} /\ pc'[t] \in {"index", "unlock"}
      BY <2>2, <1>1 DEF ApplyCall, StoreCall, WriteIndex, Goto
    <3> QED
      BY <3>1, <1>1 DEF UnderWay, WritesMap, CallsOK
  <2>3. CASE SnapshotCall(t)
    <3>1. /\ UNCHANGED call /\ \A u \in Threads \ {t} : pc'[u] = pc[u]
          /\ pc[t] = "writing" /\ pc'[t] = "reset"
      BY <2>3, <1>1 DEF SnapshotCall, Goto
    <3> QED
      BY <3>1 DEF UnderWay, WritesMap
  <2> QED
    BY <2>1, <2>2, <2>3
<1> QED
  BY <1>2, <1>3, <1>4, Invisible DEF Pending

(***************************************************************************)
(* The file-backed handle is durably linearizable while index calls        *)
(* succeed, for any number of threads, calls, writes and crashes: every    *)
(* call takes effect at the drop of its last guard with the map's answer,  *)
(* and an open brings back the map after a prefix of the writes in that    *)
(* order, with all that was acknowledged under the policy Always and all   *)
(* that came before the latest flush or close that returned.               *)
(***************************************************************************)
THEOREM HandleIsDurablyLinearizable ==
  ASSUME MaxFaults = 0
  PROVE  DHSpec => DurablyLinearizable
<1>1. DHInit => Promise!DurableInit
  <2> SUFFICES ASSUME DHInit PROVE Promise!DurableInit
    OBVIOUS
  <2>1. StoreMap = [x \in Ids |-> Absent]
    BY DEF DHInit, DurableInit, EmptyStore, StoreMap, RowsMap
  <2>2. /\ committed = StoreMap /\ past = <<EmptyMap>> /\ phase = "down"
        /\ policy \in Policies /\ \A t \in Threads : pc[t] = "idle"
    BY DEF DHInit, DurableInit, NoThreadInside
  <2>3. ~IsUp /\ ~Pending
    BY <2>2 DEF IsUp, Pending, UnderWay
  <2>4. Promise!Init
    BY <2>1, <2>2, <2>3 DEF Promise!Init
  <2> QED
    BY <2>1, <2>2, <2>3, <2>4
    DEF Promise!DurableInit, EmptyMap, Pending, UnderWay, WritesMap
<1>2. DHInv /\ [DHNext]_dhVars => [Promise!DurableNext]_(Promise!durableMapVars)
  <2> SUFFICES ASSUME DHInv, [DHNext]_dhVars
               PROVE  [Promise!DurableNext]_(Promise!durableMapVars)
    OBVIOUS
  <2>1. ASSUME NEW t \in Threads,
               Serve(t) \/ LogCall(t) \/ ApplyCall(t) \/ SnapshotCall(t)
                 \/ ResetCall(t) \/ UnlockCall(t)
        PROVE  [Promise!DurableNext]_(Promise!durableMapVars)
    <3>1. phase = "open" /\ phase' = "open" /\ Serving
      BY <2>1, CallsWhileServing
    <3> QED
      BY <2>1, <3>1, CallsAreInvisible, LogCallAnnounces, ResetCallKeeps, UnlockCallActs
      DEF Promise!DurableNext
  <2>2. CASE UNCHANGED dhVars
    <3>1. UNCHANGED <<committed, past, policy, phase, ret, pc, call>>
      BY <2>2 DEF dhVars, handleVars, coreVars, threadVars, processVars
    <3> QED
      BY <3>1, Invisible DEF IsUp, Pending, UnderWay, WritesMap
  <2> QED
    BY <2>1, <2>2, OpenHandleOpens, LoadHandleChooses, CloseHandleShuts,
       CrashHandleCrashes
    DEF DHNext
<1> QED
  BY <1>1, <1>2, DHInvariant, PTL
  DEF DHSpec, DurablyLinearizable, Promise!DurableSpec

=============================================================================
