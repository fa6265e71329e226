--------------------------- MODULE DurableProofs ---------------------------
(***************************************************************************)
(* Proofs about the file-backed database, for any number of writes,        *)
(* crashes and index faults: what an open brings back is what was          *)
(* promised, the files denote the map the database serves, files that are  *)
(* whole open, and what is loaded is in step.                              *)
(***************************************************************************)
EXTENDS Durable, IqdbCoreProofs, WellFoundedInduction

Phases == {"down", "replay", "failed", "open", "apply", "flush", "close"}
Maps == [Ids -> Vals \cup {Absent}]

(* The inductive invariant, in parts. *)

FilesTyped ==
  /\ phase \in Phases
  /\ wal \in Seq(Writes) /\ synced \in 0 .. Len(wal)
  /\ past \in Seq(Maps) /\ Len(past) > 0
  /\ kind \in Kinds /\ faults \in 0 .. MaxFaults

\* Before the first open there is nothing at the path.
NothingYet == /\ snap = NoFile /\ phase = "down"
              /\ wal = <<>> /\ synced = 0 /\ past = <<EmptyMap>>

\* The snapshot is one that a sound store wrote.
SnapshotOK ==
  /\ snap \in Snapshots
  /\ snap.n_vectors = Len(snap.rows)
  /\ StoreType(LoadedStore(snap.rows), Ids, Vals)
  /\ StoreSound(LoadedStore(snap.rows))

\* The history ends with the map of each length of log a crash may leave.
HistoryOK ==
  /\ Len(wal) - synced < Len(past)
  /\ \A k \in 0 .. Len(wal) - synced :
       past[Len(past) - k] = FilesMap(snap.rows, wal, Len(wal) - k)

\* The store is as far along the log as the process is.
StoreFollowsLog ==
  /\ phase \in {"open", "flush", "close"} => StoreMap = FilesMap(snap.rows, wal, Len(wal))
  /\ phase = "apply" => /\ Len(wal) > 0
                        /\ StoreMap = FilesMap(snap.rows, wal, Len(wal) - 1)
                        /\ policy = "always" => synced = Len(wal)
  /\ phase = "replay" => /\ cursor \in 1 .. Len(wal) + 1
                         /\ StoreMap = FilesMap(snap.rows, wal, cursor - 1)
  /\ phase \in {"flush", "close"} => /\ synced = Len(wal)
                                     /\ RowsMap(snap.rows, Ids, Absent) = StoreMap

\* A load has failed only if some index call has.
FailureIsFault == phase = "failed" => faults > 0

DurableInv ==
  /\ FilesTyped
  /\ phase # "down" => EngineInv
  /\ FailureIsFault
  /\ NothingYet \/ (SnapshotOK /\ HistoryOK /\ StoreFollowsLog)

-----------------------------------------------------------------------------
(***************************************************************************)
(* The files' map, record by record: with no record it is the snapshot's,  *)
(* and one more record changes it as the write does.                       *)
(***************************************************************************)
LEMMA FilesMapSteps ==
  ASSUME NEW rows, NEW log
  PROVE  /\ FilesMap(rows, log, 0) = RowsMap(rows, Ids, Absent)
         /\ \A n \in Nat : FilesMap(rows, log, n + 1)
                             = After(FilesMap(rows, log, n), log[n + 1])
<1>1. FilesMap(rows, log, 0) = RowsMap(rows, Ids, Absent)
  BY DEF FilesMap, RowsMap
<1>2. ASSUME NEW n \in Nat
      PROVE  FilesMap(rows, log, n + 1) = After(FilesMap(rows, log, n), log[n + 1])
  <2>1. ASSUME NEW x \in Ids, x = log[n + 1].id
        PROVE  FilesMap(rows, log, n + 1)[x] = Written(log[n + 1])
    <3>1. LastWrite(log, n + 1, x) = n + 1
      BY <2>1 DEF LastWrite
    <3> QED
      BY <3>1, <2>1 DEF FilesMap
  <2>2. ASSUME NEW x \in Ids, x # log[n + 1].id
        PROVE  FilesMap(rows, log, n + 1)[x] = FilesMap(rows, log, n)[x]
    <3> DEFINE P(m, i) == i \in 1 .. m /\ log[i].id = x
                            /\ \A j \in 1 .. m : log[j].id = x => j <= i
    <3>1. \A i : P(n + 1, i) <=> P(n, i)
      BY <2>2
    <3>2. (CHOOSE i : P(n + 1, i)) = (CHOOSE i : P(n, i))
      BY <3>1
    <3>3. LastWrite(log, n + 1, x) = LastWrite(log, n, x)
      BY <3>2 DEF LastWrite
    <3>4. (\E i \in 1 .. n + 1 : log[i].id = x) <=> (\E i \in 1 .. n : log[i].id = x)
      BY <2>2
    <3> QED
      BY <3>3, <3>4 DEF FilesMap
  <2>3. DOMAIN FilesMap(rows, log, n) = Ids /\ DOMAIN FilesMap(rows, log, n + 1) = Ids
    BY DEF FilesMap
  <2>4. FilesMap(rows, log, n + 1) = [x \in Ids |-> FilesMap(rows, log, n + 1)[x]]
    BY DEF FilesMap
  <2>5. After(FilesMap(rows, log, n), log[n + 1])
          = [x \in Ids |-> IF x = log[n + 1].id THEN Written(log[n + 1])
                                                ELSE FilesMap(rows, log, n)[x]]
    BY <2>3 DEF After
  <2> QED
    BY <2>1, <2>2, <2>4, <2>5
<1> QED
  BY <1>1, <1>2

(***************************************************************************)
(* A non-empty set of natural numbers has a least element.                 *)
(***************************************************************************)
LEMMA LeastNat ==
  ASSUME NEW T, T \subseteq Nat, T # {}
  PROVE  \E x \in T : \A y \in T : ~(y < x)
<1> DEFINE R == {ss \in Nat \X Nat : ss[1] < ss[2]}
<1>1. IsWellFoundedOn(R, Nat)
  BY NatLessThanWellFounded DEF OpToRel
<1> HIDE DEF R
<1>2. \E x \in T : \A y \in T : ~(<<y, x>> \in R)
  BY <1>1, WFMin
<1> QED
  BY <1>2 DEF R

(***************************************************************************)
(* An id with a record in the log has a last one.                          *)
(***************************************************************************)
LEMMA LastWriteExists ==
  ASSUME NEW log, NEW n \in Nat, NEW x, \E i \in 1 .. n : log[i].id = x
  PROVE  LastWrite(log, n, x) \in 1 .. n
<1> DEFINE T == {k \in 0 .. n - 1 : log[n - k].id = x}
<1>1. T \subseteq Nat
  OBVIOUS
<1>2. T # {}
  <2>1. PICK i \in 1 .. n : log[i].id = x
    OBVIOUS
  <2>2. n - i \in 0 .. n - 1 /\ n - (n - i) = i
    OBVIOUS
  <2> QED
    BY <2>1, <2>2
<1>3. PICK k \in T : \A l \in T : ~(l < k)
  BY <1>1, <1>2, LeastNat
<1>4. n - k \in 1 .. n /\ log[n - k].id = x
  OBVIOUS
<1>5. ASSUME NEW j \in 1 .. n, log[j].id = x PROVE j <= n - k
  <2>1. n - j \in 0 .. n - 1 /\ n - (n - j) = j
    OBVIOUS
  <2>2. n - j \in T
    BY <2>1, <1>5
  <2>3. ~(n - j < k)
    BY <2>2, <1>3
  <2> QED
    BY <2>3
<1>6. \E i \in 1 .. n : log[i].id = x /\ \A j \in 1 .. n : log[j].id = x => j <= i
  BY <1>4, <1>5
<1> QED
  BY <1>6 DEF LastWrite

(***************************************************************************)
(* The map of a prefix of the log reads that prefix alone.                 *)
(***************************************************************************)
LEMMA FilesMapPrefix ==
  ASSUME NEW rows, NEW log, NEW other, NEW n \in Nat,
         \A i \in 1 .. n : other[i] = log[i]
  PROVE  FilesMap(rows, other, n) = FilesMap(rows, log, n)
<1> SUFFICES ASSUME NEW x \in Ids
             PROVE  FilesMap(rows, other, n)[x] = FilesMap(rows, log, n)[x]
  BY DEF FilesMap
<1> DEFINE P(l, i) == i \in 1 .. n /\ l[i].id = x
                        /\ \A j \in 1 .. n : l[j].id = x => j <= i
<1>1. \A i : P(other, i) <=> P(log, i)
  OBVIOUS
<1>2. (CHOOSE i : P(other, i)) = (CHOOSE i : P(log, i))
  BY <1>1
<1>3. LastWrite(other, n, x) = LastWrite(log, n, x)
  BY <1>2 DEF LastWrite
<1>4. ASSUME NEW i \in 1 .. n, log[i].id = x
      PROVE  other[LastWrite(log, n, x)] = log[LastWrite(log, n, x)]
  <2>1. LastWrite(log, n, x) \in 1 .. n
    BY <1>4, LastWriteExists
  <2> QED
    BY <2>1
<1>5. (\E i \in 1 .. n : other[i].id = x) <=> (\E i \in 1 .. n : log[i].id = x)
  OBVIOUS
<1> QED
  BY <1>3, <1>4, <1>5 DEF FilesMap

(***************************************************************************)
(* Replaying a log on a snapshot that already holds its writes, as an open *)
(* after an interrupted checkpoint does, gives the same map again.         *)
(***************************************************************************)
LEMMA ReplayIsIdempotent ==
  ASSUME NEW rows, NEW new, NEW log, NEW n \in Nat,
         RowsMap(new, Ids, Absent) = FilesMap(rows, log, n)
  PROVE  FilesMap(new, log, n) = FilesMap(rows, log, n)
BY DEF FilesMap

(***************************************************************************)
(* The map of a sound store is a map from ids.                             *)
(***************************************************************************)
LEMMA StoreMapTyped ==
  ASSUME StoreOK
  PROVE  StoreMap \in Maps
BY StoreMapLookup DEF Maps

(***************************************************************************)
(* A write applied to the engine, by a call or by the replay of the log:   *)
(* the engine stays in step, the map is the map after the write, a failed  *)
(* index call included, and an error means that an index call failed.      *)
(***************************************************************************)
LEMMA ApplyKeepsStep ==
  ASSUME EngineInv, NEW w \in Writes, Apply(w)
  PROVE  /\ EngineInv'
         /\ StoreMap' = After(StoreMap, w)
         /\ ret'.op = "error" => faults' > 0
<1>1. /\ w.op \in {"upsert", "delete"} /\ w.id \in Ids
      /\ w.op = "upsert" => w.val \in Vals
  BY DEF Writes
<1>2. CoreNext
  BY <1>1 DEF Apply, CoreNext
<1>3. EngineInv'
  BY <1>2, EngineKeepsInv
<1>4. StoreOK /\ faults \in 0 .. MaxFaults
  BY EngineInvParts
<1>5. CASE w.op = "upsert"
  <2>1. Insert(w.id, w.val)
    BY <1>5 DEF Apply
  <2>2. store' = StoreUpsert(store, w.id, w.val)
    BY <2>1 DEF Insert, InsertStoreStep
  <2>3. StoreMap' = RowsMap(StoreUpsert(store, w.id, w.val).rows, Ids, Absent)
    BY <2>2 DEF StoreMap
  <2>4. StoreMap' = [StoreMap EXCEPT ![w.id] = w.val]
    BY <2>3, <1>1, <1>4, <1>5, WritesToMap
  <2>5. ret'.op = "error" => faults' > 0
    BY <2>1, <1>4, CoreAssumption DEF Insert, Outcome
  <2> QED
    BY <2>4, <2>5, <1>3, <1>5 DEF After, Written
<1>6. CASE w.op = "delete"
  <2>1. Delete(w.id)
    BY <1>6 DEF Apply
  <2>2. store' = StoreRemove(store, w.id)
    BY <2>1 DEF Delete, DeleteStoreStep
  <2>3. StoreMap' = RowsMap(StoreRemove(store, w.id).rows, Ids, Absent)
    BY <2>2 DEF StoreMap
  <2>4. StoreMap' = [StoreMap EXCEPT ![w.id] = Absent]
    BY <2>3, <1>1, <1>4, WritesToMap
  <2>5. ret'.op = "error" => faults' > 0
    BY <2>1, <1>4, CoreAssumption DEF Delete, Outcome
  <2> QED
    BY <2>4, <2>5, <1>3, <1>6 DEF After, Written
<1> QED
  BY <1>1, <1>5, <1>6

(***************************************************************************)
(* The parts about the files read the files alone.                         *)
(***************************************************************************)
LEMMA FilesStutter ==
  ASSUME UNCHANGED <<fileVars, past>>
  PROVE  (SnapshotOK' <=> SnapshotOK) /\ (HistoryOK' <=> HistoryOK)
BY DEF fileVars, SnapshotOK, HistoryOK

(***************************************************************************)
(* The latest map of the history is the one the whole log leads to.        *)
(***************************************************************************)
LEMMA LatestIsWholeLog ==
  ASSUME FilesTyped, HistoryOK
  PROVE  Latest = FilesMap(snap.rows, wal, Len(wal))
<1>1. /\ Len(wal) \in Nat /\ Len(past) \in Nat
      /\ 0 \in 0 .. Len(wal) - synced
  BY DEF FilesTyped
<1>2. past[Len(past) - 0] = FilesMap(snap.rows, wal, Len(wal) - 0)
  BY <1>1 DEF HistoryOK
<1>3. Len(past) - 0 = Len(past) /\ Len(wal) - 0 = Len(wal)
  BY <1>1
<1> QED
  BY <1>2, <1>3 DEF Latest

(***************************************************************************)
(* A process that ends with the files as they are keeps the invariant.     *)
(***************************************************************************)
LEMMA EndKeepsFiles ==
  ASSUME DurableInv, phase # "down", phase' = "down",
         UNCHANGED <<fileVars, past, kind, faults>>
  PROVE  DurableInv'
<1>1. SnapshotOK' /\ HistoryOK'
  BY FilesStutter DEF DurableInv, NothingYet
<1>2. FilesTyped'
  BY DEF DurableInv, FilesTyped, fileVars, Phases
<1> QED
  BY <1>1, <1>2 DEF DurableInv, FailureIsFault, StoreFollowsLog

-----------------------------------------------------------------------------
(***************************************************************************)
(* A first open creates an empty database.                                 *)
(***************************************************************************)
LEMMA CreateStep ==
  ASSUME DurableInv, NEW cfg \in BOOLEAN, Create(cfg)
  PROVE  DurableInv'
<1>1. /\ FilesTyped /\ phase = "down" /\ snap = NoFile /\ NothingYet
  BY DurableAssumption DEF Create, DurableInv, SnapshotOK
<1>2. LoadedStore(<<>>) = EmptyStore
  BY EmptyStoreSound, LoadedIsSaved DEF EmptyStore
<1>3. /\ StoreType(LoadedStore(<<>>), Ids, Vals) /\ StoreSound(LoadedStore(<<>>))
  BY <1>2, EmptyStoreSound
<1>4. EngineInv'
  <2>1. LoadFrom(kind, <<>>, cfg) /\ kind \in Kinds /\ faults' \in 0 .. MaxFaults
    BY <1>1 DEF Create, FilesTyped
  <2> QED
    BY <2>1, <1>3, LoadInStep, EngineInvNext
<1>5. snap' = [kind |-> kind, rows |-> <<>>, n_vectors |-> 0]
  BY DEF Create, SnapshotOf, LenOf, StoreLen, EmptyStore
<1>6. SnapshotOK'
  <2>1. kind \in Kinds /\ <<>> \in Seq([id : Ids, val : Vals])
    BY <1>1 DEF FilesTyped
  <2> QED
    BY <1>3, <1>5, <2>1 DEF SnapshotOK, Snapshots
<1>7. /\ wal' = <<>> /\ synced' = 0 /\ past' = <<EmptyMap>> /\ phase' = "open"
      /\ kind' = kind /\ faults' = faults
  BY <1>1 DEF Create, NothingYet, LoadFrom
<1>8. FilesTyped'
  <2>1. EmptyMap \in Maps
    BY DEF EmptyMap, Maps
  <2>2. <<EmptyMap>> \in Seq(Maps) /\ Len(<<EmptyMap>>) = 1
    BY <2>1
  <2> QED
    BY <2>2, <1>1, <1>7 DEF FilesTyped, Phases
<1>9. RowsMap(<<>>, Ids, Absent) = EmptyMap
  BY DEF RowsMap, EmptyMap
<1>10. FilesMap(snap'.rows, wal', 0) = EmptyMap
  BY <1>5, <1>9, FilesMapSteps
<1>11. StoreMap' = EmptyMap
  BY <1>9, <1>2 DEF StoreMap, Create, LoadFrom, EmptyStore
<1>12. HistoryOK'
  BY <1>7, <1>10 DEF HistoryOK
<1>13. StoreFollowsLog'
  BY <1>7, <1>10, <1>11 DEF StoreFollowsLog
<1> QED
  BY <1>4, <1>6, <1>7, <1>8, <1>12, <1>13 DEF DurableInv, FailureIsFault

(***************************************************************************)
(* A load reads the snapshot; it fails only if an index call does, since   *)
(* the header counts the rows.                                             *)
(***************************************************************************)
LEMMA LoadStep ==
  ASSUME DurableInv, NEW p \in Policies, Load(p)
  PROVE  DurableInv'
<1>1. FilesTyped /\ SnapshotOK /\ HistoryOK /\ UNCHANGED <<fileVars, past>>
  BY DEF Load, DurableInv, NothingYet
<1>2. PICK ok \in BOOLEAN :
        /\ Outcome(ok)
        /\ phase' = IF ok /\ LenOf(store', index') = snap.n_vectors
                    THEN "replay" ELSE "failed"
  BY DEF Load
<1>3. store' = LoadedStore(snap.rows) /\ store'.rows = snap.rows
  BY DEF Load, LoadFrom, LoadedStore
<1>4. LenOf(store', index') = snap.n_vectors
  BY <1>1, <1>3 DEF LenOf, StoreLen, SnapshotOK
<1>5. /\ faults' \in 0 .. MaxFaults
      /\ phase' = "failed" => faults' > 0
      /\ phase' \in {"replay", "failed"}
  BY <1>1, <1>2, <1>4, CoreAssumption DEF Outcome, FilesTyped
<1>6. EngineInv'
  <2>1. snap.kind \in Kinds /\ LoadFrom(snap.kind, snap.rows, FALSE)
    BY <1>1 DEF Load, SnapshotOK, Snapshots
  <2> QED
    BY <2>1, <1>1, <1>5, LoadInStep, EngineInvNext DEF SnapshotOK
<1>7. FilesTyped'
  <2>1. kind' \in Kinds
    BY <1>6, EngineInvParts DEF EngineInv, CoreTypeOK
  <2> QED
    BY <2>1, <1>1, <1>5 DEF FilesTyped, fileVars, Phases
<1>8. SnapshotOK' /\ HistoryOK'
  BY <1>1, FilesStutter
<1>9. StoreFollowsLog'
  <2>1. cursor' = 1 /\ Len(wal') \in Nat
    BY <1>7 DEF Load, FilesTyped
  <2>2. StoreMap' = FilesMap(snap'.rows, wal', 0)
    BY <1>1, <1>3, FilesMapSteps DEF StoreMap, fileVars
  <2> QED
    BY <2>1, <2>2, <1>5 DEF StoreFollowsLog
<1> QED
  BY <1>5, <1>6, <1>7, <1>8, <1>9 DEF DurableInv, FailureIsFault

(***************************************************************************)
(* A replayed record takes the store one record further along the log.     *)
(***************************************************************************)
LEMMA ReplayStep ==
  ASSUME DurableInv, Replay
  PROVE  DurableInv'
<1>1. /\ FilesTyped /\ SnapshotOK /\ HistoryOK /\ StoreFollowsLog /\ EngineInv
      /\ UNCHANGED <<fileVars, past>>
      /\ phase = "replay" /\ cursor <= Len(wal) /\ cursor' = cursor + 1
      /\ phase' = IF ret'.op = "error" THEN "failed" ELSE "replay"
  BY DEF Replay, DurableInv, NothingYet
<1>2. /\ cursor \in 1 .. Len(wal) /\ Len(wal) \in Nat
      /\ StoreMap = FilesMap(snap.rows, wal, cursor - 1)
  BY <1>1 DEF StoreFollowsLog, FilesTyped
<1>3. wal[cursor] \in Writes /\ Apply(wal[cursor])
  BY <1>1, <1>2 DEF FilesTyped, Replay
<1>4. /\ EngineInv'
      /\ StoreMap' = After(StoreMap, wal[cursor])
      /\ ret'.op = "error" => faults' > 0
  BY <1>1, <1>3, ApplyKeepsStep
<1>5. FilesTyped'
  <2>1. kind' \in Kinds /\ faults' \in 0 .. MaxFaults
    BY <1>4 DEF EngineInv, CoreTypeOK
  <2> QED
    BY <2>1, <1>1 DEF FilesTyped, fileVars, Phases
<1>6. StoreMap' = FilesMap(snap.rows, wal, cursor)
  <2>1. cursor - 1 \in Nat /\ (cursor - 1) + 1 = cursor
    BY <1>2
  <2>2. FilesMap(snap.rows, wal, (cursor - 1) + 1)
          = After(FilesMap(snap.rows, wal, cursor - 1), wal[(cursor - 1) + 1])
    BY <2>1, FilesMapSteps
  <2> QED
    BY <2>1, <2>2, <1>2, <1>4
<1>7. StoreFollowsLog'
  BY <1>1, <1>2, <1>6 DEF StoreFollowsLog, fileVars
<1>8. SnapshotOK' /\ HistoryOK'
  BY <1>1, FilesStutter
<1> QED
  BY <1>1, <1>4, <1>5, <1>7, <1>8 DEF DurableInv, FailureIsFault

(***************************************************************************)
(* The handle that an open returns serves the map the files denote.        *)
(***************************************************************************)
LEMMA FinishStep ==
  ASSUME DurableInv, NEW cfg \in BOOLEAN, FinishOpen(cfg)
  PROVE  DurableInv'
<1>1. /\ FilesTyped /\ SnapshotOK /\ HistoryOK /\ StoreFollowsLog /\ EngineInv
      /\ UNCHANGED <<fileVars, past>>
      /\ phase = "replay" /\ cursor > Len(wal) /\ phase' = "open"
      /\ cache_cfg' = cfg /\ cache' = Wrap(cfg)
      /\ UNCHANGED <<kind, store, index, ivf_dirty, diverged, faults>>
  BY DEF FinishOpen, Replayed, SetCache, DurableInv, NothingYet
<1>2. EngineInv'
  <2>1. /\ kind \in Kinds /\ diverged \subseteq Ids /\ faults \in 0 .. MaxFaults
        /\ StoreOK /\ IndexOK(kind, store, index, ivf_dirty, diverged)
    BY <1>1, EngineInvParts
  <2>2. StoreOK' /\ CacheOK(cache', cache_cfg', index'.entries)
    BY <1>1, <2>1, FreshCacheOK DEF StoreOK
  <2> QED
    BY <1>1, <2>1, <2>2, EngineInvNext
<1>3. cursor - 1 = Len(wal)
  BY <1>1 DEF StoreFollowsLog, FilesTyped
<1>4. StoreMap' = FilesMap(snap.rows, wal, Len(wal))
  BY <1>1, <1>3 DEF StoreFollowsLog, StoreMap
<1>5. StoreFollowsLog'
  BY <1>1, <1>4 DEF StoreFollowsLog, fileVars
<1>6. FilesTyped'
  BY <1>1 DEF FilesTyped, fileVars, Phases
<1>7. SnapshotOK' /\ HistoryOK'
  BY <1>1, FilesStutter
<1> QED
  BY <1>1, <1>2, <1>5, <1>6, <1>7 DEF DurableInv, FailureIsFault

-----------------------------------------------------------------------------
(***************************************************************************)
(* A record appended to the log adds its map to the history, and leaves    *)
(* the store one record behind the log.                                    *)
(***************************************************************************)
LEMMA LogKeepsFiles ==
  ASSUME FilesTyped, SnapshotOK, HistoryOK, StoreOK,
         StoreMap = FilesMap(snap.rows, wal, Len(wal)),
         NEW w \in Writes, LogRecord(w), phase' \in Phases, UNCHANGED <<kind, faults>>
  PROVE  /\ FilesTyped' /\ SnapshotOK' /\ HistoryOK'
         /\ Len(wal') > 0 /\ wal'[Len(wal')] = w
         /\ FilesMap(snap'.rows, wal', Len(wal') - 1) = StoreMap
         /\ policy = "always" => synced' = Len(wal')
<1> DEFINE L == Len(wal)
           P == Len(past)
<1>1. /\ wal' = Append(wal, w) /\ past' = Append(past, After(StoreMap, w))
      /\ synced' = IF policy = "always" THEN L + 1 ELSE synced
      /\ snap' = snap
  BY DEF LogRecord
<1>2. /\ wal \in Seq(Writes) /\ L \in Nat /\ synced \in 0 .. L
      /\ past \in Seq(Maps) /\ P \in Nat /\ P > 0
  BY DEF FilesTyped
<1>3. StoreMap = FilesMap(snap.rows, wal, L)
  OBVIOUS
<1>4. After(StoreMap, w) \in Maps
  <2>1. StoreMap \in Maps
    BY StoreMapTyped
  <2> QED
    BY <2>1 DEF Maps, After, Written, Writes
<1>5. /\ wal' \in Seq(Writes) /\ Len(wal') = L + 1
      /\ \A i \in 1 .. L : wal'[i] = wal[i]
      /\ wal'[L + 1] = w
  BY <1>1, <1>2, AppendProperties
<1>6. /\ past' \in Seq(Maps) /\ Len(past') = P + 1
      /\ \A i \in 1 .. P : past'[i] = past[i]
      /\ past'[P + 1] = After(StoreMap, w)
  BY <1>1, <1>2, <1>4, AppendProperties
<1>7. ASSUME NEW n \in 0 .. L
      PROVE  FilesMap(snap.rows, wal', n) = FilesMap(snap.rows, wal, n)
  <2>1. \A i \in 1 .. n : wal'[i] = wal[i]
    BY <1>5, <1>2
  <2> QED
    BY <2>1, FilesMapPrefix
<1>8. FilesMap(snap.rows, wal', L + 1) = After(StoreMap, w)
  <2>1. FilesMap(snap.rows, wal', L + 1)
          = After(FilesMap(snap.rows, wal', L), wal'[L + 1])
    BY <1>2, FilesMapSteps
  <2>2. FilesMap(snap.rows, wal', L) = StoreMap
    BY <1>2, <1>3, <1>7
  <2> QED
    BY <2>1, <2>2, <1>5
<1> HIDE DEF L, P
<1>9. FilesTyped'
  BY <1>1, <1>2, <1>5, <1>6 DEF FilesTyped
<1>10. HistoryOK'
  <2>1. L - synced < P
        /\ \A k \in 0 .. L - synced : past[P - k] = FilesMap(snap.rows, wal, L - k)
    BY DEF HistoryOK, L, P
  <2>2. Len(wal') - synced' < Len(past')
    BY <2>1, <1>1, <1>2, <1>5, <1>6
  <2>3. ASSUME NEW k \in 0 .. Len(wal') - synced'
        PROVE  past'[Len(past') - k] = FilesMap(snap'.rows, wal', Len(wal') - k)
    <3>1. CASE k = 0
      <4>1. Len(past') - k = P + 1 /\ Len(wal') - k = L + 1
        BY <3>1, <1>2, <1>5, <1>6
      <4> QED
        BY <4>1, <1>1, <1>6, <1>8
    <3>2. CASE k # 0
      <4>1. policy # "always" /\ synced' = synced /\ k - 1 \in 0 .. L - synced
        BY <3>2, <1>1, <1>2, <1>5
      <4>2. /\ Len(past') - k = P - (k - 1) /\ P - (k - 1) \in 1 .. P
            /\ Len(wal') - k = L - (k - 1) /\ L - (k - 1) \in 0 .. L
        <5>1. /\ L \in Nat /\ P \in Nat /\ synced \in 0 .. L /\ L - synced < P
              /\ k - 1 \in 0 .. L - synced /\ k \in Int
              /\ Len(past') = P + 1 /\ Len(wal') = L + 1
          BY <4>1, <2>1, <1>2, <1>5, <1>6
        <5> QED
          BY <5>1
      <4>3. past'[P - (k - 1)] = FilesMap(snap.rows, wal, L - (k - 1))
        BY <4>1, <4>2, <2>1, <1>6
      <4> QED
        BY <4>2, <4>3, <1>1, <1>7
    <3> QED
      BY <3>1, <3>2
  <2> QED
    BY <2>2, <2>3 DEF HistoryOK
<1>11. FilesMap(snap'.rows, wal', Len(wal') - 1) = StoreMap
  <2>1. Len(wal') - 1 = L /\ L \in 0 .. L
    BY <1>2, <1>5
  <2> QED
    BY <2>1, <1>1, <1>3, <1>7 DEF L
<1>12. SnapshotOK'
  BY <1>1 DEF SnapshotOK
<1> QED
  BY <1>1, <1>2, <1>5, <1>9, <1>10, <1>11, <1>12

(***************************************************************************)
(* A logged write keeps the invariant.                                     *)
(***************************************************************************)
LEMMA LogStep ==
  ASSUME DurableInv, NEW w \in Writes, LogWrite(w)
  PROVE  DurableInv'
<1>1. /\ FilesTyped /\ SnapshotOK /\ HistoryOK /\ StoreFollowsLog /\ EngineInv
      /\ phase = "open" /\ phase' = "apply" /\ policy' = policy
      /\ LogRecord(w) /\ UNCHANGED <<engineVars, faults, kind, store>>
  BY DEF LogWrite, DurableInv, NothingYet, coreVars, engineVars
<1>2. /\ StoreMap' = StoreMap /\ StoreMap = FilesMap(snap.rows, wal, Len(wal))
      /\ StoreOK
  BY <1>1, EngineInvParts DEF StoreMap, StoreFollowsLog
<1>3. /\ FilesTyped' /\ SnapshotOK' /\ HistoryOK'
      /\ Len(wal') > 0
      /\ FilesMap(snap'.rows, wal', Len(wal') - 1) = StoreMap
      /\ policy = "always" => synced' = Len(wal')
  BY <1>1, <1>2, LogKeepsFiles DEF Phases
<1>4. StoreFollowsLog'
  BY <1>1, <1>2, <1>3 DEF StoreFollowsLog
<1>5. EngineInv'
  BY <1>1 DEF engineVars, EngineInv, CoreTypeOK, IndexInStep, CacheNeverStale
<1> QED
  BY <1>1, <1>3, <1>4, <1>5 DEF DurableInv, FailureIsFault

(***************************************************************************)
(* Where the whole log is on stable storage, no map but the latest can     *)
(* come back.                                                              *)
(***************************************************************************)
LEMMA PromiseKeepsFiles ==
  ASSUME FilesTyped, HistoryOK, synced = Len(wal),
         past' = Promised, UNCHANGED <<snap, wal, synced>>,
         phase' \in Phases, kind' \in Kinds, faults' \in 0 .. MaxFaults
  PROVE  FilesTyped' /\ HistoryOK'
<1>1. /\ wal \in Seq(Writes) /\ Len(wal) \in Nat /\ synced \in 0 .. Len(wal)
      /\ past \in Seq(Maps) /\ Len(past) \in Nat /\ Len(past) > 0
      /\ past' = <<past[Len(past)]>>
  BY DEF FilesTyped, Promised, Latest
<1>2. past[Len(past)] \in Maps
  BY <1>1
<1>3. past' \in Seq(Maps) /\ Len(past') = 1 /\ past'[1] = past[Len(past)]
  BY <1>1, <1>2
<1>4. past'[1] = FilesMap(snap.rows, wal, Len(wal))
  BY <1>3, LatestIsWholeLog DEF Latest
<1>5. \A k \in 0 .. Len(wal') - synced' :
        k = 0 /\ Len(past') - k = 1 /\ Len(wal') - k = Len(wal)
  BY <1>1, <1>3
<1>6. Len(wal') - synced' < Len(past')
  BY <1>1, <1>3
<1>7. HistoryOK'
  BY <1>3, <1>4, <1>5, <1>6 DEF HistoryOK
<1> QED
  BY <1>1, <1>3, <1>7 DEF FilesTyped

(***************************************************************************)
(* The write is applied: the store is at the end of the log again, and     *)
(* under the policy Always only the latest map is left in the history.     *)
(***************************************************************************)
LEMMA ApplyStep ==
  ASSUME DurableInv, ApplyWrite
  PROVE  DurableInv'
<1> DEFINE L == Len(wal)
<1>1. /\ FilesTyped /\ SnapshotOK /\ HistoryOK /\ StoreFollowsLog /\ EngineInv
      /\ phase = "apply" /\ phase' = "open"
      /\ Apply(wal[L])
      /\ UNCHANGED <<snap, wal, synced>>
      /\ past' = IF policy = "always" /\ ret'.op # "error" THEN <<past[Len(past)]>> ELSE past
  BY DEF ApplyWrite, DurableInv, NothingYet, fileVars, Promised, Latest
<1>2. /\ wal \in Seq(Writes) /\ L \in Nat /\ L > 0 /\ synced \in 0 .. L
      /\ past \in Seq(Maps) /\ Len(past) \in Nat /\ Len(past) > 0
      /\ StoreMap = FilesMap(snap.rows, wal, L - 1)
      /\ policy = "always" => synced = L
  BY <1>1 DEF FilesTyped, StoreFollowsLog
<1>3. wal[L] \in Writes
  BY <1>2
<1>4. EngineInv' /\ StoreMap' = After(StoreMap, wal[L])
  BY <1>1, <1>3, ApplyKeepsStep
<1>5. StoreMap' = FilesMap(snap.rows, wal, L)
  <2>1. L - 1 \in Nat /\ (L - 1) + 1 = L
    BY <1>2
  <2>2. FilesMap(snap.rows, wal, (L - 1) + 1)
          = After(FilesMap(snap.rows, wal, L - 1), wal[(L - 1) + 1])
    BY <2>1, FilesMapSteps
  <2> QED
    BY <2>1, <2>2, <1>2, <1>4
<1>6. FilesTyped' /\ HistoryOK'
  <2>1. phase' \in Phases /\ kind' \in Kinds /\ faults' \in 0 .. MaxFaults
    BY <1>1, <1>4 DEF EngineInv, CoreTypeOK, Phases
  <2>2. CASE past' = past
    BY <2>1, <2>2, <1>1, <1>2 DEF FilesTyped, HistoryOK
  <2>3. CASE policy = "always" /\ past' = Promised
    BY <2>1, <2>3, <1>1, <1>2, PromiseKeepsFiles
  <2> QED
    BY <2>2, <2>3, <1>1 DEF Promised, Latest
<1>7. SnapshotOK' /\ StoreFollowsLog'
  BY <1>1, <1>5 DEF SnapshotOK, StoreFollowsLog
<1> QED
  BY <1>1, <1>4, <1>6, <1>7 DEF DurableInv, FailureIsFault

-----------------------------------------------------------------------------
(***************************************************************************)
(* A checkpoint's first half: the new snapshot holds what the whole log    *)
(* leads to, so log and snapshot together still denote the same map.       *)
(***************************************************************************)
LEMMA SnapshotKeepsFiles ==
  ASSUME FilesTyped, HistoryOK, StoreOK,
         StoreMap = FilesMap(snap.rows, wal, Len(wal)),
         WriteSnapshot, phase' \in Phases, UNCHANGED <<kind, faults>>
  PROVE  /\ FilesTyped' /\ SnapshotOK' /\ HistoryOK'
         /\ wal' = wal /\ synced' = Len(wal')
         /\ RowsMap(snap'.rows, Ids, Absent) = StoreMap
         /\ FilesMap(snap'.rows, wal', Len(wal')) = StoreMap
<1> DEFINE L == Len(wal)
<1>1. /\ snap' = [kind |-> kind, rows |-> store.rows, n_vectors |-> Len(store.rows)]
      /\ synced' = L /\ wal' = wal /\ past' = past
  BY DEF WriteSnapshot, SnapshotOf, LenOf, StoreLen
<1>2. /\ wal \in Seq(Writes) /\ L \in Nat
      /\ past \in Seq(Maps) /\ Len(past) \in Nat /\ Len(past) > 0
      /\ kind \in Kinds /\ StoreOK /\ StoreMap = FilesMap(snap.rows, wal, L)
  BY DEF FilesTyped
<1>3. SnapshotOK'
  <2>1. LoadedStore(store.rows) = store
    BY <1>2, LoadedIsSaved DEF StoreOK
  <2>2. store.rows \in Seq([id : Ids, val : Vals]) /\ Len(store.rows) \in Nat
    BY <1>2, LenProperties DEF StoreOK, StoreType
  <2>3. /\ snap' \in Snapshots /\ snap'.n_vectors = Len(snap'.rows)
        /\ snap'.rows = store.rows
    BY <1>1, <1>2, <2>2 DEF Snapshots
  <2> QED
    BY <2>1, <2>3, <1>2 DEF SnapshotOK, StoreOK
<1>4. /\ RowsMap(snap'.rows, Ids, Absent) = StoreMap
      /\ FilesMap(snap'.rows, wal, L) = StoreMap
  <2>1. snap'.rows = store.rows
    BY <1>1
  <2>2. RowsMap(store.rows, Ids, Absent) = FilesMap(snap.rows, wal, L)
    BY <1>2 DEF StoreMap
  <2>3. FilesMap(store.rows, wal, L) = FilesMap(snap.rows, wal, L)
    BY <2>2, <1>2, ReplayIsIdempotent
  <2> QED
    BY <2>1, <2>2, <2>3, <1>2
<1>5. HistoryOK'
  <2>1. past'[Len(past')] = FilesMap(snap'.rows, wal', L)
    BY <1>1, <1>2, <1>4, LatestIsWholeLog DEF Latest
  <2>2. \A k \in 0 .. Len(wal') - synced' :
          Len(past') - k = Len(past') /\ Len(wal') - k = L
    BY <1>1, <1>2
  <2>3. Len(wal') - synced' < Len(past')
    BY <1>1, <1>2
  <2> QED
    BY <2>1, <2>2, <2>3 DEF HistoryOK
<1>6. FilesTyped'
  BY <1>1, <1>2 DEF FilesTyped
<1> QED
  BY <1>1, <1>3, <1>4, <1>5, <1>6

(***************************************************************************)
(* The first half of a checkpoint keeps the invariant.                     *)
(***************************************************************************)
LEMMA SnapshotStep ==
  ASSUME DurableInv, NEW next \in {"flush", "close"}, ReplaceSnapshot(next)
  PROVE  DurableInv'
<1>1. /\ FilesTyped /\ SnapshotOK /\ HistoryOK /\ StoreFollowsLog /\ EngineInv
      /\ phase = "open" /\ phase' = next /\ WriteSnapshot
      /\ UNCHANGED <<engineVars, faults, kind, store>>
  BY DEF ReplaceSnapshot, DurableInv, NothingYet, coreVars, engineVars
<1>2. /\ StoreMap' = StoreMap /\ StoreMap = FilesMap(snap.rows, wal, Len(wal))
      /\ StoreOK
  BY <1>1, EngineInvParts DEF StoreMap, StoreFollowsLog
<1>3. /\ FilesTyped' /\ SnapshotOK' /\ HistoryOK'
      /\ synced' = Len(wal')
      /\ RowsMap(snap'.rows, Ids, Absent) = StoreMap
      /\ FilesMap(snap'.rows, wal', Len(wal')) = StoreMap
  BY <1>1, <1>2, SnapshotKeepsFiles DEF Phases
<1>4. StoreFollowsLog'
  BY <1>1, <1>2, <1>3 DEF StoreFollowsLog
<1>5. EngineInv'
  BY <1>1 DEF engineVars, EngineInv, CoreTypeOK, IndexInStep, CacheNeverStale
<1> QED
  BY <1>1, <1>3, <1>4, <1>5 DEF DurableInv, FailureIsFault

(***************************************************************************)
(* A checkpoint's second half: the log goes, the snapshot alone denotes    *)
(* the map, and only the latest map is left in the history.                *)
(***************************************************************************)
LEMMA ResetKeepsFiles ==
  ASSUME FilesTyped, SnapshotOK, HistoryOK,
         Latest = RowsMap(snap.rows, Ids, Absent),
         EmptyLog, phase' \in Phases, UNCHANGED <<kind, faults>>
  PROVE  /\ FilesTyped' /\ SnapshotOK' /\ HistoryOK'
         /\ past' = <<Latest>> /\ Len(wal') = 0 /\ synced' = 0
         /\ FilesMap(snap'.rows, wal', Len(wal')) = Latest
         /\ RowsMap(snap'.rows, Ids, Absent) = Latest
<1>1. /\ wal' = <<>> /\ synced' = 0 /\ past' = <<Latest>> /\ snap' = snap
  BY DEF EmptyLog, Promised
<1>2. /\ wal' \in Seq(Writes) /\ Len(wal') = 0
      /\ past \in Seq(Maps) /\ Len(past) \in Nat /\ Len(past) > 0
      /\ kind \in Kinds /\ faults \in 0 .. MaxFaults
  BY <1>1 DEF FilesTyped
<1>3. Latest \in Maps
  BY <1>2 DEF Latest
<1>4. past' \in Seq(Maps) /\ Len(past') = 1 /\ past'[1] = Latest
  BY <1>1, <1>3
<1>5. FilesMap(snap'.rows, wal', 0) = Latest
  BY <1>1, FilesMapSteps
<1>6. HistoryOK'
  <2>1. \A k \in 0 .. Len(wal') - synced' : Len(past') - k = 1 /\ Len(wal') - k = 0
    BY <1>1, <1>2, <1>4
  <2>2. Len(wal') - synced' < Len(past')
    BY <1>1, <1>2, <1>4
  <2> QED
    BY <2>1, <2>2, <1>4, <1>5 DEF HistoryOK
<1>7. SnapshotOK'
  BY <1>1 DEF SnapshotOK
<1>8. FilesTyped'
  BY <1>1, <1>2, <1>4 DEF FilesTyped
<1> QED
  BY <1>1, <1>2, <1>5, <1>6, <1>7, <1>8

(***************************************************************************)
(* The second half of a checkpoint keeps the invariant.                    *)
(***************************************************************************)
LEMMA ResetStep ==
  ASSUME DurableInv, ResetLog
  PROVE  DurableInv'
<1>1. /\ FilesTyped /\ SnapshotOK /\ HistoryOK /\ StoreFollowsLog /\ EngineInv
      /\ phase \in {"flush", "close"} /\ EmptyLog /\ Checkpointed
  BY DEF ResetLog, DurableInv, NothingYet
<1>2. Latest = StoreMap /\ Latest = RowsMap(snap.rows, Ids, Absent)
  BY <1>1, LatestIsWholeLog DEF StoreFollowsLog
<1>3. phase' \in Phases /\ UNCHANGED <<kind, faults>>
  BY <1>1 DEF Checkpointed, Phases, coreVars, engineVars
<1>4. /\ FilesTyped' /\ SnapshotOK' /\ HistoryOK'
      /\ FilesMap(snap'.rows, wal', Len(wal')) = Latest
  BY <1>1, <1>2, <1>3, ResetKeepsFiles
<1>5. CASE phase = "flush"
  <2>1. phase' = "open" /\ UNCHANGED <<engineVars, faults, kind, store>>
    BY <1>1, <1>5 DEF Checkpointed, coreVars, engineVars
  <2>2. EngineInv'
    BY <2>1, <1>1 DEF engineVars, EngineInv, CoreTypeOK, IndexInStep, CacheNeverStale
  <2>3. StoreFollowsLog'
    BY <2>1, <1>2, <1>4 DEF StoreFollowsLog, StoreMap
  <2> QED
    BY <2>1, <2>2, <2>3, <1>4 DEF DurableInv, FailureIsFault
<1>6. CASE phase = "close"
  <2>1. phase' = "down"
    BY <1>1, <1>6 DEF Checkpointed
  <2> QED
    BY <2>1, <1>4 DEF DurableInv, FailureIsFault, StoreFollowsLog
<1> QED
  BY <1>1, <1>5, <1>6

(***************************************************************************)
(* A checkpoint whose second half fails leaves a log that the snapshot     *)
(* already holds.                                                          *)
(***************************************************************************)
LEMMA ResetFailsStep ==
  ASSUME DurableInv, ResetFails
  PROVE  DurableInv'
<1>1. /\ phase \in {"flush", "close"} /\ Checkpointed
      /\ UNCHANGED <<fileVars, past>>
  BY DEF ResetFails
<1>2. CASE phase = "close"
  BY <1>1, <1>2, EndKeepsFiles DEF Checkpointed
<1>3. CASE phase = "flush"
  <2>1. /\ FilesTyped /\ SnapshotOK /\ HistoryOK /\ StoreFollowsLog /\ EngineInv
    BY <1>3 DEF DurableInv, NothingYet
  <2>2. phase' = "open" /\ UNCHANGED <<engineVars, faults, kind, store>>
    BY <1>1, <1>3 DEF Checkpointed, coreVars, engineVars
  <2>3. EngineInv'
    BY <2>1, <2>2 DEF engineVars, EngineInv, CoreTypeOK, IndexInStep, CacheNeverStale
  <2>4. SnapshotOK' /\ HistoryOK'
    BY <1>1, <2>1, FilesStutter
  <2>5. FilesTyped' /\ StoreFollowsLog'
    BY <1>1, <1>3, <2>1, <2>2
    DEF FilesTyped, Phases, StoreFollowsLog, StoreMap, fileVars
  <2> QED
    BY <2>2, <2>3, <2>4, <2>5 DEF DurableInv, FailureIsFault
<1> QED
  BY <1>1, <1>2, <1>3

(***************************************************************************)
(* Searches and rebuilds change neither the store nor a file.              *)
(***************************************************************************)
LEMMA UseStep ==
  ASSUME DurableInv, UseIndex
  PROVE  DurableInv'
<1>1. /\ FilesTyped /\ SnapshotOK /\ HistoryOK /\ StoreFollowsLog /\ EngineInv
      /\ phase = "open" /\ phase' = "open" /\ UNCHANGED <<fileVars, past>>
  BY DEF UseIndex, DurableInv, NothingYet
<1>2. CoreNext /\ store' = store
  BY DEF UseIndex, CoreNext, EnsureReady, Optimize, MaterializeCall, Search
<1>3. EngineInv'
  BY <1>1, <1>2, EngineKeepsInv
<1>4. kind' \in Kinds /\ faults' \in 0 .. MaxFaults
  BY <1>3 DEF EngineInv, CoreTypeOK
<1>5. FilesTyped' /\ StoreFollowsLog'
  BY <1>1, <1>2, <1>4 DEF FilesTyped, StoreFollowsLog, StoreMap, fileVars
<1>6. SnapshotOK' /\ HistoryOK'
  BY <1>1, FilesStutter
<1> QED
  BY <1>1, <1>3, <1>5, <1>6 DEF DurableInv, FailureIsFault

(***************************************************************************)
(* A crash cuts the log, and the history with it: what is left of the log  *)
(* leads to the last map that is left.                                     *)
(***************************************************************************)
LEMMA CrashKeepsFiles ==
  ASSUME FilesTyped, SnapshotOK, HistoryOK, Crash
  PROVE  /\ FilesTyped' /\ SnapshotOK' /\ HistoryOK'
         /\ \E n \in 1 .. Len(past) : past' = SubSeq(past, 1, n)
<1> DEFINE L == Len(wal)
           P == Len(past)
<1>1. phase' = "down" /\ snap' = snap /\ kind' = kind /\ faults' = faults
  BY DEF Crash
<1>2. PICK n \in synced .. L : /\ wal' = SubSeq(wal, 1, n) /\ synced' = n
                               /\ past' = Without(L - n)
  BY DEF Crash
<1>3. /\ wal \in Seq(Writes) /\ L \in Nat /\ synced \in 0 .. L /\ n \in 0 .. L
      /\ past \in Seq(Maps) /\ P \in Nat /\ P > 0
      /\ L - n \in 0 .. L - synced /\ L - n < P
  BY DEF FilesTyped, HistoryOK
<1>4. /\ wal' \in Seq(Writes) /\ Len(wal') = n
      /\ \A i \in 1 .. n : wal'[i] = wal[i]
  BY <1>2, <1>3, SubSeqProperties
<1>5. past' = SubSeq(past, 1, P - (L - n)) /\ P - (L - n) \in 1 .. P
  BY <1>2, <1>3 DEF Without
<1>6. /\ past' \in Seq(Maps) /\ Len(past') = P - (L - n)
      /\ past'[P - (L - n)] = past[P - (L - n)]
  BY <1>3, <1>5, SubSeqProperties
<1>7. FilesTyped'
  BY <1>1, <1>2, <1>3, <1>4, <1>5, <1>6 DEF FilesTyped, Phases
<1>8. past'[Len(past')] = FilesMap(snap'.rows, wal', n)
  <2>1. past[P - (L - n)] = FilesMap(snap.rows, wal, L - (L - n))
    BY <1>3 DEF HistoryOK
  <2>2. L - (L - n) = n /\ n \in Nat
    BY <1>3
  <2>3. FilesMap(snap.rows, wal', n) = FilesMap(snap.rows, wal, n)
    BY <2>2, <1>4, FilesMapPrefix
  <2> QED
    BY <2>1, <2>2, <2>3, <1>1, <1>6
<1>9. HistoryOK'
  <2>1. \A k \in 0 .. Len(wal') - synced' :
          Len(past') - k = Len(past') /\ Len(wal') - k = n
    <3>1. Len(wal') - synced' = 0 /\ Len(wal') = n /\ n \in Int /\ Len(past') \in Int
      BY <1>2, <1>3, <1>4, <1>5, <1>6
    <3> QED
      BY <3>1
  <2>2. Len(wal') - synced' < Len(past')
    BY <1>2, <1>3, <1>4, <1>5, <1>6
  <2> QED
    BY <2>1, <2>2, <1>8 DEF HistoryOK
<1>10. SnapshotOK'
  BY <1>1 DEF SnapshotOK
<1> QED
  BY <1>5, <1>7, <1>9, <1>10

(***************************************************************************)
(* A crash keeps the invariant.                                            *)
(***************************************************************************)
LEMMA CrashStep ==
  ASSUME DurableInv, Crash
  PROVE  DurableInv'
<1>1. FilesTyped /\ SnapshotOK /\ HistoryOK /\ phase' = "down"
  BY DEF Crash, DurableInv, NothingYet
<1> QED
  BY <1>1, CrashKeepsFiles DEF DurableInv, FailureIsFault, StoreFollowsLog

-----------------------------------------------------------------------------
(***************************************************************************)
(* Before the first open there is no file, and nothing to bring back.      *)
(***************************************************************************)
LEMMA DurableInitInv ==
  ASSUME DurableInit
  PROVE  DurableInv
<1>1. EmptyMap \in Maps
  BY DEF EmptyMap, Maps
<1>2. <<EmptyMap>> \in Seq(Maps) /\ Len(<<EmptyMap>>) = 1
  BY <1>1
<1>3. FilesTyped
  BY <1>2, CoreAssumption DEF DurableInit, FilesTyped, Phases
<1> QED
  BY <1>3 DEF DurableInit, DurableInv, NothingYet, FailureIsFault

(***************************************************************************)
(* The parts together are inductive.                                       *)
(***************************************************************************)
LEMMA DurableInvariant == DurableSpec => []DurableInv
<1>1. DurableInit => DurableInv
  BY DurableInitInv
<1>2. DurableInv /\ [DurableNext]_durableVars => DurableInv'
  <2> SUFFICES ASSUME DurableInv, [DurableNext]_durableVars PROVE DurableInv'
    OBVIOUS
  <2>1. CASE RejectOpen \/ Abandon
    <3>1. /\ phase # "down" /\ phase' = "down"
          /\ UNCHANGED <<fileVars, past, kind, faults>>
      BY <2>1 DEF RejectOpen, Abandon, Replayed
    <3> QED
      BY <3>1, EndKeepsFiles
  <2>2. CASE UNCHANGED durableVars
    BY <2>2
    DEF durableVars, coreVars, engineVars, fileVars, DurableInv, FilesTyped,
        FailureIsFault, NothingYet, SnapshotOK, HistoryOK, StoreFollowsLog, StoreMap,
        EngineInv, CoreTypeOK, IndexInStep, CacheNeverStale
  <2> QED
    BY <2>1, <2>2, CreateStep, LoadStep, ReplayStep, FinishStep, LogStep, ApplyStep,
       SnapshotStep, ResetStep, ResetFailsStep, UseStep, CrashStep
    DEF DurableNext
<1> QED
  BY <1>1, <1>2, PTL DEF DurableSpec

(***************************************************************************)
(* What an open brings back is the latest map of the history: an           *)
(* acknowledged write under the policy Always, and everything before the   *)
(* latest flush or close that returned, survives any sequence of crashes,  *)
(* failed checkpoints, refused opens and repeated replays.                 *)
(***************************************************************************)
THEOREM OpenRecoversPromised == DurableSpec => []RecoversPromised
<1>1. DurableInv => RecoversPromised
  <2> SUFFICES ASSUME DurableInv, Replayed PROVE StoreMap = Latest
    BY DEF RecoversPromised
  <2>1. /\ FilesTyped /\ HistoryOK /\ StoreFollowsLog
        /\ phase = "replay" /\ cursor > Len(wal)
    BY DEF DurableInv, NothingYet, Replayed
  <2>2. cursor - 1 = Len(wal)
    BY <2>1 DEF StoreFollowsLog, FilesTyped
  <2> QED
    BY <2>1, <2>2, LatestIsWholeLog DEF StoreFollowsLog
<1> QED
  BY <1>1, DurableInvariant, PTL

(***************************************************************************)
(* While the database is open its files denote the map it serves, in the   *)
(* middle of a checkpoint too.                                             *)
(***************************************************************************)
THEOREM FilesHoldServedMap == DurableSpec => []FilesDenoteMap
<1>1. DurableInv => FilesDenoteMap
  BY DEF DurableInv, NothingYet, StoreFollowsLog, FilesDenoteMap, DiskMap
<1> QED
  BY <1>1, DurableInvariant, PTL

(***************************************************************************)
(* A load of files this program wrote fails only by an index call that     *)
(* fails in that very load: its header never disagrees with its rows, and  *)
(* what failed in earlier sessions leaves nothing behind that makes a      *)
(* later load fail.                                                        *)
(***************************************************************************)
THEOREM FilesOpen == DurableSpec => WholeFilesOpen
<1> DEFINE Fault == phase # "failed" /\ phase' = "failed" => faults' > faults
<1>1. DurableInv /\ [DurableNext]_durableVars => [Fault]_durableVars
  <2> SUFFICES ASSUME DurableInv, DurableNext, phase # "failed", phase' = "failed"
               PROVE  faults' > faults
    OBVIOUS
  <2>1. faults \in Nat
    BY CoreAssumption DEF DurableInv, FilesTyped
  <2>2. ASSUME NEW p \in Policies, Load(p) PROVE faults' > faults
    <3>1. SnapshotOK
      BY <2>2 DEF Load, DurableInv, NothingYet
    <3>2. store'.rows = snap.rows
      BY <2>2 DEF Load, LoadFrom, LoadedStore
    <3>3. LenOf(store', index') = snap.n_vectors
      BY <3>1, <3>2 DEF LenOf, StoreLen, SnapshotOK
    <3> QED
      BY <2>1, <2>2, <3>3 DEF Load, Outcome
  <2>3. CASE Replay
    <3>1. ret'.op = "error" /\ Apply(wal[cursor])
      BY <2>3 DEF Replay
    <3>2. CASE Insert(wal[cursor].id, wal[cursor].val)
      BY <2>1, <3>1, <3>2 DEF Insert, Outcome
    <3>3. CASE Delete(wal[cursor].id)
      BY <2>1, <3>1, <3>3 DEF Delete, Outcome
    <3> QED
      BY <3>1, <3>2, <3>3 DEF Apply
  <2> QED
    BY <2>2, <2>3
    DEF DurableNext, Create, FinishOpen, RejectOpen, LogWrite, ApplyWrite,
        ReplaceSnapshot, ResetLog, ResetFails, Checkpointed, UseIndex, Abandon, Crash
<1> QED
  BY <1>1, DurableInvariant, PTL DEF DurableSpec, WholeFilesOpen

(***************************************************************************)
(* At every step of a replay, and ever after, the index of a loaded        *)
(* database is in step with its store and its cache with the index.        *)
(***************************************************************************)
THEOREM LoadedStaysInStep == DurableSpec => []LoadedInStep
<1>1. DurableInv => LoadedInStep
  BY DEF DurableInv, LoadedInStep, EngineInv
<1> QED
  BY <1>1, DurableInvariant, PTL

=============================================================================
