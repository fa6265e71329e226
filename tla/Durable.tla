------------------------------ MODULE Durable ------------------------------
(***************************************************************************)
(* The file-backed database: the engine wrapped in iqdb_persist's          *)
(* PersistedIndex (Storage::Persisted in src/handle.rs), opened, written,  *)
(* flushed, closed, crashed at any step and opened again.                  *)
(*                                                                         *)
(* The files are a snapshot, replaced atomically, and a write-ahead log.   *)
(* iqdb_persist is external; what is assumed of it is what the handle and  *)
(* its tests use: a write is logged before it is applied and, under the    *)
(* policy Always, synced before it is applied; a crash keeps the synced    *)
(* part of the log and any part of the rest, a torn record being cut off   *)
(* at the next load; load reads the snapshot and replays the log through   *)
(* IndexCore::insert and delete; a checkpoint syncs the log, replaces the  *)
(* snapshot and then empties the log, and may be cut short between the two.*)
(***************************************************************************)
EXTENDS IqdbCore, FiniteSets

CONSTANTS NoFile,      \* no snapshot file at the path
          Policies,    \* fsync policies: "always", "never"
          MaxWrites,   \* bound: writes logged in a behaviour
          MaxCrashes   \* bound: crashes in a behaviour

\* A snapshot file: the header's kind and number of vectors, and the rows.
Snapshots == [kind : Kinds, rows : Seq([id : Ids, val : Vals]), n_vectors : Nat]

ASSUME DurableAssumption == /\ NoFile \notin Snapshots
                            /\ Policies \subseteq {"always", "never"}
                            /\ MaxWrites \in Nat /\ MaxCrashes \in Nat

VARIABLES snap,      \* the snapshot file: NoFile or [kind, rows, n_vectors]
          wal,       \* the log file: a sequence of writes
          synced,    \* how many of them are on stable storage
          phase,     \* what the process is doing
          policy,    \* the fsync policy it was opened with
          cursor,    \* the next record to replay while loading
          past,      \* history: the maps a crash may bring back, oldest first
          writes, crashes

fileVars == <<snap, wal, synced>>
durableVars == <<coreVars, fileVars, phase, policy, cursor, past, writes, crashes>>

Writes == [op : {"upsert"}, id : Ids, val : Vals] \cup [op : {"delete"}, id : Ids]

EmptyMap == [id \in Ids |-> Absent]

\* What a write leaves at its id, and does to the map.
Written(w) == IF w.op = "upsert" THEN w.val ELSE Absent
After(map, w) == [map EXCEPT ![w.id] = Written(w)]

(***************************************************************************)
(* The history of the maps.  A logged write adds the map it leads to; once *)
(* a write or a checkpoint is acknowledged as durable only the latest map  *)
(* may come back; a crash takes off one map for each record it loses, and  *)
(* never the first.                                                        *)
(***************************************************************************)
Latest == past[Len(past)]
Promised == <<Latest>>
Without(lost) == SubSeq(past, 1, IF lost < Len(past) THEN Len(past) - lost ELSE 1)

\* A slip in IndexCore::len: it counts the entries of the index.
LenOf_Index(st, ix) == Cardinality({id \in Ids : ix.entries[id] # <<>>})

\* IndexCore::len and stats, which the snapshot's header keeps and load
\* compares: the rows of the store, whether or not the index is built.
LenOf(st, ix) == StoreLen(st)

SnapshotOf(k, st, ix) == [kind |-> k, rows |-> st.rows, n_vectors |-> LenOf(st, ix)]

\* The core while no process runs: nothing of it survives.
NoCore == /\ store' = EmptyStore
          /\ index' = NewIndex
          /\ cache_cfg' = FALSE
          /\ cache' = Wrap(FALSE)
          /\ ivf_dirty' = FALSE
          /\ diverged' = {}
          /\ ret' = [op |-> "open"]

DurableInit ==
  /\ kind \in Kinds
  /\ store = EmptyStore /\ index = NewIndex
  /\ cache_cfg = FALSE /\ cache = Wrap(FALSE)
  /\ ivf_dirty = FALSE /\ diverged = {} /\ faults = 0
  /\ ret = [op |-> "open"]
  /\ snap = NoFile /\ wal = <<>> /\ synced = 0
  /\ phase = "down" /\ policy \in Policies /\ cursor = 1
  /\ past = <<EmptyMap>>
  /\ writes = 0 /\ crashes = 0

-----------------------------------------------------------------------------
(* Iqdb::open_with *)

\* No file: a new core of the requested kind, and an initial empty snapshot.
Create(cfg) ==
  /\ phase = "down" /\ snap = NoFile
  /\ LoadFrom(kind, <<>>, cfg)
  /\ snap' = SnapshotOf(kind, EmptyStore, NewIndex)
  /\ phase' = "open"
  /\ UNCHANGED <<faults, ret, wal, synced, policy, cursor, past, writes, crashes>>

\* PersistedIndex::load: the snapshot first, whatever kind was asked for.  The
\* load fails if building the index does, or if the rows are not as many as the
\* header says.
Load(p) ==
  /\ phase = "down" /\ snap # NoFile
  /\ LoadFrom(snap.kind, snap.rows, FALSE)
  /\ \E ok \in BOOLEAN :
       /\ Outcome(ok)
       /\ phase' = IF ok /\ LenOf(store', index') = snap.n_vectors
                   THEN "replay" ELSE "failed"
  /\ cursor' = 1 /\ policy' = p
  /\ UNCHANGED <<ret, fileVars, past, writes, crashes>>

\* ... then the log, record by record, through the engine.
Apply(w) == \/ w.op = "upsert" /\ Insert(w.id, w.val)
            \/ w.op = "delete" /\ Delete(w.id)

Replay ==
  /\ phase = "replay" /\ cursor <= Len(wal)
  /\ Apply(wal[cursor])
  /\ phase' = IF ret'.op = "error" THEN "failed" ELSE "replay"
  /\ cursor' = cursor + 1
  /\ UNCHANGED <<fileVars, policy, past, writes, crashes>>

Replayed == phase = "replay" /\ cursor > Len(wal)

\* The dim and metric match: the requested cache is put on, and the handle is
\* returned.
FinishOpen(cfg) ==
  /\ Replayed
  /\ phase' = "open"
  /\ SetCache(cfg)
  /\ ret' = [op |-> "open"]
  /\ UNCHANGED <<kind, store, index, ivf_dirty, diverged, faults, fileVars, policy,
                 cursor, past, writes, crashes>>

\* The dim or metric do not match, or a record could not be replayed: open
\* returns an error and the loaded core is dropped.
RejectOpen ==
  /\ Replayed \/ phase = "failed"
  /\ phase' = "down"
  /\ NoCore
  /\ UNCHANGED <<kind, faults, fileVars, policy, cursor, past, writes, crashes>>

-----------------------------------------------------------------------------
(* Storage::upsert and Storage::delete: the log, then the engine. *)

\* A slip: the policy the database was opened with does not reach the log.
LogRecord_NoSync(w) ==
  /\ wal' = Append(wal, w)
  /\ past' = Append(past, After(StoreMap, w))
  /\ UNCHANGED <<snap, synced>>

LogRecord(w) ==
  /\ wal' = Append(wal, w)
  /\ synced' = IF policy = "always" THEN Len(wal) + 1 ELSE synced
  /\ past' = Append(past, After(StoreMap, w))
  /\ UNCHANGED snap

LogWrite(w) ==
  /\ phase = "open" /\ writes < MaxWrites
  /\ LogRecord(w)
  /\ phase' = "apply"
  /\ writes' = writes + 1
  /\ UNCHANGED <<coreVars, policy, cursor, crashes>>

\* An acknowledged write may not be lost under the policy Always.
ApplyWrite ==
  /\ phase = "apply"
  /\ Apply(wal[Len(wal)])
  /\ phase' = "open"
  /\ past' = IF policy = "always" /\ ret'.op # "error" THEN Promised ELSE past
  /\ UNCHANGED <<fileVars, policy, cursor, writes, crashes>>

(* Storage::checkpoint, for flush and for close, in two steps *)

\* A slip: the log is reset without a new snapshot.
WriteSnapshot_Skipped == synced' = Len(wal) /\ UNCHANGED <<snap, wal, past>>

WriteSnapshot == /\ snap' = SnapshotOf(kind, store, index)
                 /\ synced' = Len(wal)
                 /\ UNCHANGED <<wal, past>>

EmptyLog == /\ wal' = <<>> /\ synced' = 0
            /\ past' = Promised
            /\ UNCHANGED snap

ReplaceSnapshot(next) ==
  /\ phase = "open"
  /\ WriteSnapshot
  /\ phase' = next
  /\ UNCHANGED <<coreVars, policy, cursor, writes, crashes>>

\* What a checkpoint leads to when it returns: flush keeps the handle, close
\* has consumed it.
Checkpointed ==
  IF phase = "flush" THEN phase' = "open" /\ UNCHANGED coreVars
                     ELSE phase' = "down" /\ NoCore /\ UNCHANGED <<kind, faults>>

ResetLog ==
  /\ phase \in {"flush", "close"}
  /\ EmptyLog
  /\ Checkpointed
  /\ UNCHANGED <<policy, cursor, writes, crashes>>

\* The log cannot be reset: flush or close returns the error, and the log
\* keeps writes the new snapshot already holds.
ResetFails ==
  /\ phase \in {"flush", "close"}
  /\ Checkpointed
  /\ UNCHANGED <<fileVars, policy, cursor, past, writes, crashes>>

\* search and optimize touch no file.
UseIndex ==
  /\ phase = "open"
  /\ EnsureReady \/ Optimize \/ \E q \in Queries : Search(q)
  /\ UNCHANGED <<fileVars, phase, policy, cursor, past, writes, crashes>>

\* The handle is dropped without close: the files stay as they are, with a tail
\* of the log perhaps not yet on stable storage.
Abandon ==
  /\ phase = "open"
  /\ phase' = "down"
  /\ NoCore
  /\ UNCHANGED <<kind, faults, fileVars, policy, cursor, past, writes, crashes>>

(***************************************************************************)
(* The process dies, or the machine: the synced part of the log survives   *)
(* and an arbitrary part of the rest.                                      *)
(***************************************************************************)
Crash ==
  /\ phase # "down" \/ synced < Len(wal)
  /\ crashes < MaxCrashes
  /\ \E n \in synced .. Len(wal) : /\ wal' = SubSeq(wal, 1, n)
                                  /\ synced' = n
                                  /\ past' = Without(Len(wal) - n)
  /\ phase' = "down"
  /\ NoCore
  /\ crashes' = crashes + 1
  /\ UNCHANGED <<kind, faults, snap, policy, cursor, writes>>

DurableNext ==
  \/ \E cfg \in BOOLEAN : Create(cfg) \/ FinishOpen(cfg)
  \/ \E p \in Policies : Load(p)
  \/ Replay \/ RejectOpen
  \/ \E w \in Writes : LogWrite(w)
  \/ ApplyWrite
  \/ \E next \in {"flush", "close"} : ReplaceSnapshot(next)
  \/ ResetLog \/ ResetFails
  \/ UseIndex
  \/ Abandon \/ Crash

DurableSpec == DurableInit /\ [][DurableNext]_durableVars

-----------------------------------------------------------------------------
(***************************************************************************)
(* A load ends in the state the history says: the map after some prefix of *)
(* the writes, never a mixture, and no earlier than the latest write       *)
(* acknowledged under the policy Always ("an acknowledged write survives a *)
(* crash and replays on the next open", Storage::upsert) and, under any    *)
(* policy, the latest flush or close that returned.  This includes a crash *)
(* between the replacement of the snapshot and the reset of the log, after *)
(* which the next open replays writes the snapshot already holds, a crash  *)
(* while loading, an open that is refused, and the unsynced tail a dropped *)
(* handle leaves to the next one.                                          *)
(***************************************************************************)
RecoversPromised == Replayed => StoreMap = Latest

(***************************************************************************)
(* Files that are whole can be opened: a load fails only when an index     *)
(* call fails during that very load, whatever failed before it.  So        *)
(* neither a crash, nor a checkpoint, nor a write whose index call failed  *)
(* leaves a header that disagrees with its rows, an IVF index that is not  *)
(* built included ("what keeps load's `len == header.n_vectors`            *)
(* cross-check satisfied").  A record that the index crates refuse for     *)
(* good is, each time it is replayed, such a failing call.                 *)
(***************************************************************************)
WholeFilesOpen ==
  [][phase # "failed" /\ phase' = "failed" => faults' > faults]_durableVars

(***************************************************************************)
(* The map that the rows of a snapshot and the first n records of a log    *)
(* denote: for each id its last write in the log or else its row.          *)
(***************************************************************************)
LastWrite(log, n, id) ==
  CHOOSE i \in 1 .. n : /\ log[i].id = id
                        /\ \A j \in 1 .. n : log[j].id = id => j <= i

FilesMap(rows, log, n) ==
  [id \in Ids |-> IF \E i \in 1 .. n : log[i].id = id
                  THEN Written(log[LastWrite(log, n, id)])
                  ELSE RowsMap(rows, Ids, Absent)[id]]

DiskMap == FilesMap(snap.rows, wal, Len(wal))

(***************************************************************************)
(* While the database is open the files denote the map it serves, in the   *)
(* middle of a checkpoint and after a write whose index call failed too.   *)
(***************************************************************************)
FilesDenoteMap ==
  phase \in {"open", "flush", "close"} => DiskMap = StoreMap

(***************************************************************************)
(* Replayed rows are not counted twice: the index and the cache of a       *)
(* loaded database are in step with its store at every step of the replay  *)
(* and ever after.                                                         *)
(***************************************************************************)
LoadedInStep == phase \notin {"down"} => IndexInStep /\ CacheNeverStale

=============================================================================
