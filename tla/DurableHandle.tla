--------------------------- MODULE DurableHandle ---------------------------
(***************************************************************************)
(* The whole file-backed database: the threads of IqdbHandle over the      *)
(* files of Durable.  A write is logged before it is applied, flush writes *)
(* a snapshot and then empties the log, both under the write guard; a      *)
(* crash ends every thread's call wherever it is; the next process loads   *)
(* what the files hold.  close and a drop take the handle by value, so     *)
(* they begin when no thread is inside.                                    *)
(*                                                                         *)
(* While the handle serves calls `phase` is "open": it is the guard alone  *)
(* that keeps the steps of a write and of a flush apart.                   *)
(***************************************************************************)
EXTENDS IqdbHandle, Durable

processVars == <<phase, policy, cursor, writes, crashes>>
dhVars == <<handleVars, fileVars, processVars, past>>

DHInit == DurableInit /\ NoThreadInside

NobodyInside == \A t \in Threads : pc[t] = "idle"

-----------------------------------------------------------------------------
(* Iqdb::open_with *)

OpenHandle ==
  /\ \E cfg \in BOOLEAN : Create(cfg) \/ FinishOpen(cfg)
  /\ committed' = StoreMap'
  /\ UNCHANGED <<lockVars, threadVars>>

LoadHandle ==
  /\ Replay \/ RejectOpen \/ \E p \in Policies : Load(p)
  /\ UNCHANGED <<lockVars, threadVars, committed>>

-----------------------------------------------------------------------------
(* Calls on the open handle. *)

Serve(t) == /\ phase = "open"
            /\ Begin(t) \/ RejectDim(t) \/ ReadStep(t)
            /\ UNCHANGED <<fileVars, processVars, past>>

\* Storage::upsert and Storage::delete: the log, the store, the index.
LogCall(t) ==
  /\ pc[t] = "writing" /\ call[t].op \in {"upsert", "delete"}
  /\ LogRecord(call[t])
  /\ Goto(t, "logged")
  /\ UNCHANGED <<coreVars, processVars, lockVars, call, answer, calls, committed>>

ApplyCall(t) ==
  /\ \/ pc[t] = "logged" /\ StoreCall(t)
     \/ WriteIndex(t)
  /\ UNCHANGED <<fileVars, processVars, past>>

\* A slip in flush: the snapshot is written before the write guard is held.
SnapshotCall_NoGuard(t) ==
  /\ pc[t] = "want_write" /\ call[t].op = "flush"
  /\ WriteSnapshot
  /\ Goto(t, "reset")
  /\ UNCHANGED <<coreVars, processVars, lockVars, call, answer, calls, committed>>

\* flush: the snapshot, then the log, which may fail.
SnapshotCall(t) ==
  /\ pc[t] = "writing" /\ call[t].op = "flush"
  /\ WriteSnapshot
  /\ Goto(t, "reset")
  /\ UNCHANGED <<coreVars, processVars, lockVars, call, answer, calls, committed>>

ResetCall(t) ==
  /\ pc[t] = "reset"
  /\ \/ EmptyLog /\ Result(t, [op |-> "flush"])
     \/ UNCHANGED <<fileVars, past>> /\ Result(t, Failed)
  /\ Goto(t, "unlock")
  /\ UNCHANGED <<coreVars, processVars, lockVars, call, calls, committed>>

\* The guard is dropped; under the policy Always an acknowledged write may not
\* be lost any more.
UnlockCall(t) ==
  /\ Unlock(t)
  /\ past' = IF answer[t].op \in {"upsert", "delete"} /\ policy = "always"
             THEN Promised ELSE past
  /\ UNCHANGED <<fileVars, processVars>>

-----------------------------------------------------------------------------
(* The end of a handle. *)

CloseHandle ==
  /\ NobodyInside
  /\ ReplaceSnapshot("close") \/ ResetLog \/ ResetFails \/ Abandon
  /\ UNCHANGED <<lockVars, threadVars, committed>>

CrashHandle ==
  /\ Crash
  /\ readers' = {} /\ writer' = NoThread
  /\ pc' = [t \in Threads |-> "idle"]
  /\ call' = [t \in Threads |-> NoCall]
  /\ answer' = [t \in Threads |-> NoCall]
  /\ UNCHANGED <<calls, committed>>

DHNext ==
  \/ OpenHandle \/ LoadHandle
  \/ \E t \in Threads : \/ Serve(t) \/ LogCall(t) \/ ApplyCall(t)
                        \/ SnapshotCall(t) \/ ResetCall(t) \/ UnlockCall(t)
  \/ CloseHandle \/ CrashHandle

DHSpec == DHInit /\ [][DHNext]_dhVars

-----------------------------------------------------------------------------
IsUp == phase \in {"open", "close"}

Promise == INSTANCE DurableMap WITH
  map <- committed,
  ret <- IF IsUp THEN ret ELSE [op |-> "open"],
  pending <- \E t \in Threads : \/ pc[t] \in {"logged", "index"}
                                \/ /\ pc[t] = "unlock"
                                   /\ call[t].op \in {"upsert", "delete"},
  up <- IsUp

(***************************************************************************)
(* The file-backed handle is durably linearizable: with threads calling it *)
(* at once, crashes at any step and reopenings, every call still takes     *)
(* effect at one moment with the map's answer, and what an open brings     *)
(* back is the map after a prefix of the writes in the order they took     *)
(* effect, with every write acknowledged under the policy Always and       *)
(* everything before the latest flush or close that returned.              *)
(***************************************************************************)
DurablyLinearizable == Promise!DurableSpec

=============================================================================
