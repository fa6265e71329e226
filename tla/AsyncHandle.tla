---------------------------- MODULE AsyncHandle ----------------------------
(***************************************************************************)
(* The async handle of src/async_db.rs: clones that share one Iqdb through *)
(* an Arc, calls that run on tokio's blocking pool with an Arc of their    *)
(* own, futures that are dropped while their task runs on, and close,      *)
(* which consumes the Iqdb if it holds the last Arc and flushes if not.    *)
(*                                                                         *)
(* The Iqdb is file-backed and its calls are atomic (IqdbHandle): a write  *)
(* is the next number, a checkpoint covers the writes made so far.  A call *)
(* that reads or optimizes holds its Arc in the same way and is the call   *)
(* "read", one that deletes is an "upsert".  A call may return an error or *)
(* panic, before its effect or, as Durable shows, after it; a panic is     *)
(* raised again in the awaiting task and releases the Arc all the same.    *)
(* When the runtime shuts down, tasks not yet started are dropped with     *)
(* their Arcs, and so is every task spawned from then on; an awaiting      *)
(* caller, which then runs outside the runtime, gets the JoinError, which  *)
(* unwrap_join turns into a panic.  A started task runs to its end.        *)
(***************************************************************************)
EXTENDS Integers, FiniteSets

CONSTANTS Clients,   \* async tasks that may own a clone
          Slots,     \* blocking tasks that may exist at one time
          NoTask,
          MaxCalls   \* bound: calls made in a behaviour

Ops == {"read", "upsert", "flush", "close"}
Stages == {"queued", "checkpoint", "ran", "done"}

\* A blocking task: the call, the client that made it, whether the future is
\* still there, whether the closure has an Arc, the result so far, how far it
\* is, the write it made and, for a checkpoint, the writes it must cover.
Tasks == [op : Ops, by : Clients, awaited : BOOLEAN, arc : BOOLEAN, ok : BOOLEAN,
          stage : Stages, write : Nat, before : Nat]

ASSUME AsyncAssumption ==
  /\ MaxCalls \in Nat
  /\ Clients # {} /\ IsFiniteSet(Clients) /\ IsFiniteSet(Slots)
  /\ NoTask \notin Tasks

VARIABLES held,     \* the clients that own a clone
          waiting,  \* the clients that await a call
          tasks,    \* the blocking task in each slot
          runtime,  \* "up" or "down"
          iqdb,     \* "live", "consumed" by a close, "closed" when that close
                    \* has succeeded, or "dropped" with its last Arc
          written,  \* writes made
          saved,    \* writes in the snapshot
          acked,    \* history: the latest write a client has seen acknowledged
          calls

asyncVars == <<held, waiting, tasks, runtime, iqdb, written, saved, acked, calls>>

Running == {s \in Slots : tasks[s] # NoTask}

\* The tasks that own an Arc, and the strong count of the Iqdb.
Owners == {s \in Running : tasks[s].arc}
StrongCount == Cardinality(held) + Cardinality(Owners)

\* AsyncIqdb::open, by one client
AsyncInit ==
  /\ held = {CHOOSE c \in Clients : TRUE}
  /\ waiting = {}
  /\ tasks = [s \in Slots |-> NoTask]
  /\ runtime = "up"
  /\ iqdb = "live"
  /\ written = 0 /\ saved = 0 /\ acked = 0 /\ calls = 0

-----------------------------------------------------------------------------
\* An idle client gives a clone to another, or drops its own.
Clone(c, d) ==
  /\ c \in held \ waiting /\ d \notin held \cup waiting
  /\ held' = held \cup {d}
  /\ UNCHANGED <<waiting, tasks, runtime, iqdb, written, saved, acked, calls>>

DropClone(c) ==
  /\ c \in held \ waiting
  /\ held' = held \ {c}
  /\ iqdb' = IF StrongCount = 1 THEN "dropped" ELSE iqdb
  /\ UNCHANGED <<waiting, tasks, runtime, written, saved, acked, calls>>

\* Every call spawns a blocking task: close moves the clone's Arc into it,
\* the others clone it.  Slots are only names, so any free one will do.  A
\* task spawned after the shutdown is born cancelled.
NewTask(c, op, queued) ==
  [op |-> op, by |-> c, awaited |-> TRUE, arc |-> queued, ok |-> queued,
   stage |-> IF queued THEN "queued" ELSE "done", write |-> 0,
   before |-> IF op \in {"flush", "close"} THEN acked ELSE 0]

Spawn(c, op) ==
  /\ c \in held \ waiting /\ Running # Slots /\ calls < MaxCalls
  /\ tasks' = [tasks EXCEPT ![CHOOSE s \in Slots : s \notin Running] =
                 NewTask(c, op, runtime = "up")]
  /\ held' = IF op = "close" THEN held \ {c} ELSE held
  /\ iqdb' = IF runtime = "down" /\ op = "close" /\ StrongCount = 1
             THEN "dropped" ELSE iqdb
  /\ waiting' = waiting \cup {c}
  /\ calls' = calls + 1
  /\ UNCHANGED <<runtime, written, saved, acked>>

Read(c) == Spawn(c, "read")
Upsert(c) == Spawn(c, "upsert")
Flush(c) == Spawn(c, "flush")
Close(c) == Spawn(c, "close")

\* A task that has ended, without its Arc: its result is kept while a future
\* awaits it.
Ended(t) ==
  IF t.awaited THEN [t EXCEPT !.stage = "done", !.arc = FALSE] ELSE NoTask

\* The future is dropped (a timeout, a select): the task is not stopped.
DropFuture(s) ==
  /\ s \in Running /\ tasks[s].awaited
  /\ tasks' = [tasks EXCEPT ![s] = IF @.stage = "done" THEN NoTask
                                   ELSE [@ EXCEPT !.awaited = FALSE]]
  /\ waiting' = waiting \ {tasks[s].by}
  /\ UNCHANGED <<held, runtime, iqdb, written, saved, acked, calls>>

-----------------------------------------------------------------------------
(* The closures on the blocking pool. *)

At(s, stage) == s \in Running /\ tasks[s].stage = stage

RunRead(s) ==
  /\ At(s, "queued") /\ tasks[s].op = "read"
  /\ tasks' = [tasks EXCEPT ![s].stage = "ran"]
  /\ UNCHANGED <<held, waiting, runtime, iqdb, written, saved, acked, calls>>

\* The row is logged and stored; the index call that follows may still fail.
RunUpsert(s) ==
  /\ At(s, "queued") /\ tasks[s].op = "upsert"
  /\ written' = written + 1
  /\ \E ok \in BOOLEAN :
       tasks' = [tasks EXCEPT ![s].stage = "ran", ![s].ok = ok, ![s].write = written + 1]
  /\ UNCHANGED <<held, waiting, runtime, iqdb, saved, acked, calls>>

\* Slips: close flushes first, through the shared Arc, and then lets go of the
\* Iqdb if it has the last one; close does nothing when the Iqdb is shared;
\* close waits until it has the last Arc.
TryUnwrap_FlushFirst(s) ==
  /\ s \in Running /\ tasks[s].op = "close"
  /\ \/ /\ At(s, "queued")
        /\ saved' = written
        /\ tasks' = [tasks EXCEPT ![s].stage = "checkpoint"]
        /\ UNCHANGED iqdb
     \/ /\ At(s, "checkpoint") /\ StrongCount = 1
        /\ tasks' = [tasks EXCEPT ![s].stage = "ran", ![s].arc = FALSE]
        /\ iqdb' = "closed"
        /\ UNCHANGED saved
  /\ UNCHANGED <<held, waiting, runtime, written, acked, calls>>
TryUnwrap_NoFlush(s) ==
  /\ At(s, "queued") /\ tasks[s].op = "close"
  /\ \/ /\ StrongCount = 1
        /\ tasks' = [tasks EXCEPT ![s].stage = "checkpoint", ![s].arc = FALSE]
        /\ iqdb' = "consumed"
     \/ /\ StrongCount > 1
        /\ tasks' = [tasks EXCEPT ![s].stage = "ran"]
        /\ UNCHANGED iqdb
  /\ UNCHANGED <<held, waiting, runtime, written, saved, acked, calls>>
TryUnwrap_Waits(s) ==
  /\ At(s, "queued") /\ tasks[s].op = "close" /\ StrongCount = 1
  /\ tasks' = [tasks EXCEPT ![s].stage = "checkpoint", ![s].arc = FALSE]
  /\ iqdb' = "consumed"
  /\ UNCHANGED <<held, waiting, runtime, written, saved, acked, calls>>

\* close, first half: Arc::try_unwrap.
TryUnwrap(s) ==
  /\ At(s, "queued") /\ tasks[s].op = "close"
  /\ \/ /\ StrongCount = 1
        /\ tasks' = [tasks EXCEPT ![s].stage = "checkpoint", ![s].arc = FALSE]
        /\ iqdb' = "consumed"
     \/ /\ StrongCount > 1
        /\ tasks' = [tasks EXCEPT ![s].stage = "checkpoint"]
        /\ UNCHANGED iqdb
  /\ UNCHANGED <<held, waiting, runtime, written, saved, acked, calls>>

\* flush, and close, second half: Iqdb::close or Iqdb::flush.  A checkpoint
\* that has replaced the snapshot may still fail to reset the log.
Checkpoint(s) ==
  /\ \/ At(s, "queued") /\ tasks[s].op = "flush"
     \/ At(s, "checkpoint")
  /\ saved' = written
  /\ \E ok \in BOOLEAN :
       /\ tasks' = [tasks EXCEPT ![s].stage = "ran", ![s].ok = ok]
       /\ iqdb' = IF ok /\ iqdb = "consumed" THEN "closed" ELSE iqdb
  /\ UNCHANGED <<held, waiting, runtime, written, acked, calls>>

\* The call returns an error or panics before it has had an effect.
Fails(s) ==
  /\ \/ At(s, "queued") /\ tasks[s].op # "close"
     \/ At(s, "checkpoint")
  /\ tasks' = [tasks EXCEPT ![s].stage = "ran", ![s].ok = FALSE]
  /\ UNCHANGED <<held, waiting, runtime, iqdb, written, saved, acked, calls>>

\* The closure ends, and its Arc, if it still has one, is dropped.
Release(s) ==
  /\ At(s, "ran")
  /\ tasks' = [tasks EXCEPT ![s] = Ended(@)]
  /\ iqdb' = IF tasks[s].arc /\ StrongCount = 1 THEN "dropped" ELSE iqdb
  /\ UNCHANGED <<held, waiting, runtime, written, saved, acked, calls>>

\* unwrap_join: the result, or the panic, reaches the client that waits.
Deliver(s) ==
  /\ At(s, "done")
  /\ tasks' = [tasks EXCEPT ![s] = NoTask]
  /\ waiting' = waiting \ {tasks[s].by}
  /\ acked' = IF tasks[s].ok /\ tasks[s].write > acked
              THEN tasks[s].write ELSE acked
  /\ UNCHANGED <<held, runtime, iqdb, written, saved, calls>>

\* The runtime is shut down: the queued tasks are cancelled.
Shutdown ==
  LET queued == {s \in Running : tasks[s].stage = "queued"}
  IN  /\ runtime = "up" /\ runtime' = "down"
      /\ tasks' = [s \in Slots |->
           IF s \in queued THEN Ended([tasks[s] EXCEPT !.ok = FALSE]) ELSE tasks[s]]
      /\ iqdb' = IF iqdb = "live" /\ held = {} /\ Owners \subseteq queued
                 THEN "dropped" ELSE iqdb
      /\ UNCHANGED <<held, waiting, written, saved, acked, calls>>

TaskStep(s) == \/ RunRead(s) \/ RunUpsert(s) \/ TryUnwrap(s) \/ Checkpoint(s)
               \/ Fails(s) \/ Release(s) \/ Deliver(s)

AsyncDone == held = {} /\ Running = {} /\ UNCHANGED asyncVars

AsyncNext ==
  \/ \E c, d \in Clients : Clone(c, d)
  \/ \E c \in Clients : DropClone(c)
  \/ \E c \in Clients : Read(c) \/ Upsert(c) \/ Flush(c) \/ Close(c)
  \/ \E s \in Slots : DropFuture(s) \/ TaskStep(s)
  \/ Shutdown
  \/ AsyncDone

AsyncSpec == AsyncInit /\ [][AsyncNext]_asyncVars

\* The pool runs every task it was given, and a runtime polls what is ready.
LiveAsyncSpec == AsyncSpec /\ \A s \in Slots : WF_asyncVars(TaskStep(s))

-----------------------------------------------------------------------------
(***************************************************************************)
(* A close that succeeds has compacted: every write acknowledged before it *)
(* was called is in the snapshot when it returns, whether it consumed the  *)
(* Iqdb or, sharing it with clones, with another close or with a task      *)
(* whose future was dropped, "degrades to a final flush".                  *)
(***************************************************************************)
CloseCoversWrites ==
  \A s \in Running :
    tasks[s].stage = "done" /\ tasks[s].op \in {"flush", "close"} /\ tasks[s].ok
      => saved >= tasks[s].before

(***************************************************************************)
(* A close that consumed the Iqdb and succeeded leaves nothing out: the    *)
(* snapshot holds every write ever made through the handle, whether it was *)
(* acknowledged, reported as an error after it was stored, or made by a    *)
(* task whose caller had long gone.  The final checkpoint comes after      *)
(* Arc::try_unwrap, when no task is left that could still write.           *)
(***************************************************************************)
ClosedHoldsAllWrites == iqdb = "closed" => saved = written

(***************************************************************************)
(* No Arc is leaked: when the last clone is gone, closed or dropped, the   *)
(* Iqdb is released as soon as the tasks still running have ended, those   *)
(* of dropped futures and failed calls included, and those a shutdown of   *)
(* the runtime cancelled before they began.                                *)
(***************************************************************************)
IqdbReleased == (held = {}) ~> (iqdb # "live")

=============================================================================
