------------------------- MODULE AsyncHandleProofs -------------------------
(***************************************************************************)
(* Proofs about the async handle, for any number of clients and blocking   *)
(* tasks: whoever clones, drops, cancels or shuts down, a close that       *)
(* succeeds covers every write acknowledged before it, and one that took   *)
(* the Iqdb out of its Arc covers every write there ever was.              *)
(***************************************************************************)
EXTENDS AsyncHandle, FiniteSetTheorems, TLAPS

\* A task, when w writes are made and v of them saved.  A task that has not
\* started has its Arc, so what it does it does to a live Iqdb; a checkpoint
\* that has succeeded covers what was acknowledged when it was called.
TaskOK(t, w, v) ==
  /\ t \in Tasks
  /\ t.stage = "queued" => t.arc
  /\ t.write <= w /\ t.before <= w
  /\ t.stage \in {"ran", "done"} /\ t.op \in {"flush", "close"} /\ t.ok
       => t.before <= v

CountsOK == written \in Nat /\ saved \in Nat /\ acked \in Nat
            /\ saved <= written /\ acked <= written

TasksOK ==
  /\ tasks = [s \in Slots |-> tasks[s]]
  /\ \A s \in Running : TaskOK(tasks[s], written, saved)

\* The inductive invariant.  Whoever can write owns an Arc, and an Iqdb that
\* is not live has none left, so nothing is written after its last checkpoint.
AsyncInv ==
  /\ held \subseteq Clients
  /\ CountsOK /\ TasksOK
  /\ iqdb # "live" => held = {} /\ Owners = {}
  /\ iqdb = "closed" => saved = written

-----------------------------------------------------------------------------
(***************************************************************************)
(* The strong count is one when there is one owner.                        *)
(***************************************************************************)

LEMMA FiniteOwners ==
  ASSUME held \subseteq Clients
  PROVE  /\ IsFiniteSet(held) /\ IsFiniteSet(Owners)
         /\ Cardinality(held) \in Nat /\ Cardinality(Owners) \in Nat
<1>1. Owners \subseteq Slots
  BY DEF Owners, Running
<1>2. IsFiniteSet(held) /\ IsFiniteSet(Owners)
  BY <1>1, AsyncAssumption, FS_Subset
<1> QED
  BY <1>2, FS_CardinalityType

LEMMA LastIsTask ==
  ASSUME held \subseteq Clients, StrongCount = 1, NEW s \in Owners
  PROVE  held = {} /\ Owners = {s}
<1>1. Cardinality(Owners) # 0
  BY FiniteOwners, FS_EmptySet
<1>2. Cardinality(held) = 0 /\ Cardinality(Owners) = 1
  BY <1>1, FiniteOwners DEF StrongCount
<1>3. PICK x : Owners = {x}
  BY <1>2, FiniteOwners, FS_Singleton
<1> QED
  BY <1>2, <1>3, FiniteOwners, FS_EmptySet

LEMMA LastIsClone ==
  ASSUME held \subseteq Clients, StrongCount = 1, NEW c \in held
  PROVE  held = {c} /\ Owners = {}
<1>1. Cardinality(held) # 0
  BY FiniteOwners, FS_EmptySet
<1>2. Cardinality(held) = 1 /\ Cardinality(Owners) = 0
  BY <1>1, FiniteOwners DEF StrongCount
<1>3. PICK x : held = {x}
  BY <1>2, FiniteOwners, FS_Singleton
<1> QED
  BY <1>2, <1>3, FiniteOwners, FS_EmptySet

-----------------------------------------------------------------------------
(***************************************************************************)
(* A step that changes one slot.                                           *)
(***************************************************************************)

\* What is true of a task stays true when more is written and saved.
LEMMA MoreSaved ==
  ASSUME NEW t, NEW w \in Nat, NEW v \in Nat, NEW w2 \in Nat, NEW v2 \in Nat,
         w <= w2, v <= v2, TaskOK(t, w, v)
  PROVE  TaskOK(t, w2, v2)
<1>1. t.write \in Nat /\ t.before \in Nat
  BY DEF TaskOK, Tasks
<1> QED
  BY <1>1 DEF TaskOK

\* The new content of the slot decides about its Arc, the other slots keep
\* theirs.
LEMMA OneSlot ==
  ASSUME TasksOK, CountsOK, CountsOK', written <= written', saved <= saved',
         NEW s \in Slots, NEW t,
         t = NoTask \/ TaskOK(t, written', saved'),
         tasks' = [tasks EXCEPT ![s] = t]
  PROVE  /\ TasksOK'
         /\ Owners' \subseteq Owners \cup {s}
         /\ s \in Owners' => t # NoTask /\ t.arc
         /\ Owners \ {s} \subseteq Owners'
<1>1. /\ tasks' = [r \in Slots |-> tasks'[r]]
      /\ tasks'[s] = t
      /\ \A r \in Slots \ {s} : tasks'[r] = tasks[r]
  BY DEF TasksOK
<1>2. ASSUME NEW r \in Running' PROVE TaskOK(tasks'[r], written', saved')
  <2>1. CASE r = s
    BY <1>1, <1>2, <2>1 DEF Running
  <2>2. CASE r # s
    <3>1. r \in Running /\ tasks'[r] = tasks[r]
      BY <1>1, <1>2, <2>2 DEF Running
    <3> QED
      BY <3>1, MoreSaved DEF TasksOK, CountsOK
  <2> QED
    BY <2>1, <2>2
<1>3. TasksOK'
  BY <1>1, <1>2 DEF TasksOK
<1> QED
  BY <1>1, <1>3 DEF Owners, Running

\* A task that moves on with the Arc it had, or without it, under an Iqdb
\* that stays live if it is.
LEMMA TaskMoves ==
  ASSUME AsyncInv, CountsOK', written <= written', saved <= saved',
         NEW s \in Running, NEW t,
         t = NoTask \/ TaskOK(t, written', saved'),
         t # NoTask /\ t.arc => tasks[s].arc,
         tasks' = [tasks EXCEPT ![s] = t],
         UNCHANGED held,
         iqdb = "live" => iqdb' = "live",
         iqdb' = "closed" => saved' = written'
  PROVE  AsyncInv'
<1>1. s \in Slots
  BY DEF Running
<1>2. /\ TasksOK'
      /\ Owners' \subseteq Owners \cup {s}
      /\ s \in Owners' => t # NoTask /\ t.arc
  BY <1>1, OneSlot DEF AsyncInv
<1>3. Owners' \subseteq Owners
  BY <1>1, <1>2 DEF Owners
<1> QED
  BY <1>2, <1>3 DEF AsyncInv

\* A task whose Arc was the last one gives it up.
LEMMA LastArcGoes ==
  ASSUME AsyncInv, NEW s \in Running, NEW t,
         t = NoTask \/ (TaskOK(t, written, saved) /\ ~t.arc),
         tasks[s].arc, StrongCount = 1,
         tasks' = [tasks EXCEPT ![s] = t],
         UNCHANGED <<held, written, saved, acked>>,
         iqdb' # "closed"
  PROVE  AsyncInv'
<1>1. s \in Slots /\ s \in Owners
  BY DEF Running, Owners
<1>2. held = {} /\ Owners = {s}
  BY <1>1, LastIsTask DEF AsyncInv
<1>3. CountsOK' /\ written <= written' /\ saved <= saved'
  BY DEF AsyncInv, CountsOK
<1>4. t = NoTask \/ TaskOK(t, written', saved')
  OBVIOUS
<1>5. /\ TasksOK'
      /\ Owners' \subseteq Owners \cup {s}
      /\ s \in Owners' => t # NoTask /\ t.arc
  BY <1>1, <1>3, <1>4, OneSlot DEF AsyncInv
<1> QED
  BY <1>2, <1>3, <1>5 DEF AsyncInv

-----------------------------------------------------------------------------
(***************************************************************************)
(* The actions.                                                            *)
(***************************************************************************)

LEMMA AsyncInitInv == AsyncInit => AsyncInv
<1> SUFFICES ASSUME AsyncInit PROVE AsyncInv
  OBVIOUS
<1>1. held \subseteq Clients
  BY AsyncAssumption DEF AsyncInit
<1>2. Running = {}
  BY DEF AsyncInit, Running
<1> QED
  BY <1>1, <1>2 DEF AsyncInit, AsyncInv, CountsOK, TasksOK

LEMMA CloneStep ==
  ASSUME AsyncInv, NEW c \in Clients, NEW d \in Clients, Clone(c, d) PROVE AsyncInv'
<1>1. iqdb = "live"
  BY DEF AsyncInv, Clone
<1> QED
  BY <1>1 DEF AsyncInv, Clone, CountsOK, TasksOK, Running

LEMMA DropCloneStep ==
  ASSUME AsyncInv, NEW c \in Clients, DropClone(c) PROVE AsyncInv'
<1>1. UNCHANGED <<Running, Owners, tasks, written, saved, acked>>
  BY DEF DropClone, Running, Owners
<1>2. CountsOK' /\ TasksOK' /\ held' \subseteq Clients
  BY <1>1 DEF AsyncInv, DropClone, CountsOK, TasksOK
<1>3. iqdb = "live"
  BY DEF AsyncInv, DropClone
<1>4. CASE StrongCount = 1
  <2>1. held = {c} /\ Owners = {}
    BY <1>4, LastIsClone DEF AsyncInv, DropClone
  <2> QED
    BY <1>1, <1>2, <2>1 DEF AsyncInv, DropClone
<1>5. CASE StrongCount # 1
  BY <1>2, <1>3, <1>5 DEF AsyncInv, DropClone
<1> QED
  BY <1>4, <1>5

LEMMA NewTaskOK ==
  ASSUME CountsOK, NEW c \in Clients, NEW op \in Ops, NEW queued \in BOOLEAN
  PROVE  /\ TaskOK(NewTask(c, op, queued), written, saved)
         /\ NewTask(c, op, queued).arc <=> queued
<1> DEFINE b == IF op \in {"flush", "close"} THEN acked ELSE 0
<1>1. b \in Nat /\ b <= written
  BY DEF CountsOK
<1> HIDE DEF b
<1>2. CASE queued = TRUE
  <2> DEFINE t == [op |-> op, by |-> c, awaited |-> TRUE, arc |-> TRUE, ok |-> TRUE,
                   stage |-> "queued", write |-> 0, before |-> b]
  <2>1. NewTask(c, op, queued) = t
    BY <1>2 DEF NewTask, b
  <2>2. t \in Tasks
    BY <1>1 DEF Tasks, Stages
  <2>3. t.arc /\ t.stage = "queued" /\ t.write = 0 /\ t.before = b
    OBVIOUS
  <2> HIDE DEF t
  <2>4. TaskOK(t, written, saved)
    BY <1>1, <2>2, <2>3 DEF TaskOK, CountsOK
  <2> QED
    BY <1>2, <2>1, <2>3, <2>4
<1>3. CASE queued = FALSE
  <2> DEFINE t == [op |-> op, by |-> c, awaited |-> TRUE, arc |-> FALSE, ok |-> FALSE,
                   stage |-> "done", write |-> 0, before |-> b]
  <2>1. NewTask(c, op, queued) = t
    BY <1>3 DEF NewTask, b
  <2>2. t \in Tasks
    BY <1>1 DEF Tasks, Stages
  <2>3. ~t.arc /\ ~t.ok /\ t.stage = "done" /\ t.write = 0 /\ t.before = b
    OBVIOUS
  <2> HIDE DEF t
  <2>4. TaskOK(t, written, saved)
    BY <1>1, <2>2, <2>3 DEF TaskOK, CountsOK
  <2> QED
    BY <1>3, <2>1, <2>3, <2>4
<1> QED
  BY <1>2, <1>3

\* The caller has a clone, so the Iqdb is live; a task spawned after the
\* shutdown is born without an Arc and without success.
LEMMA SpawnStep ==
  ASSUME AsyncInv, NEW c \in Clients, NEW op \in Ops, Spawn(c, op) PROVE AsyncInv'
<1> DEFINE s == CHOOSE r \in Slots : r \notin Running
           t == NewTask(c, op, runtime = "up")
<1>1. s \in Slots /\ s \notin Running
  BY DEF Spawn, Running
<1>2. iqdb = "live" /\ c \in held
  BY DEF AsyncInv, Spawn
<1>3. CountsOK /\ CountsOK' /\ written <= written' /\ saved <= saved'
  BY DEF AsyncInv, Spawn, CountsOK
<1>4. TaskOK(t, written, saved) /\ (t.arc <=> runtime = "up")
  BY <1>3, NewTaskOK
<1>5. TaskOK(t, written', saved')
  BY <1>4 DEF Spawn
<1>6. tasks' = [tasks EXCEPT ![s] = t]
  BY DEF Spawn
<1> HIDE DEF s, t
<1>7. /\ TasksOK'
      /\ Owners' \subseteq Owners \cup {s}
      /\ s \in Owners' => t.arc
  BY <1>1, <1>3, <1>5, <1>6, OneSlot DEF AsyncInv
<1>8. held' \subseteq Clients
  BY DEF AsyncInv, Spawn
<1>9. CASE runtime = "down" /\ op = "close" /\ StrongCount = 1
  <2>1. held = {c} /\ Owners = {}
    BY <1>2, <1>9, LastIsClone DEF AsyncInv
  <2>2. ~t.arc /\ held' = {} /\ iqdb' = "dropped"
    BY <1>4, <1>9, <2>1 DEF Spawn
  <2> QED
    BY <1>3, <1>7, <1>8, <2>1, <2>2 DEF AsyncInv
<1>10. CASE ~(runtime = "down" /\ op = "close" /\ StrongCount = 1)
  BY <1>2, <1>3, <1>7, <1>8, <1>10 DEF AsyncInv, Spawn
<1> QED
  BY <1>9, <1>10

\* What a task in its slot satisfies.
LEMMA TaskFacts ==
  ASSUME AsyncInv, NEW s \in Running
  PROVE  /\ s \in Slots
         /\ CountsOK /\ TaskOK(tasks[s], written, saved) /\ tasks[s] \in Tasks
         /\ tasks[s].write \in Nat /\ tasks[s].before \in Nat
         /\ NoTask \notin Tasks
  BY AsyncAssumption DEF AsyncInv, TasksOK, TaskOK, Tasks, Running

LEMMA DropFutureStep ==
  ASSUME AsyncInv, NEW s \in Slots, DropFuture(s) PROVE AsyncInv'
<1> DEFINE t == IF tasks[s].stage = "done" THEN NoTask
                ELSE [tasks[s] EXCEPT !.awaited = FALSE]
<1>1. s \in Running /\ UNCHANGED <<held, iqdb, written, saved, acked>>
  BY DEF DropFuture
<1>2. CountsOK' /\ written <= written' /\ saved <= saved'
      /\ (iqdb' = "closed" => saved' = written')
  BY <1>1 DEF AsyncInv, CountsOK
<1>3. tasks' = [tasks EXCEPT ![s] = t]
  BY <1>1, TaskFacts DEF DropFuture, AsyncInv, TasksOK
<1>4. /\ t = NoTask \/ TaskOK(t, written, saved)
      /\ t # NoTask /\ t.arc => tasks[s].arc
  BY <1>1, TaskFacts DEF TaskOK, Tasks
<1>5. t = NoTask \/ TaskOK(t, written', saved')
  BY <1>1, <1>4
<1> HIDE DEF t
<1> QED
  BY <1>1, <1>2, <1>3, <1>4, <1>5, TaskMoves

LEMMA RunReadStep ==
  ASSUME AsyncInv, NEW s \in Slots, RunRead(s) PROVE AsyncInv'
<1> DEFINE t == [tasks[s] EXCEPT !.stage = "ran"]
<1>1. s \in Running /\ UNCHANGED <<held, iqdb, written, saved, acked>>
  BY DEF RunRead, At
<1>2. CountsOK' /\ written <= written' /\ saved <= saved'
      /\ (iqdb' = "closed" => saved' = written')
  BY <1>1 DEF AsyncInv, CountsOK
<1>3. tasks' = [tasks EXCEPT ![s] = t]
  BY <1>1, TaskFacts DEF RunRead, AsyncInv, TasksOK
<1>4. t \in Tasks /\ t.op = "read" /\ t.stage = "ran" /\ t.arc = tasks[s].arc
      /\ t.write = tasks[s].write /\ t.before = tasks[s].before
  BY <1>1, TaskFacts DEF Tasks, Stages, RunRead
<1> HIDE DEF t
<1>5. TaskOK(t, written', saved')
  BY <1>1, <1>4, TaskFacts DEF TaskOK
<1> QED
  BY <1>1, <1>2, <1>3, <1>4, <1>5, TaskMoves

LEMMA RunUpsertStep ==
  ASSUME AsyncInv, NEW s \in Slots, RunUpsert(s) PROVE AsyncInv'
<1>1. /\ s \in Running /\ UNCHANGED <<held, iqdb, saved, acked>>
      /\ written' = written + 1
      /\ tasks[s].op = "upsert" /\ tasks[s].stage = "queued"
  BY DEF RunUpsert, At
<1>2. PICK ok \in BOOLEAN :
        tasks' = [tasks EXCEPT ![s].stage = "ran", ![s].ok = ok, ![s].write = written + 1]
  BY DEF RunUpsert
<1> DEFINE w == written + 1
           t == [tasks[s] EXCEPT !.stage = "ran", !.ok = ok, !.write = w]
<1>3. iqdb = "live"
  BY <1>1, TaskFacts DEF AsyncInv, TaskOK, Owners
<1>4. CountsOK' /\ written <= written' /\ saved <= saved' /\ written \in Nat
      /\ w \in Nat /\ written <= w /\ written' = w
  BY <1>1 DEF AsyncInv, CountsOK
<1>5. tasks' = [tasks EXCEPT ![s] = t]
  BY <1>1, <1>2, TaskFacts DEF AsyncInv, TasksOK
<1> HIDE DEF w
<1>6. t \in Tasks /\ t.op = tasks[s].op /\ t.stage = "ran" /\ t.arc = tasks[s].arc
      /\ t.write = w /\ t.before = tasks[s].before
  BY <1>1, <1>4, TaskFacts DEF Tasks, Stages
<1> HIDE DEF t
<1>7. TaskOK(t, written', saved')
  BY <1>1, <1>4, <1>6, TaskFacts DEF TaskOK
<1> QED
  BY <1>1, <1>3, <1>4, <1>5, <1>6, <1>7, TaskMoves

\* The task is queued, so it has its Arc: a count of one means that it is the
\* last, and no clone and no other task is left when the Iqdb is consumed.
LEMMA TryUnwrapStep ==
  ASSUME AsyncInv, NEW s \in Slots, TryUnwrap(s) PROVE AsyncInv'
<1>1. s \in Running /\ UNCHANGED <<held, written, saved, acked>>
  BY DEF TryUnwrap, At
<1>2. CountsOK' /\ written <= written' /\ saved <= saved'
      /\ (iqdb = "closed" => saved' = written')
  BY <1>1 DEF AsyncInv, CountsOK
<1>3. CASE /\ StrongCount = 1 /\ iqdb' = "consumed"
           /\ tasks' = [tasks EXCEPT ![s].stage = "checkpoint", ![s].arc = FALSE]
  <2> DEFINE t == [tasks[s] EXCEPT !.stage = "checkpoint", !.arc = FALSE]
  <2>1. tasks' = [tasks EXCEPT ![s] = t]
    BY <1>1, <1>3, TaskFacts DEF AsyncInv, TasksOK
  <2>2. t \in Tasks /\ t.stage = "checkpoint" /\ ~t.arc
        /\ t.write = tasks[s].write /\ t.before = tasks[s].before
    BY <1>1, TaskFacts DEF Tasks, Stages
  <2> HIDE DEF t
  <2>3. TaskOK(t, written, saved)
    BY <1>1, <2>2, TaskFacts DEF TaskOK
  <2>4. tasks[s].arc
    BY <1>1, TaskFacts DEF TaskOK, TryUnwrap, At
  <2> QED
    BY <1>1, <1>3, <2>1, <2>2, <2>3, <2>4, LastArcGoes
<1>4. CASE tasks' = [tasks EXCEPT ![s].stage = "checkpoint"] /\ UNCHANGED iqdb
  <2> DEFINE t == [tasks[s] EXCEPT !.stage = "checkpoint"]
  <2>1. tasks' = [tasks EXCEPT ![s] = t]
    BY <1>1, <1>4, TaskFacts DEF AsyncInv, TasksOK
  <2>2. t \in Tasks /\ t.stage = "checkpoint" /\ t.arc = tasks[s].arc
        /\ t.write = tasks[s].write /\ t.before = tasks[s].before
    BY <1>1, TaskFacts DEF Tasks, Stages
  <2> HIDE DEF t
  <2>3. TaskOK(t, written', saved')
    BY <1>1, <2>2, TaskFacts DEF TaskOK
  <2> QED
    BY <1>1, <1>2, <1>4, <2>1, <2>2, <2>3, TaskMoves
<1> QED
  BY <1>3, <1>4 DEF TryUnwrap

\* A checkpoint saves every write made, the acknowledged ones among them.
LEMMA CheckpointStep ==
  ASSUME AsyncInv, NEW s \in Slots, Checkpoint(s) PROVE AsyncInv'
<1>1. s \in Running /\ UNCHANGED <<held, written, acked>> /\ saved' = written
  BY DEF Checkpoint, At
<1>2. PICK ok \in BOOLEAN :
        /\ tasks' = [tasks EXCEPT ![s].stage = "ran", ![s].ok = ok]
        /\ iqdb' = IF ok /\ iqdb = "consumed" THEN "closed" ELSE iqdb
  BY DEF Checkpoint
<1> DEFINE t == [tasks[s] EXCEPT !.stage = "ran", !.ok = ok]
<1>3. CountsOK' /\ written <= written' /\ saved <= saved' /\ saved' = written'
      /\ (iqdb = "live" => iqdb' = "live")
  BY <1>1, <1>2 DEF AsyncInv, CountsOK
<1>4. tasks' = [tasks EXCEPT ![s] = t]
  BY <1>1, <1>2, TaskFacts DEF AsyncInv, TasksOK
<1>5. t \in Tasks /\ t.stage = "ran" /\ t.arc = tasks[s].arc
      /\ t.write = tasks[s].write /\ t.before = tasks[s].before
  BY <1>1, TaskFacts DEF Tasks, Stages
<1> HIDE DEF t
<1>6. TaskOK(t, written', saved')
  BY <1>1, <1>5, TaskFacts DEF TaskOK
<1> QED
  BY <1>1, <1>3, <1>4, <1>5, <1>6, TaskMoves

LEMMA FailsStep ==
  ASSUME AsyncInv, NEW s \in Slots, Fails(s) PROVE AsyncInv'
<1> DEFINE t == [tasks[s] EXCEPT !.stage = "ran", !.ok = FALSE]
<1>1. s \in Running /\ UNCHANGED <<held, iqdb, written, saved, acked>>
  BY DEF Fails, At
<1>2. CountsOK' /\ written <= written' /\ saved <= saved'
      /\ (iqdb' = "closed" => saved' = written')
  BY <1>1 DEF AsyncInv, CountsOK
<1>3. tasks' = [tasks EXCEPT ![s] = t]
  BY <1>1, TaskFacts DEF Fails, AsyncInv, TasksOK
<1>4. t \in Tasks /\ t.stage = "ran" /\ ~t.ok /\ t.arc = tasks[s].arc
      /\ t.write = tasks[s].write /\ t.before = tasks[s].before
  BY <1>1, TaskFacts DEF Tasks, Stages
<1> HIDE DEF t
<1>5. TaskOK(t, written', saved')
  BY <1>1, <1>4, TaskFacts DEF TaskOK
<1> QED
  BY <1>1, <1>2, <1>3, <1>4, <1>5, TaskMoves

\* What is left of a task that has ended: no Arc, and its result.
LEMMA EndedFacts ==
  ASSUME NEW w \in Nat, NEW v \in Nat, NEW t, TaskOK(t, w, v),
         t.stage = "ran" \/ ~t.ok
  PROVE  Ended(t) = NoTask \/ (TaskOK(Ended(t), w, v) /\ ~Ended(t).arc)
<1> DEFINE u == [t EXCEPT !.stage = "done", !.arc = FALSE]
<1>1. /\ u \in Tasks /\ u.stage = "done" /\ ~u.arc /\ u.op = t.op /\ u.ok = t.ok
      /\ u.write = t.write /\ u.before = t.before
  BY DEF TaskOK, Tasks, Stages
<1>2. Ended(t) \in {u, NoTask}
  BY DEF Ended
<1> HIDE DEF u
<1>3. TaskOK(u, w, v)
  BY <1>1 DEF TaskOK
<1> QED
  BY <1>1, <1>2, <1>3

LEMMA ReleaseStep ==
  ASSUME AsyncInv, NEW s \in Slots, Release(s) PROVE AsyncInv'
<1> DEFINE t == Ended(tasks[s])
<1>1. s \in Running /\ UNCHANGED <<held, written, saved, acked>>
  BY DEF Release, At
<1>2. CountsOK' /\ written <= written' /\ saved <= saved'
      /\ (iqdb = "closed" => saved' = written')
  BY <1>1 DEF AsyncInv, CountsOK
<1>3. tasks' = [tasks EXCEPT ![s] = t]
  BY <1>1, TaskFacts DEF Release, AsyncInv, TasksOK
<1>4. t = NoTask \/ (TaskOK(t, written, saved) /\ ~t.arc)
  BY <1>1, TaskFacts, EndedFacts DEF CountsOK, Release, At
<1>5. t = NoTask \/ TaskOK(t, written', saved')
  BY <1>1, <1>4
<1> HIDE DEF t
<1>6. CASE tasks[s].arc /\ StrongCount = 1
  <2>1. iqdb' = "dropped"
    BY <1>6 DEF Release
  <2> QED
    BY <1>1, <1>3, <1>4, <1>6, <2>1, LastArcGoes
<1>7. CASE ~(tasks[s].arc /\ StrongCount = 1)
  <2>1. UNCHANGED iqdb
    BY <1>7 DEF Release
  <2> QED
    BY <1>1, <1>2, <1>3, <1>4, <1>5, <2>1, TaskMoves
<1> QED
  BY <1>6, <1>7

LEMMA DeliverStep ==
  ASSUME AsyncInv, NEW s \in Slots, Deliver(s) PROVE AsyncInv'
<1>1. s \in Running /\ UNCHANGED <<held, iqdb, written, saved>>
  BY DEF Deliver, At
<1>2. CountsOK' /\ written <= written' /\ saved <= saved'
      /\ (iqdb' = "closed" => saved' = written')
  BY <1>1, TaskFacts DEF AsyncInv, Deliver, CountsOK, TaskOK
<1>3. tasks' = [tasks EXCEPT ![s] = NoTask]
  BY DEF Deliver
<1> QED
  BY <1>1, <1>2, <1>3, TaskMoves

\* The queued tasks lose their Arcs and their success, the others run on.
LEMMA ShutdownStep == AsyncInv /\ Shutdown => AsyncInv'
<1> SUFFICES ASSUME AsyncInv, Shutdown PROVE AsyncInv'
  OBVIOUS
<1> DEFINE queued == {s \in Running : tasks[s].stage = "queued"}
           cancelled(s) == Ended([tasks[s] EXCEPT !.ok = FALSE])
<1>1. /\ UNCHANGED <<held, written, saved, acked>>
      /\ tasks' = [s \in Slots |-> IF s \in queued THEN cancelled(s) ELSE tasks[s]]
      /\ iqdb' = IF iqdb = "live" /\ held = {} /\ Owners \subseteq queued
                 THEN "dropped" ELSE iqdb
  BY DEF Shutdown
<1>2. CountsOK /\ CountsOK'
  BY <1>1 DEF AsyncInv, CountsOK
<1>3. ASSUME NEW s \in queued
      PROVE  cancelled(s) = NoTask
               \/ (TaskOK(cancelled(s), written, saved) /\ ~cancelled(s).arc)
  <2> DEFINE t == [tasks[s] EXCEPT !.ok = FALSE]
  <2>1. t \in Tasks /\ ~t.ok /\ t.stage = tasks[s].stage /\ t.arc = tasks[s].arc
        /\ t.write = tasks[s].write /\ t.before = tasks[s].before
    BY TaskFacts DEF Tasks
  <2> HIDE DEF t
  <2>2. TaskOK(t, written, saved)
    BY <2>1, TaskFacts DEF TaskOK
  <2>3. Ended(t) = NoTask \/ (TaskOK(Ended(t), written, saved) /\ ~Ended(t).arc)
    BY <1>2, <2>1, <2>2, EndedFacts DEF CountsOK
  <2> QED
    BY <2>3 DEF t
<1> HIDE DEF cancelled
<1>4. ASSUME NEW s \in Running' PROVE TaskOK(tasks'[s], written', saved')
  <2>0. s \in Slots /\ tasks'[s] # NoTask
    BY <1>4 DEF Running
  <2>1. CASE s \in queued
    BY <1>1, <1>3, <2>0, <2>1
  <2>2. CASE s \notin queued
    <3>1. tasks'[s] = tasks[s] /\ s \in Running
      BY <1>1, <2>0, <2>2 DEF Running
    <3> QED
      BY <1>1, <3>1, TaskFacts
  <2> QED
    BY <2>1, <2>2
<1>5. TasksOK'
  BY <1>1, <1>4 DEF TasksOK
<1>6. Owners' \subseteq Owners \ queued
  <2> SUFFICES ASSUME NEW s \in Owners' PROVE s \in Owners \ queued
    OBVIOUS
  <2>1. s \in Slots /\ tasks'[s] # NoTask /\ tasks'[s].arc
    BY DEF Owners, Running
  <2>2. s \notin queued
    BY <1>1, <1>3, <2>1
  <2>3. tasks'[s] = tasks[s]
    BY <1>1, <2>1, <2>2
  <2> QED
    BY <2>1, <2>2, <2>3 DEF Owners, Running
<1> QED
  BY <1>1, <1>2, <1>5, <1>6 DEF AsyncInv

LEMMA AsyncStep == AsyncInv /\ [AsyncNext]_asyncVars => AsyncInv'
<1> SUFFICES ASSUME AsyncInv, [AsyncNext]_asyncVars PROVE AsyncInv'
  OBVIOUS
<1>1. CASE \E c, d \in Clients : Clone(c, d)
  BY <1>1, CloneStep
<1>2. CASE \E c \in Clients : DropClone(c)
  BY <1>2, DropCloneStep
<1>3. CASE \E c \in Clients : Read(c) \/ Upsert(c) \/ Flush(c) \/ Close(c)
  BY <1>3, SpawnStep DEF Ops, Read, Upsert, Flush, Close
<1>4. CASE \E s \in Slots : DropFuture(s)
  BY <1>4, DropFutureStep
<1>5. CASE \E s \in Slots : TaskStep(s)
  BY <1>5, RunReadStep, RunUpsertStep, TryUnwrapStep, CheckpointStep, FailsStep,
     ReleaseStep, DeliverStep DEF TaskStep
<1>6. CASE Shutdown
  BY <1>6, ShutdownStep
<1>7. CASE AsyncDone \/ UNCHANGED asyncVars
  BY <1>7 DEF AsyncDone, asyncVars, AsyncInv, CountsOK, TasksOK, Running, Owners
<1> QED
  BY <1>1, <1>2, <1>3, <1>4, <1>5, <1>6, <1>7 DEF AsyncNext

LEMMA AsyncInvariant == AsyncSpec => []AsyncInv
  BY AsyncInitInv, AsyncStep, PTL DEF AsyncSpec

-----------------------------------------------------------------------------
(***************************************************************************)
(* A close that consumed the Iqdb and returned Ok has every write ever     *)
(* made in its snapshot, for any number of clones, detached tasks, other   *)
(* closes and failed calls: it takes the Iqdb out of the Arc first and     *)
(* checkpoints what no one else can reach any more.                        *)
(***************************************************************************)
THEOREM ClosesLeaveNothingOut == AsyncSpec => []ClosedHoldsAllWrites
<1>1. AsyncInv => ClosedHoldsAllWrites
  BY DEF AsyncInv, ClosedHoldsAllWrites
<1> QED
  BY <1>1, AsyncInvariant, PTL

(***************************************************************************)
(* A close or a flush that returns Ok has put every write acknowledged     *)
(* before the call into the snapshot, shared or not, among any number of   *)
(* concurrent closes, cancelled futures and failed calls.                  *)
(***************************************************************************)
THEOREM ClosesCoverWrites == AsyncSpec => []CloseCoversWrites
<1>1. AsyncInv => CloseCoversWrites
  <2> SUFFICES ASSUME AsyncInv, NEW s \in Running,
                      tasks[s].stage = "done", tasks[s].op \in {"flush", "close"},
                      tasks[s].ok
               PROVE  saved >= tasks[s].before
    BY DEF CloseCoversWrites
  <2> QED
    BY TaskFacts DEF TaskOK, CountsOK
<1> QED
  BY <1>1, AsyncInvariant, PTL

=============================================================================
