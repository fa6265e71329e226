------------------------------ MODULE Opening ------------------------------
(***************************************************************************)
(* How a database gets its identity: the IqdbConfig builder (config.rs),   *)
(* the constructors of the handle (handle.rs) and the error each refusal   *)
(* returns (error.rs), over any number of sessions on one path.            *)
(*                                                                         *)
(* The handle keeps a dim and a metric of its own, next to those of its    *)
(* core, and check_dim looks at the handle's.  The rows are represented by *)
(* the dimensionalities they have.  A file-backed row is in the file (its  *)
(* log) as soon as it is written; Durable has the crashes in between.  A   *)
(* create or an append that fails may or may not have left its effect.     *)
(***************************************************************************)
EXTENDS Naturals

CONSTANTS Dims,       \* dimensionalities a caller may ask for, zero among them
          Metrics,
          PqMetrics,  \* the metrics an IVF-PQ index supports
          Kinds,      \* index kinds: "flat", "hnsw", "ivf", "ivf_pq"
          Compressions,
          Compiled,   \* the compressions whose cargo feature is compiled in
          None        \* no config, no file, no handle

ASSUME OpeningAssumption == Dims \subseteq Nat /\ PqMetrics \subseteq Metrics

VARIABLES cfg,     \* the IqdbConfig under construction
          file,    \* the identity in the snapshot, and the rows
          handle,  \* the open Iqdb: its dim and metric, its core, its storage
          result   \* "ok", or the variant of Error the latest call returned

openVars == <<cfg, file, handle, result>>

OpeningInit == cfg = None /\ file = None /\ handle = None /\ result = "ok"

-----------------------------------------------------------------------------
(* The builder. *)

\* IqdbConfig::new, with the defaults of CoreConfig and Durability
NewConfig(dim, metric) ==
  /\ cfg' = [dim |-> dim, metric |-> metric, kind |-> "flat", cache |-> FALSE,
             fsync |-> "always", compression |-> "none"]
  /\ UNCHANGED <<file, handle, result>>

Override(field, value) ==
  /\ cfg # None
  /\ cfg' = [cfg EXCEPT ![field] = value]
  /\ UNCHANGED <<file, handle, result>>

Index(kind) == Override("kind", kind)
Cache == Override("cache", TRUE)
Fsync(policy) == Override("fsync", policy)
Compression(c) == Override("compression", c)

-----------------------------------------------------------------------------
(* The constructors. *)

Refuse(error) == result' = error /\ UNCHANGED <<cfg, file, handle>>

\* AnyIndex::new: what the index of this kind says to the metric
Constructible(kind, metric) == kind = "ivf_pq" => metric \in PqMetrics

NewCore == [dim |-> cfg.dim, metric |-> cfg.metric, kind |-> cfg.kind,
            cache |-> cfg.cache, rows |-> {}]

\* What is restored comes from the file, the cache from the config.
LoadedCore == [dim |-> file.dim, metric |-> file.metric, kind |-> file.kind,
               cache |-> cfg.cache, rows |-> file.rows]

\* What a snapshot keeps of a core.
Saved(core) == [dim |-> core.dim, metric |-> core.metric, kind |-> core.kind,
                rows |-> core.rows]

Opened(storage, core) ==
  /\ handle' = [dim |-> cfg.dim, metric |-> cfg.metric, storage |-> storage,
                core |-> core]
  /\ result' = "ok"
  /\ UNCHANGED cfg

OpenInMemoryWith ==
  /\ handle = None /\ cfg # None
  /\ \/ cfg.dim = 0 /\ Refuse("Config")
     \/ cfg.dim # 0 /\ ~Constructible(cfg.kind, cfg.metric) /\ Refuse("Index")
     \/ /\ cfg.dim # 0 /\ Constructible(cfg.kind, cfg.metric)
        /\ Opened("memory", NewCore)
        /\ UNCHANGED file

\* A slip: the file is created before the core is built.
CreateFile_Early ==
  \/ /\ ~Constructible(cfg.kind, cfg.metric)
     /\ file' = Saved(NewCore)
     /\ result' = "Index"
     /\ UNCHANGED <<cfg, handle>>
  \/ /\ Constructible(cfg.kind, cfg.metric)
     /\ Opened("file", NewCore)
     /\ file' = Saved(NewCore)

CreateFile ==
  \/ ~Constructible(cfg.kind, cfg.metric) /\ Refuse("Index")
  \/ /\ Constructible(cfg.kind, cfg.metric)
     /\ cfg.compression \notin Compiled /\ Refuse("Persist")
  \/ /\ Constructible(cfg.kind, cfg.metric) /\ cfg.compression \in Compiled
     /\ file' \in {None, Saved(NewCore)}
     /\ result' = "Persist"
     /\ UNCHANGED <<cfg, handle>>
  \/ /\ Constructible(cfg.kind, cfg.metric) /\ cfg.compression \in Compiled
     /\ Opened("file", NewCore)
     /\ file' = Saved(NewCore)

\* Slips: only the metric is compared; the requested kind replaces the stored.
LoadFile_NoDim ==
  \/ cfg.compression \notin Compiled /\ Refuse("Persist")
  \/ file.metric # cfg.metric /\ Refuse("Config")
  \/ /\ cfg.compression \in Compiled /\ file.metric = cfg.metric
     /\ Opened("file", LoadedCore)
     /\ UNCHANGED file
LoadFile_RequestedKind ==
  \/ cfg.compression \notin Compiled /\ Refuse("Persist")
  \/ <<file.dim, file.metric>> # <<cfg.dim, cfg.metric>> /\ Refuse("Config")
  \/ /\ cfg.compression \in Compiled
     /\ <<file.dim, file.metric>> = <<cfg.dim, cfg.metric>>
     /\ Opened("file", [LoadedCore EXCEPT !.kind = cfg.kind])
     /\ UNCHANGED file

\* The load itself fails: the compression is not compiled in, the file cannot
\* be read, or an index call fails in the replay.
LoadFile ==
  \/ Refuse("Persist")
  \/ /\ cfg.compression \in Compiled
     /\ <<file.dim, file.metric>> # <<cfg.dim, cfg.metric>>
     /\ Refuse("Config")
  \/ /\ cfg.compression \in Compiled
     /\ <<file.dim, file.metric>> = <<cfg.dim, cfg.metric>>
     /\ Opened("file", LoadedCore)
     /\ UNCHANGED file

OpenWith ==
  /\ handle = None /\ cfg # None
  /\ \/ cfg.dim = 0 /\ Refuse("Config")
     \/ cfg.dim # 0 /\ file = None /\ CreateFile
     \/ cfg.dim # 0 /\ file # None /\ LoadFile

-----------------------------------------------------------------------------
(* What an open handle does with its identity. *)

Stored(dim) == handle' = [handle EXCEPT !.core.rows = @ \cup {dim}]
Logged(dim) == [file EXCEPT !.rows = @ \cup {dim}]

\* In memory: the store has the row, then the index takes it or fails.
UpsertMemory(dim) ==
  /\ handle.storage = "memory"
  /\ Stored(dim)
  /\ result' \in {"ok", "Index"}
  /\ UNCHANGED file

\* A slip: the row is applied before it is logged.
UpsertFile_StoreFirst(dim) ==
  /\ handle.storage = "file"
  /\ Stored(dim)
  /\ \/ file' = Logged(dim) /\ result' \in {"ok", "Persist"}
     \/ UNCHANGED file /\ result' = "Persist"

\* With a file: logged, stored, and taken by the index or not; or the append
\* fails and nothing is applied.
UpsertFile(dim) ==
  /\ handle.storage = "file"
  /\ \/ /\ file' = Logged(dim)
        /\ Stored(dim)
        /\ result' \in {"ok", "Persist"}
     \/ /\ file' \in {file, Logged(dim)}
        /\ result' = "Persist"
        /\ UNCHANGED handle

Upsert(dim) ==
  /\ handle # None
  /\ \/ dim # handle.dim /\ Refuse("Index")
     \/ /\ dim = handle.dim
        /\ UpsertMemory(dim) \/ UpsertFile(dim)
        /\ UNCHANGED cfg

\* A checkpoint writes the core's identity, or fails.
Checkpoint(next) ==
  \/ /\ handle.storage = "file"
     /\ result' = "Persist" /\ UNCHANGED file
     /\ handle' = next
  \/ /\ file' = IF handle.storage = "memory" THEN file ELSE Saved(handle.core)
     /\ result' = "ok"
     /\ handle' = next

Flush == handle # None /\ Checkpoint(handle) /\ UNCHANGED cfg

Close == handle # None /\ Checkpoint(None) /\ UNCHANGED cfg

OpeningNext ==
  \/ \E dim \in Dims, metric \in Metrics : NewConfig(dim, metric)
  \/ \E kind \in Kinds : Index(kind)
  \/ Cache
  \/ \E policy \in {"always", "never"} : Fsync(policy)
  \/ \E c \in Compressions : Compression(c)
  \/ OpenInMemoryWith \/ OpenWith
  \/ \E dim \in Dims : Upsert(dim)
  \/ Flush \/ Close

OpeningSpec == OpeningInit /\ [][OpeningNext]_openVars

-----------------------------------------------------------------------------
(***************************************************************************)
(* The handle and its core agree: dim and metric are the same on both      *)
(* sides, dim is not zero ("a zero-dim config cannot be smuggled in",      *)
(* require_nonzero_dim), and every row has the core's dimensionality,      *)
(* though check_dim looks only at the handle's, across sessions that ask   *)
(* for something else than the file holds.                                 *)
(***************************************************************************)
OpenHandleSound ==
  handle # None => /\ handle.dim # 0
                   /\ handle.dim = handle.core.dim
                   /\ handle.metric = handle.core.metric
                   /\ handle.core.rows \subseteq {handle.core.dim}

(***************************************************************************)
(* "The stored index kind is part of the database identity" (README.md):   *)
(* dim, metric and kind of a file never change, whatever later opens ask   *)
(* for and whatever their checkpoints write back.                          *)
(***************************************************************************)
IdentityStable ==
  [][file # None => /\ file'.dim = file.dim
                    /\ file'.metric = file.metric
                    /\ file'.kind = file.kind]_openVars

(***************************************************************************)
(* A file that exists passes every check of open_with for a caller that    *)
(* asks for its dim and metric: its rows have its dim and its index can be *)
(* built.  Records that an index crate itself refuses are not excluded.    *)
(***************************************************************************)
FileOpens ==
  file # None => /\ file.dim # 0
                 /\ file.rows \subseteq {file.dim}
                 /\ file.kind = "ivf_pq" => file.metric \in PqMetrics

(***************************************************************************)
(* What an open file-backed handle serves is what a reopen would find: the *)
(* file has the core's dim, metric and kind and every row of the core,     *)
(* after refused opens, failed appends and failed checkpoints and after    *)
(* upserts that returned an error with their row logged and stored.        *)
(***************************************************************************)
HandleServesFile ==
  handle # None /\ handle.storage = "file" =>
    /\ file.dim = handle.core.dim
    /\ file.metric = handle.core.metric
    /\ file.kind = handle.core.kind
    /\ handle.core.rows \subseteq file.rows

=============================================================================
