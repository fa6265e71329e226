--------------------------- MODULE OpeningProofs ---------------------------
(***************************************************************************)
(* Proofs about how a database gets and keeps its identity, for every set  *)
(* of dimensionalities, metrics, kinds and compressions and any number of  *)
(* sessions on one path.                                                   *)
(***************************************************************************)
EXTENDS Opening, TLAPS

\* The identity of a core or of a file.
SameIdentity(a, b) == a.dim = b.dim /\ a.metric = b.metric /\ a.kind = b.kind

\* A file: a record of its identity and its rows, that can be opened.
FileOK ==
  /\ file = [dim |-> file.dim, metric |-> file.metric, kind |-> file.kind,
             rows |-> file.rows]
  /\ file.dim # 0
  /\ file.rows \subseteq {file.dim}
  /\ Constructible(file.kind, file.metric)

\* An open handle: its shape, agreement with its core, and an index that can
\* be built.
HandleOK ==
  /\ handle = [dim |-> handle.dim, metric |-> handle.metric,
               storage |-> handle.storage, core |-> handle.core]
  /\ handle.core = [dim |-> handle.core.dim, metric |-> handle.core.metric,
                    kind |-> handle.core.kind, cache |-> handle.core.cache,
                    rows |-> handle.core.rows]
  /\ handle.dim # 0
  /\ handle.dim = handle.core.dim
  /\ handle.metric = handle.core.metric
  /\ handle.core.rows \subseteq {handle.core.dim}
  /\ Constructible(handle.core.kind, handle.core.metric)

\* The file has what the core serves.
Serves(f, core) == SameIdentity(f, core) /\ core.rows \subseteq f.rows

\* A handle that has a file.
Backed == handle # None /\ handle.storage # "memory"

\* The inductive invariant: the two are sound, and an open file-backed handle
\* serves the file's identity, so that its checkpoints write back what they
\* replace, and no row that the file lacks.
OpeningInv ==
  /\ handle # None => HandleOK
  /\ handle # None => handle.storage \in {"memory", "file"}
  /\ file # None \/ Backed => FileOK
  /\ Backed => Serves(file, handle.core)

-----------------------------------------------------------------------------
(***************************************************************************)
(* The inductive step, one lemma per action that touches the database.     *)
(***************************************************************************)

\* Refusals and the builder's steps change neither file nor handle.
LEMMA SameDatabase == OpeningInv /\ UNCHANGED <<file, handle>> => OpeningInv'
  BY DEF OpeningInv, HandleOK, FileOK, Backed, Serves, SameIdentity, Constructible

LEMMA RefuseStep == ASSUME NEW e, Refuse(e) PROVE UNCHANGED <<file, handle>>
  BY DEF Refuse

LEMMA OverrideStep ==
  ASSUME NEW f, NEW v, Override(f, v) PROVE UNCHANGED <<file, handle, result>>
  BY DEF Override

LEMMA InMemoryStep == OpeningInv /\ OpenInMemoryWith => OpeningInv'
<1> SUFFICES ASSUME OpeningInv, OpenInMemoryWith PROVE OpeningInv'
  OBVIOUS
<1>1. CASE Refuse("Config") \/ Refuse("Index")
  BY <1>1, RefuseStep, SameDatabase
<1>2. CASE /\ cfg.dim # 0 /\ Constructible(cfg.kind, cfg.metric)
           /\ Opened("memory", NewCore)
           /\ UNCHANGED file
  <2>1. HandleOK' /\ ~Backed' /\ handle'.storage = "memory"
    BY <1>2 DEF HandleOK, Backed, Opened, NewCore, Constructible
  <2> QED
    BY <1>2, <2>1 DEF OpeningInv, FileOK, Constructible
<1> QED
  BY <1>1, <1>2 DEF OpenInMemoryWith

\* A new file gets the identity its handle was asked for, and so does one
\* that a failed create has left.
LEMMA CreateStep ==
  OpeningInv /\ handle = None /\ cfg.dim # 0 /\ CreateFile => OpeningInv'
<1> SUFFICES ASSUME OpeningInv, handle = None, cfg.dim # 0, CreateFile
             PROVE  OpeningInv'
  OBVIOUS
<1>1. CASE Refuse("Persist") \/ Refuse("Index")
  BY <1>1, RefuseStep, SameDatabase
<1>2. CASE /\ Constructible(cfg.kind, cfg.metric)
           /\ Opened("file", NewCore)
           /\ file' = Saved(NewCore)
  <2>1. HandleOK'
    BY <1>2 DEF HandleOK, Opened, NewCore, Constructible
  <2>2. FileOK'
    BY <1>2 DEF FileOK, NewCore, Saved, Constructible
  <2>3. Serves(file, handle.core)' /\ handle'.storage = "file"
    BY <1>2 DEF Serves, SameIdentity, Opened, NewCore, Saved
  <2> QED
    BY <2>1, <2>2, <2>3 DEF OpeningInv
<1>3. CASE /\ Constructible(cfg.kind, cfg.metric)
           /\ file' \in {None, Saved(NewCore)}
           /\ UNCHANGED handle
  <2>1. handle' = None /\ ~Backed'
    BY <1>3 DEF Backed
  <2>2. file' # None => FileOK'
    BY <1>3 DEF FileOK, NewCore, Saved, Constructible
  <2> QED
    BY <2>1, <2>2 DEF OpeningInv
<1> QED
  BY <1>1, <1>2, <1>3 DEF CreateFile

\* A loaded handle has the dim and metric it was asked for because load
\* compared them with the file's, and the kind and the rows of the file.
LEMMA LoadStep == OpeningInv /\ cfg.dim # 0 /\ file # None /\ LoadFile => OpeningInv'
<1> SUFFICES ASSUME OpeningInv, cfg.dim # 0, file # None, LoadFile PROVE OpeningInv'
  OBVIOUS
<1>1. CASE Refuse("Persist") \/ Refuse("Config")
  BY <1>1, RefuseStep, SameDatabase
<1>2. CASE /\ <<file.dim, file.metric>> = <<cfg.dim, cfg.metric>>
           /\ Opened("file", LoadedCore)
           /\ UNCHANGED file
  <2>1. FileOK /\ FileOK'
    BY <1>2 DEF OpeningInv, FileOK, Constructible
  <2>2. HandleOK'
    BY <1>2, <2>1 DEF HandleOK, FileOK, Opened, LoadedCore, Constructible
  <2>3. Serves(file, handle.core)' /\ handle'.storage = "file"
    BY <1>2 DEF Serves, SameIdentity, Opened, LoadedCore
  <2> QED
    BY <2>1, <2>2, <2>3 DEF OpeningInv
<1> QED
  BY <1>1, <1>2 DEF LoadFile

\* check_dim looks at the handle's dim, and HandleOK makes it the core's.
LEMMA StoredFacts ==
  ASSUME NEW d, HandleOK, d = handle.dim, Stored(d)
  PROVE  /\ HandleOK'
         /\ handle'.storage = handle.storage
         /\ SameIdentity(handle'.core, handle.core)
         /\ handle'.core.rows = handle.core.rows \cup {d}
<1> DEFINE core == [handle.core EXCEPT !.rows = @ \cup {d}]
<1>1. handle' = [handle EXCEPT !.core = core]
  BY DEF HandleOK, Stored
<1>2. /\ core = [dim |-> core.dim, metric |-> core.metric, kind |-> core.kind,
                 cache |-> core.cache, rows |-> core.rows]
      /\ SameIdentity(core, handle.core)
      /\ core.rows = handle.core.rows \cup {d}
  BY DEF HandleOK, SameIdentity
<1>3. handle' = [dim |-> handle.dim, metric |-> handle.metric,
                 storage |-> handle.storage, core |-> core]
  BY <1>1 DEF HandleOK
<1> HIDE DEF core
<1>4. HandleOK'
  BY <1>2, <1>3 DEF HandleOK, SameIdentity, Constructible
<1> QED
  BY <1>2, <1>3, <1>4

LEMMA LoggedFacts ==
  ASSUME NEW d, FileOK, d = file.dim, file' = Logged(d)
  PROVE  FileOK' /\ SameIdentity(file', file) /\ file'.rows = file.rows \cup {d}
<1>1. file' = [dim |-> file.dim, metric |-> file.metric, kind |-> file.kind,
               rows |-> file.rows \cup {d}]
  BY DEF FileOK, Logged
<1> QED
  BY <1>1 DEF FileOK, SameIdentity, Constructible

LEMMA UpsertMemoryStep ==
  ASSUME NEW d, OpeningInv, handle # None, d = handle.dim, UpsertMemory(d)
  PROVE  OpeningInv'
<1>1. HandleOK' /\ handle'.storage = "memory"
  BY StoredFacts DEF OpeningInv, UpsertMemory
<1> QED
  BY <1>1 DEF OpeningInv, UpsertMemory, Backed, FileOK, Constructible

\* The row is in the file before it is in the core, and stays there when the
\* append or the index fails.
LEMMA UpsertFileStep ==
  ASSUME NEW d, OpeningInv, handle # None, d = handle.dim, UpsertFile(d)
  PROVE  OpeningInv' /\ (file' = file \/ SameIdentity(file', file))
<1>1. HandleOK /\ Backed /\ FileOK /\ Serves(file, handle.core)
  BY DEF OpeningInv, UpsertFile, Backed
<1>2. d = file.dim
  BY <1>1 DEF HandleOK, Serves, SameIdentity
<1>3. CASE file' = Logged(d) /\ Stored(d)
  <2>1. /\ HandleOK' /\ handle'.storage = "file"
        /\ SameIdentity(handle'.core, handle.core)
        /\ handle'.core.rows = handle.core.rows \cup {d}
    BY <1>1, <1>3, StoredFacts DEF UpsertFile
  <2>2. FileOK' /\ SameIdentity(file', file) /\ file'.rows = file.rows \cup {d}
    BY <1>1, <1>2, <1>3, LoggedFacts
  <2>3. Serves(file', handle'.core)
    BY <1>1, <2>1, <2>2 DEF Serves, SameIdentity
  <2> QED
    BY <2>1, <2>2, <2>3 DEF OpeningInv
<1>4. CASE UNCHANGED <<file, handle>>
  BY <1>4, SameDatabase
<1>5. CASE file' = Logged(d) /\ UNCHANGED handle
  <2>1. FileOK' /\ SameIdentity(file', file) /\ file'.rows = file.rows \cup {d}
    BY <1>1, <1>2, <1>5, LoggedFacts
  <2>2. Serves(file', handle'.core)
    BY <1>1, <1>5, <2>1 DEF Serves, SameIdentity
  <2>3. HandleOK' /\ handle'.storage = "file"
    BY <1>1, <1>5 DEF HandleOK, Constructible, UpsertFile
  <2> QED
    BY <2>1, <2>2, <2>3 DEF OpeningInv
<1> QED
  BY <1>3, <1>4, <1>5 DEF UpsertFile

LEMMA UpsertStep == ASSUME NEW d, OpeningInv, Upsert(d) PROVE OpeningInv'
  BY RefuseStep, SameDatabase, UpsertMemoryStep, UpsertFileStep DEF Upsert

\* A checkpoint writes the core's identity over the same identity.
LEMMA CheckpointStep ==
  ASSUME NEW next, next \in {handle, None}, OpeningInv, handle # None,
         Checkpoint(next)
  PROVE  /\ OpeningInv'
         /\ file # None => SameIdentity(file', file)
<1>1. HandleOK
  BY DEF OpeningInv
<1>2. handle' \in {handle, None}
  BY DEF Checkpoint
<1>3. handle' # None => handle' = handle /\ HandleOK'
  BY <1>1, <1>2 DEF HandleOK, Constructible
<1>4. CASE UNCHANGED file
  <2>1. Backed' => Backed
    BY <1>3 DEF Backed
  <2> QED
    BY <1>3, <1>4, <2>1 DEF OpeningInv, FileOK, Constructible, Serves,
                            SameIdentity, Backed
<1>5. CASE handle.storage # "memory" /\ file' = Saved(handle.core)
  <2>1. Backed /\ SameIdentity(file, handle.core)
    BY <1>5 DEF OpeningInv, Backed, Serves
  <2>2. FileOK' /\ Serves(file', handle.core)
    BY <1>1, <1>5 DEF FileOK, HandleOK, Saved, Serves, SameIdentity, Constructible
  <2>3. Backed' => Serves(file', handle'.core)
    BY <1>3, <2>2 DEF Backed
  <2> QED
    BY <1>3, <2>1, <2>2, <2>3 DEF OpeningInv, Serves, SameIdentity
<1> QED
  BY <1>4, <1>5 DEF Checkpoint

LEMMA OpeningStep == OpeningInv /\ [OpeningNext]_openVars => OpeningInv'
<1> SUFFICES ASSUME OpeningInv, [OpeningNext]_openVars PROVE OpeningInv'
  OBVIOUS
<1>1. CASE \E dim \in Dims, metric \in Metrics : NewConfig(dim, metric)
  BY <1>1, SameDatabase DEF NewConfig
<1>2. CASE \/ \E kind \in Kinds : Index(kind)
           \/ Cache
           \/ \E policy \in {"always", "never"} : Fsync(policy)
           \/ \E c \in Compressions : Compression(c)
  BY <1>2, OverrideStep, SameDatabase DEF Index, Cache, Fsync, Compression
<1>3. CASE OpenInMemoryWith
  BY <1>3, InMemoryStep
<1>4. CASE OpenWith
  BY <1>4, RefuseStep, SameDatabase, CreateStep, LoadStep DEF OpenWith
<1>5. CASE \E dim \in Dims : Upsert(dim)
  BY <1>5, UpsertStep
<1>6. CASE Flush \/ Close
  BY <1>6, CheckpointStep DEF Flush, Close
<1>7. CASE UNCHANGED openVars
  BY <1>7, SameDatabase DEF openVars
<1> QED
  BY <1>1, <1>2, <1>3, <1>4, <1>5, <1>6, <1>7 DEF OpeningNext

LEMMA OpeningInvariant == OpeningSpec => []OpeningInv
<1>1. OpeningInit => OpeningInv
  BY DEF OpeningInit, OpeningInv, Backed
<1> QED
  BY <1>1, OpeningStep, PTL DEF OpeningSpec

-----------------------------------------------------------------------------
(***************************************************************************)
(* Whatever sessions came before, an open handle agrees with its core on a *)
(* dim that is not zero and on the metric, and every row has that dim:     *)
(* require_nonzero_dim, the comparison in load and check_dim are enough.   *)
(***************************************************************************)
THEOREM HandlesAreSound == OpeningSpec => []OpenHandleSound
<1>1. OpeningInv => OpenHandleSound
  BY DEF OpeningInv, HandleOK, OpenHandleSound
<1> QED
  BY <1>1, OpeningInvariant, PTL

(***************************************************************************)
(* No call of open_with, upsert, flush or close, successful, refused or    *)
(* failed half-way, leaves a file that the checks of open_with would       *)
(* refuse to a caller that asks for its own dim and metric.                *)
(***************************************************************************)
THEOREM FilesCanBeOpened == OpeningSpec => []FileOpens
<1>1. OpeningInv => FileOpens
  BY DEF OpeningInv, FileOK, FileOpens, Constructible
<1> QED
  BY <1>1, OpeningInvariant, PTL

(***************************************************************************)
(* No step changes the dim, the metric or the kind of a file that exists,  *)
(* though a checkpoint writes all three anew from the core: the invariant  *)
(* says that the core took them from the file or gave them to it.          *)
(***************************************************************************)
THEOREM FileKeepsIdentity == OpeningSpec => IdentityStable
<1> DEFINE Kept == file # None => /\ file'.dim = file.dim
                                  /\ file'.metric = file.metric
                                  /\ file'.kind = file.kind
<1>1. OpeningInv /\ [OpeningNext]_openVars => [Kept]_openVars
  <2> SUFFICES ASSUME OpeningInv, OpeningNext, file # None
               PROVE  file' = file \/ SameIdentity(file', file)
    BY DEF SameIdentity
  <2>1. CASE \E dim \in Dims, metric \in Metrics : NewConfig(dim, metric)
    BY <2>1 DEF NewConfig
  <2>2. CASE \/ \E kind \in Kinds : Index(kind)
             \/ Cache
             \/ \E policy \in {"always", "never"} : Fsync(policy)
             \/ \E c \in Compressions : Compression(c)
    BY <2>2, OverrideStep DEF Index, Cache, Fsync, Compression
  <2>3. CASE OpenInMemoryWith
    BY <2>3, RefuseStep DEF OpenInMemoryWith
  <2>4. CASE OpenWith
    BY <2>4, RefuseStep DEF OpenWith, LoadFile
  <2>5. ASSUME NEW d \in Dims, Upsert(d) PROVE file' = file \/ SameIdentity(file', file)
    BY <2>5, RefuseStep, UpsertFileStep DEF Upsert, UpsertMemory
  <2>6. CASE Flush \/ Close
    BY <2>6, CheckpointStep DEF Flush, Close
  <2> QED
    BY <2>1, <2>2, <2>3, <2>4, <2>5, <2>6 DEF OpeningNext
<1> QED
  BY <1>1, OpeningInvariant, PTL DEF OpeningSpec, IdentityStable

(***************************************************************************)
(* Whatever failed, whoever asked for what and however many sessions came  *)
(* before, a file-backed handle serves the identity of its file and no row *)
(* that the file lacks: an upsert logs before it stores, and a checkpoint  *)
(* writes what the core has.                                               *)
(***************************************************************************)
THEOREM HandlesServeTheirFiles == OpeningSpec => []HandleServesFile
<1>1. OpeningInv => HandleServesFile
  BY DEF OpeningInv, Backed, Serves, SameIdentity, HandleServesFile
<1> QED
  BY <1>1, OpeningInvariant, PTL

=============================================================================
