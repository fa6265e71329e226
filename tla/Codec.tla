------------------------------- MODULE Codec -------------------------------
(***************************************************************************)
(* The payload codec of src/engine/codec.rs, with the row store that       *)
(* load_from builds from what it decodes: a database is saved, its payload *)
(* may be cut short or have a byte altered, and it is loaded again.        *)
(*                                                                         *)
(* The codec is bytes, so bytes are modelled: a payload is a sequence of   *)
(* digits below Base, integers are little-endian, an u8 is one digit, an   *)
(* u32 or f32 W32 digits, an u64, i64 or f64 W64 digits.  Base and the     *)
(* widths are scaled down, which keeps every way of running out of input   *)
(* and of reading with the wrong frame.  A number stands for the bits of a *)
(* float.  Bytes below Base \div 2 stand for the valid UTF-8.              *)
(*                                                                         *)
(* An id is [t: "u64", n] or [t: "bytes", s]; a metadata value has a type  *)
(* t and a number n, a string s or neither; metadata is an option of a map *)
(* from keys to values.                                                    *)
(***************************************************************************)
EXTENDS RowStoreOps, SequencesExt

CONSTANTS Base, W32, W64,
          Databases,   \* the databases that are saved
          MaxDamages   \* bound: how often a payload is damaged

ASSUME CodecAssumption == /\ Base \in 6 .. 255
                          /\ 1 < W32 /\ W32 < W64
                          /\ MaxDamages \in Nat

VARIABLES db,       \* [kind, dim, metric, store]
          phase,    \* "open", "saved" or "loaded"
          payload,  \* the bytes in the snapshot frame
          damage,   \* what happened to them: "none", "cut" or "altered"
          damages,  \* how many payloads have been damaged
          loaded    \* the outcome of decode

codecVars == <<db, phase, payload, damage, damages, loaded>>

-----------------------------------------------------------------------------
(* Writing. *)

Magic == <<1, 2, 3, 4>>
Version == 1

\* to_le_bytes
Digits(w, n) == [i \in 1 .. w |-> (n \div Base ^ (i - 1)) % Base]
U8(n) == Digits(1, n)
U32(n) == Digits(W32, n)
U64(n) == Digits(W64, n)
Flag(b) == U8(IF b THEN 1 ELSE 0)

\* The concatenation of Put(x) for the elements x of a sequence.
Each(Put(_), xs) == FlattenSeq([i \in 1 .. Len(xs) |-> Put(xs[i])])

None == [some |-> FALSE]
Some(x) == [some |-> TRUE, val |-> x]

EncodeKind(kind) ==
  CASE kind.t = "flat" -> U8(0)
    [] kind.t = "hnsw" -> U8(1) \o Each(U64, kind.sizes) \o U64(kind.seed)
    [] kind.t = "ivf" ->
         U8(2) \o Each(U64, kind.sizes) \o Flag(kind.use_pq)
         \o (IF kind.pq_subvectors.some THEN U8(1) \o U64(kind.pq_subvectors.val)
                                        ELSE U8(0))
         \o U32(kind.pq_refine_factor) \o U64(kind.seed)

EncodeStr(s) == U32(Len(s)) \o s

EncodeId(id) == CASE id.t = "u64" -> U8(0) \o U64(id.n)
                  [] id.t = "bytes" -> U8(1) \o EncodeStr(id.s)

EncodeValue(v) == CASE v.t = "string" -> U8(0) \o EncodeStr(v.s)
                    [] v.t = "int" -> U8(1) \o U64(v.n)
                    [] v.t = "float" -> U8(2) \o U64(v.n)
                    [] v.t = "bool" -> U8(3) \o U8(v.n)
                    [] v.t = "null" -> U8(4)

\* The entries of a metadata map, in the order its iterator gives.
EncodeMeta(meta) ==
  IF ~meta.some THEN U8(0)
  ELSE LET keys == FoldSet(LAMBDA k, ks : Append(ks, k), <<>>, DOMAIN meta.val)
       IN  U8(1) \o U32(Len(keys))
           \o Each(LAMBDA k : EncodeStr(k) \o EncodeValue(meta.val[k]), keys)

EncodeRow(row) ==
  EncodeId(row.id) \o Each(U32, row.val.vector) \o EncodeMeta(row.val.meta)

Metrics == <<"cosine", "dot_product", "euclidean", "manhattan", "hamming">>
MetricTag(metric) == CHOOSE i \in 0 .. 4 : Metrics[i + 1] = metric

\* DistanceMetric is non-exhaustive: a metric may have no tag.
HasTag(metric) == metric \in Range(Metrics)

\* A slip: a length is cast to its integer, not converted (`as u32`).
Encodable_Cast(d) == HasTag(d.metric)

\* encode fails if the metric has no tag or a length does not fit in its
\* integer: to_u32 for the bytes of an id, of a key and of a string and for the
\* entries of a metadata map, to_u64 for the rest.
Encodable(d) ==
  LET fits(n) == n < Base ^ W32
  IN  /\ HasTag(d.metric)
      /\ d.dim < Base ^ W64 /\ StoreLen(d.store) < Base ^ W64
      /\ \A p \in 1 .. StoreLen(d.store) :
           LET row  == d.store.rows[p]
               meta == row.val.meta
           IN  /\ row.id.t = "bytes" => fits(Len(row.id.s))
               /\ meta.some =>
                    /\ fits(Cardinality(DOMAIN meta.val))
                    /\ \A k \in DOMAIN meta.val :
                         /\ fits(Len(k))
                         /\ meta.val[k].t = "string" => fits(Len(meta.val[k].s))

Encode(d) ==
  Magic \o U32(Version) \o EncodeKind(d.kind) \o U64(d.dim)
  \o U8(MetricTag(d.metric)) \o U64(StoreLen(d.store))
  \o Each(EncodeRow, d.store.rows)

-----------------------------------------------------------------------------
(* Reading: a reader takes the input and gives a value and the rest of the *)
(* input, or fails.  Then is the `?` between two reads.                    *)

Fail == [ok |-> FALSE]
Done(val, rest) == [ok |-> TRUE, val |-> val, rest |-> rest]

Then(result, Continue(_, _)) ==
  IF result.ok THEN Continue(result.val, result.rest) ELSE Fail

\* A slip in read_vec: what was read is not compared with the length.
ReadVec_Short(n, in) ==
  LET m == IF n < Len(in) THEN n ELSE Len(in)
  IN  Done(SubSeq(in, 1, m), SubSeq(in, m + 1, Len(in)))

\* read_exact
ReadExact(n, in) == IF Len(in) < n THEN Fail
                    ELSE Done(SubSeq(in, 1, n), SubSeq(in, n + 1, Len(in)))

\* read_vec: as many bytes as a length field says, refused if there are fewer
ReadVec(n, in) == ReadExact(n, in)

Number(digits) == FoldRight(LAMBDA d, n : d + Base * n, digits, 0)

ReadInt(w, in) == Then(ReadExact(w, in), LAMBDA b, rest : Done(Number(b), rest))
ReadU8(in) == ReadInt(1, in)
ReadU32(in) == ReadInt(W32, in)
ReadU64(in) == ReadInt(W64, in)

\* `for _ in 0..n`, collecting what Item reads; an item takes a byte or more,
\* so the loop fails before its end when there are fewer bytes than items
Many(Item(_), n, in) ==
  LET upTo[i \in 0 .. n] ==
        IF i = 0 THEN Done(<<>>, in)
        ELSE Then(upTo[i - 1], LAMBDA xs, rest :
               Then(Item(rest), LAMBDA x, rest2 : Done(Append(xs, x), rest2)))
  IN  IF n > Len(in) THEN Fail ELSE upTo[n]

\* A slip in decode_kind: the seed is read before the sizes.
DecodeHnsw_SeedFirst(in) ==
  Then(ReadU64(in), LAMBDA seed, r1 :
    Then(Many(ReadU64, 4, r1), LAMBDA sizes, r2 :
      Done([t |-> "hnsw", sizes |-> sizes, seed |-> seed], r2)))

DecodeHnsw(in) ==
  Then(Many(ReadU64, 4, in), LAMBDA sizes, r1 :
    Then(ReadU64(r1), LAMBDA seed, r2 :
      Done([t |-> "hnsw", sizes |-> sizes, seed |-> seed], r2)))

DecodeSubvectors(in) ==
  Then(ReadU8(in), LAMBDA tag, r1 :
    CASE tag = 0 -> Done(None, r1)
      [] tag = 1 -> Then(ReadU64(r1), LAMBDA m, r2 : Done(Some(m), r2))
      [] OTHER -> Fail)

DecodeIvf(in) ==
  Then(Many(ReadU64, 3, in), LAMBDA sizes, r1 :
    Then(ReadU8(r1), LAMBDA pq, r2 :
      Then(DecodeSubvectors(r2), LAMBDA sub, r3 :
        Then(ReadU32(r3), LAMBDA refine, r4 :
          Then(ReadU64(r4), LAMBDA seed, r5 :
            Done([t |-> "ivf", sizes |-> sizes, use_pq |-> pq # 0,
                  pq_subvectors |-> sub, pq_refine_factor |-> refine,
                  seed |-> seed], r5))))))

DecodeKind(in) ==
  Then(ReadU8(in), LAMBDA tag, rest :
    CASE tag = 0 -> Done([t |-> "flat"], rest)
      [] tag = 1 -> DecodeHnsw(rest)
      [] tag = 2 -> DecodeIvf(rest)
      [] OTHER -> Fail)

\* A slip in decode_id: an empty key is let through.
DecodeBytes_Empty(in) ==
  Then(ReadU32(in), LAMBDA len, r1 :
    Then(ReadVec(len, r1), LAMBDA s, r2 : Done([t |-> "bytes", s |-> s], r2)))

DecodeBytes(in) ==
  Then(ReadU32(in), LAMBDA len, r1 :
    IF len = 0 THEN Fail
    ELSE Then(ReadVec(len, r1), LAMBDA s, r2 : Done([t |-> "bytes", s |-> s], r2)))

DecodeId(in) ==
  Then(ReadU8(in), LAMBDA tag, r1 :
    CASE tag = 0 -> Then(ReadU64(r1), LAMBDA n, r2 : Done([t |-> "u64", n |-> n], r2))
      [] tag = 1 -> DecodeBytes(r1)
      [] OTHER -> Fail)

ValidUtf8(s) == \A i \in 1 .. Len(s) : s[i] < Base \div 2

DecodeStr(in) ==
  Then(ReadU32(in), LAMBDA len, r1 :
    Then(ReadVec(len, r1), LAMBDA s, r2 : IF ValidUtf8(s) THEN Done(s, r2) ELSE Fail))

DecodeValue(in) ==
  Then(ReadU8(in), LAMBDA tag, r1 :
    CASE tag = 0 -> Then(DecodeStr(r1), LAMBDA s, r2 : Done([t |-> "string", s |-> s], r2))
      [] tag = 1 -> Then(ReadU64(r1), LAMBDA n, r2 : Done([t |-> "int", n |-> n], r2))
      [] tag = 2 -> Then(ReadU64(r1), LAMBDA n, r2 : Done([t |-> "float", n |-> n], r2))
      [] tag = 3 -> Then(ReadU8(r1), LAMBDA n, r2 :
                      Done([t |-> "bool", n |-> IF n # 0 THEN 1 ELSE 0], r2))
      [] tag = 4 -> Done([t |-> "null"], r1)
      [] OTHER -> Fail)

DecodeEntry(in) ==
  Then(DecodeStr(in), LAMBDA k, r1 :
    Then(DecodeValue(r1), LAMBDA v, r2 : Done(<<k, v>>, r2)))

\* The entries are collected into a map, the later of two with one key.
DecodeMeta(in) ==
  Then(ReadU8(in), LAMBDA tag, r1 :
    CASE tag = 0 -> Done(None, r1)
      [] tag = 1 ->
           Then(ReadU32(r1), LAMBDA count, r2 :
             Then(Many(DecodeEntry, count, r2), LAMBDA entries, r3 :
               Done(Some(FoldLeft(LAMBDA m, e : MapInsert(m, e[1], e[2]),
                                  [k \in {} |-> <<>>], entries)), r3)))
      [] OTHER -> Fail)

DecodeRow(dim, in) ==
  Then(DecodeId(in), LAMBDA id, r1 :
    Then(Many(ReadU32, dim, r1), LAMBDA vector, r2 :
      Then(DecodeMeta(r2), LAMBDA meta, r3 :
        Done(Row(id, [vector |-> vector, meta |-> meta]), r3))))

DecodeHeader(in) ==
  Then(ReadExact(4, in), LAMBDA magic, r1 :
    IF magic # Magic THEN Fail
    ELSE Then(ReadU32(r1), LAMBDA v, r2 : IF v # Version THEN Fail ELSE Done(v, r2)))

DecodeMetric(in) ==
  Then(ReadU8(in), LAMBDA tag, rest :
    IF tag > 4 THEN Fail ELSE Done(Metrics[tag + 1], rest))

\* What follows the last row is not looked at.
Decode(in) ==
  Then(DecodeHeader(in), LAMBDA v, r1 :
    Then(DecodeKind(r1), LAMBDA kind, r2 :
      Then(ReadU64(r2), LAMBDA dim, r3 :
        Then(DecodeMetric(r3), LAMBDA metric, r4 :
          Then(ReadU64(r4), LAMBDA n, r5 :
            Then(Many(LAMBDA r : DecodeRow(dim, r), n, r5), LAMBDA rows, r6 :
              Done([kind |-> kind, dim |-> dim, metric |-> metric, rows |-> rows],
                   r6)))))))

\* load_from: the rows are upserted into a new store in the order read.
Restored(d) ==
  [kind |-> d.kind, dim |-> d.dim, metric |-> d.metric,
   store |-> FoldLeft(LAMBDA st, row : StoreUpsert(st, row.id, row.val),
                      EmptyStore, d.rows)]

-----------------------------------------------------------------------------
CodecInit == /\ db \in Databases
             /\ phase = "open"
             /\ payload = <<>> /\ damage = "none" /\ damages = 0
             /\ loaded = Fail

\* save_to
Save == /\ phase = "open" /\ Encodable(db)
        /\ phase' = "saved"
        /\ payload' = Encode(db) /\ damage' = "none"
        /\ UNCHANGED <<db, damages, loaded>>

\* save_to fails: the checkpoint returns the error, the old snapshot stays.
SaveRefused == phase = "open" /\ ~Encodable(db) /\ UNCHANGED codecVars

Damaged(how, bytes) ==
  /\ phase = "saved" /\ damage = "none" /\ damages < MaxDamages
  /\ payload' = bytes
  /\ damage' = how /\ damages' = damages + 1
  /\ UNCHANGED <<db, phase, loaded>>

CutShort == \E n \in 0 .. Len(payload) - 1 : Damaged("cut", SubSeq(payload, 1, n))

Altered == \E i \in 1 .. Len(payload), b \in 0 .. Base - 1 :
             /\ b # payload[i]
             /\ Damaged("altered", [payload EXCEPT ![i] = b])

\* load_from
Load == /\ phase = "saved"
        /\ phase' = "loaded"
        /\ loaded' = Decode(payload)
        /\ UNCHANGED <<db, payload, damage, damages>>

\* The database goes on with what was loaded.  If decode refused it, or the
\* index crates refuse the decoded kind and dimension, it goes on as it was.
Resume == /\ phase = "loaded"
          /\ phase' = "open"
          /\ \/ loaded.ok /\ db' = Restored(loaded.val)
             \/ damage # "none" /\ UNCHANGED db
          /\ payload' = <<>> /\ damage' = "none" /\ loaded' = Fail
          /\ UNCHANGED damages

CodecNext == Save \/ SaveRefused \/ CutShort \/ Altered \/ Load \/ Resume

CodecSpec == CodecInit /\ [][CodecNext]_codecVars

-----------------------------------------------------------------------------
(***************************************************************************)
(* "Read a payload produced by encode" (decode): an undamaged payload is   *)
(* read to its last byte and gives back the database that was saved, the   *)
(* positions of its rows included, up to the longest key, string and       *)
(* metadata map that a length field can count; what is longer, or has a    *)
(* metric without a tag, is not saved at all.  The saved database may      *)
(* itself have been loaded from an altered payload that decode accepted.   *)
(* An empty Bytes key, which encode would write and decode refuses, is not *)
(* among the ids: VectorId promises that there is none.                    *)
(***************************************************************************)
RoundTrip == phase = "loaded" /\ damage = "none" =>
               loaded.ok /\ Restored(loaded.val) = db /\ loaded.rest = <<>>

(***************************************************************************)
(* "Every proper prefix must decode to an error" (the test of truncation   *)
(* at every offset, here for every database): no cut is taken for the end  *)
(* of a shorter database.                                                  *)
(***************************************************************************)
PrefixRejected == phase = "loaded" /\ damage = "cut" => ~loaded.ok

(***************************************************************************)
(* A payload with an altered byte is refused or decodes to a well-formed   *)
(* database, one the rest of the engine may rely on: no empty key, vectors *)
(* of the database's dimension, strings that are UTF-8, a store whose      *)
(* positions match its rows.                                               *)
(***************************************************************************)
AcceptedIsWellFormed ==
  phase = "loaded" /\ loaded.ok =>
    LET d == Restored(loaded.val)
    IN  /\ StoreSound(d.store)
        /\ \A p \in 1 .. Len(d.store.rows) :
             LET row == d.store.rows[p]
             IN  /\ row.id.t = "bytes" => row.id.s # <<>>
                 /\ Len(row.val.vector) = d.dim
                 /\ row.val.meta.some =>
                      \A k \in DOMAIN row.val.meta.val :
                        LET v == row.val.meta.val[k]
                        IN  ValidUtf8(k) /\ (v.t = "string" => ValidUtf8(v.s))

=============================================================================
