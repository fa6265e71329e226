------------------------------ MODULE MCCodec ------------------------------
(***************************************************************************)
(* Codec for TLC: databases of up to two rows that between them have every *)
(* index kind, id form, metadata form and value type, and rows at and over *)
(* the limit of each length field.                                         *)
(***************************************************************************)
EXTENDS Codec

Meta(k, v) == Some([x \in {k} |-> v])

Metas == {None, Some([k \in {} |-> <<>>]),
          Meta(<<>>, [t |-> "null"]),
          Meta(<<1>>, [t |-> "int", n |-> 40]),
          Meta(<<2, 1>>, [t |-> "string", s |-> <<2, 1>>]),
          Some([k \in {<<1>>, <<2>>} |->
                  IF k = <<1>> THEN [t |-> "bool", n |-> 1]
                               ELSE [t |-> "float", n |-> 7]])}

RowIds == {[t |-> "u64", n |-> 8], [t |-> "bytes", s |-> <<1>>],
           [t |-> "bytes", s |-> <<5, 0>>]}

IndexKinds ==
  {[t |-> "flat"], [t |-> "hnsw", sizes |-> <<1, 2, 3, 4>>, seed |-> 50]}
  \cup {[t |-> "ivf", sizes |-> <<6, 2, 9>>, use_pq |-> sub.some,
         pq_subvectors |-> sub, pq_refine_factor |-> 4, seed |-> 35] :
           sub \in {None, Some(1)}}

Database(kind, dim, metric, rows) ==
  Restored([kind |-> kind, dim |-> dim, metric |-> metric, rows |-> rows])

OneRow(dim) == {<<Row(id, [vector |-> [i \in 1 .. dim |-> 2 * i], meta |-> meta])>> :
                  id \in RowIds, meta \in Metas}
TwoRows == {<<Row(id1, [vector |-> <<3>>, meta |-> meta1]),
              Row(id2, [vector |-> <<35>>, meta |-> meta2])>> :
                id1 \in {[t |-> "u64", n |-> 8]},
                id2 \in RowIds \ {[t |-> "u64", n |-> 8]},
                meta1 \in Metas, meta2 \in Metas}

\* Ids, keys and strings of the longest length that fits, and of one more.
Long == {[i \in 1 .. n |-> 1] : n \in {Base ^ W32 - 1, Base ^ W32}}

\* For Base ^ W32 = 36: metadata maps of 35 entries, which fit, and of 36.
Keys == [1 .. 2 -> 0 .. 2] \cup [1 .. 3 -> 0 .. 2]
BigMaps == {[k \in Keys \ left |-> [t |-> "null"]] : left \in {{}, {<<0, 0>>}}}

LongMetas == {Some(map) : map \in BigMaps}
             \cup {Meta(s, [t |-> "null"]) : s \in Long}
             \cup {Meta(<<1>>, [t |-> "string", s |-> s]) : s \in Long}
LongRows ==
  {<<Row([t |-> "bytes", s |-> s], [vector |-> <<2>>, meta |-> None])>> : s \in Long}
  \cup {<<Row([t |-> "u64", n |-> 8], [vector |-> <<2>>, meta |-> meta])>> :
           meta \in LongMetas}

\* A metric of a later iqdb-types, which this codec has no tag for.
NewMetric == "jaccard"

MCDatabases ==
  {Database([t |-> "flat"], 1, "cosine", rows) : rows \in LongRows}
  \cup {Database([t |-> "flat"], 1, NewMetric, <<>>)}
  \cup {Database(kind, 2, Metrics[i], <<>>) : kind \in IndexKinds, i \in 1 .. 5}
  \cup {Database([t |-> "flat"], 2, "euclidean", rows) : rows \in OneRow(2)}
  \cup {Database([t |-> "flat"], 1, "hamming", rows) : rows \in TwoRows}

=============================================================================
