--------------------------- MODULE RowStoreProofs ---------------------------
(***************************************************************************)
(* Proofs about the row store: for every set of ids and values, the        *)
(* position map and the rows always agree, and the store implements the    *)
(* abstract map.                                                           *)
(***************************************************************************)
EXTENDS RowStore, RowStoreOpsProofs

Inv == TypeOK /\ IndexMatchesRows

(***************************************************************************)
(* At every moment of every run the position map and the rows agree: the   *)
(* direct indexing of get, upsert and remove is always in bounds and       *)
(* always reaches the row of the id asked for.                             *)
(***************************************************************************)
THEOREM StoreAlwaysSound == Spec => [](TypeOK /\ IndexMatchesRows)
<1>1. Init => Inv
  <2> SUFFICES ASSUME Init PROVE Inv
    OBVIOUS
  <2>1. store.rows = <<>> /\ store.index = [x \in {} |-> 0]
    BY DEF Init, EmptyStore
  <2>2. store = [rows |-> store.rows, index |-> store.index]
    BY DEF Init, EmptyStore
  <2>3. Len(store.rows) = 0 /\ store.rows \in Seq([id : Ids, val : Vals])
    BY <2>1
  <2>4. store.index \in [{} -> Nat] /\ DOMAIN store.index = {}
    BY <2>1
  <2>5. StoreType(store, Ids, Vals)
    BY <2>2, <2>3, <2>4 DEF StoreType
  <2>6. StoreSound(store)
    BY <2>3, <2>4 DEF StoreSound
  <2> QED
    BY <2>5, <2>6 DEF Inv, TypeOK, IndexMatchesRows
<1>2. Inv /\ [Next]_vars => Inv'
  <2> SUFFICES ASSUME Inv, [Next]_vars
               PROVE  StoreType(store', Ids, Vals) /\ StoreSound(store')
    BY DEF Inv, TypeOK, IndexMatchesRows
  <2> USE DEF Inv, TypeOK, IndexMatchesRows
  <2>1. ASSUME NEW id \in Ids, NEW val \in Vals, Upsert(id, val)
        PROVE  StoreType(store', Ids, Vals) /\ StoreSound(store')
    BY <2>1, UpsertSound DEF Upsert
  <2>2. ASSUME NEW id \in Ids, Remove(id)
        PROVE  StoreType(store', Ids, Vals) /\ StoreSound(store')
    BY <2>2, RemoveSound DEF Remove
  <2>3. ASSUME NEW id \in Ids, Get(id)
        PROVE  StoreType(store', Ids, Vals) /\ StoreSound(store')
    BY <2>3 DEF Get
  <2>4. CASE Size
    BY <2>4 DEF Size
  <2>5. CASE UNCHANGED vars
    BY <2>5 DEF vars
  <2> QED
    BY <2>1, <2>2, <2>3, <2>4, <2>5 DEF Next
<1> QED
  BY <1>1, <1>2, PTL DEF Spec, Inv

(***************************************************************************)
(* In particular the position map and the rows name each other: no remove, *)
(* whichever row its swap moves, leaves an entry that points elsewhere.    *)
(***************************************************************************)
THEOREM PositionsAlwaysMatch == Spec => []IndexMatchesRows
  BY StoreAlwaysSound, PTL

(***************************************************************************)
(* The fields always have their types: rows of known ids and values, and   *)
(* positions for known ids only.                                           *)
(***************************************************************************)
THEOREM StoreAlwaysTyped == Spec => []TypeOK
  BY StoreAlwaysSound, PTL

(***************************************************************************)
(* An upsert moves no row: a replacement stays where it stands because its *)
(* entry points at the row of its own id, and a new row goes to the end.   *)
(***************************************************************************)
THEOREM UpsertsKeepOrder == Spec => UpsertKeepsOrder
<1> DEFINE Kept == ret'.op = "upsert" =>
             /\ Len(store'.rows) >= Len(store.rows)
             /\ \A p \in 1 .. Len(store.rows) : store'.rows[p].id = store.rows[p].id
<1>1. TypeOK /\ IndexMatchesRows /\ [Next]_vars => [Kept]_vars
  <2> SUFFICES ASSUME TypeOK, IndexMatchesRows, Next, ret'.op = "upsert" PROVE Kept
    OBVIOUS
  <2>1. PICK id \in Ids, val \in Vals : Upsert(id, val)
    BY DEF Next, Remove, Get, Size
  <2>2. store' = StoreUpsert(store, id, val)
    BY <2>1 DEF Upsert
  <2>3. /\ store.rows \in Seq([id : Ids, val : Vals])
        /\ store = [rows |-> store.rows, index |-> store.index]
    BY DEF TypeOK, StoreType
  <2>4. Row(id, val) \in [id : Ids, val : Vals] /\ Row(id, val).id = id
    BY DEF Row
  <2>5. CASE StoreContains(store, id)
    <3>1. store'.rows = [store.rows EXCEPT ![store.index[id]] = Row(id, val)]
      BY <2>2, <2>3, <2>5 DEF StoreUpsert
    <3>2. store.rows[store.index[id]].id = id
      BY <2>5 DEF IndexMatchesRows, StoreSound, StoreContains
    <3> QED
      BY <2>3, <2>4, <3>1, <3>2
  <2>6. CASE ~StoreContains(store, id)
    <3>1. store'.rows = Append(store.rows, Row(id, val))
      BY <2>2, <2>6 DEF StoreUpsert
    <3> QED
      BY <2>3, <2>4, <3>1
  <2> QED
    BY <2>5, <2>6
<1> QED
  BY <1>1, StoreAlwaysSound, PTL DEF Spec, UpsertKeepsOrder

(***************************************************************************)
(* The store implements the abstract map, results included: a scan of the  *)
(* rows and every answer given through the position map describe one map   *)
(* that changes only as upsert and remove say.                             *)
(***************************************************************************)
THEOREM StoreImplementsMap == Spec => ImplementsMap
<1> DEFINE m == RowsMap(store.rows, Ids, Absent)
<1>1. Init => Map!Init
  BY DEF Init, EmptyStore, Map!Init, RowsMap
<1>2. Inv /\ [Next]_vars => [Map!Next]_(Map!mapVars)
  <2> SUFFICES ASSUME Inv, [Next]_vars
               PROVE  [Map!Next]_(Map!mapVars)
    OBVIOUS
  <2>1. StoreType(store, Ids, Vals) /\ StoreSound(store)
    BY DEF Inv, TypeOK, IndexMatchesRows
  <2>2. /\ m = [x \in Ids |-> IF x \in DOMAIN store.index
                              THEN StoreGet(store, x).val ELSE Absent]
        /\ \A x \in DOMAIN store.index : StoreGet(store, x).val # Absent
    <3>1. \A p \in 1 .. Len(store.rows) : store.rows[p] \in [id : Ids, val : Vals]
      BY <2>1, ElementOfSeq DEF StoreType
    <3>2. \A x \in DOMAIN store.index : StoreGet(store, x).val \in Vals
      BY <3>1, <2>1 DEF StoreGet, StoreSound
    <3> QED
      BY <3>2, <2>1, ScanIsLookup, StoreAssumption
  <2>3. Map!Stored = {x \in Ids : m[x] # Absent}
    BY DEF Map!Stored
  <2>4. \A x \in Ids : x \in Map!Stored <=> StoreContains(store, x)
    BY <2>2, <2>3 DEF StoreContains
  <2>5. ASSUME NEW id \in Ids, NEW val \in Vals, Upsert(id, val)
        PROVE  Map!Put(id, val)
    <3>1. m' = [m EXCEPT ![id] = val]
      <4>1. RowsMap(StoreUpsert(store, id, val).rows, Ids, Absent)
              = [RowsMap(store.rows, Ids, Absent) EXCEPT ![id] = val]
        BY <2>1, UpsertMap
      <4> QED
        BY <4>1, <2>5 DEF Upsert
    <3> QED
      BY <3>1, <2>4, <2>5 DEF Map!Put, Upsert
  <2>6. ASSUME NEW id \in Ids, Remove(id)
        PROVE  Map!Del(id)
    <3>1. m' = [m EXCEPT ![id] = Absent]
      BY <2>1, <2>6, RemoveMap DEF Remove
    <3>2. (id \in Map!Stored) = StoreContains(store, id)
      BY <2>4 DEF StoreContains
    <3> QED
      BY <3>1, <3>2, <2>6 DEF Map!Del, Remove
  <2>7. ASSUME NEW id \in Ids, Get(id)
        PROVE  Map!Get(id)
    BY <2>2, <2>7 DEF Map!Get, Get, StoreContains
  <2>8. CASE Size
    <3>1. Cardinality(Map!Stored) = StoreLen(store)
      BY <2>1, <2>3, LenCountsIds, StoreAssumption DEF StoreLen
    <3>2. Map!Cardinality(Map!Stored) = Cardinality(Map!Stored)
      BY DEF Map!Cardinality, Cardinality
    <3>3. Map!Size
      BY <3>1, <3>2, <2>8 DEF Map!Size, Size
    <3> QED
      BY <3>3 DEF Map!Next
  <2>9. CASE UNCHANGED vars
    BY <2>9 DEF vars, Map!mapVars
  <2> QED
    BY <2>5, <2>6, <2>7, <2>8, <2>9 DEF Next, Map!Next
<1>3. Spec => []Inv
  BY StoreAlwaysSound DEF Inv
<1> QED
  BY <1>1, <1>2, <1>3, PTL DEF Spec, ImplementsMap, Map!Spec

=============================================================================
