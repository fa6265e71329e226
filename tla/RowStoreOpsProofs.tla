------------------------- MODULE RowStoreOpsProofs -------------------------
(***************************************************************************)
(* Lemmas about the row store's operators, for every set of ids I and of   *)
(* values V: upsert and remove keep the position map and the rows in       *)
(* agreement, and what they do to the map the rows denote.                 *)
(***************************************************************************)
EXTENDS RowStoreOps, FiniteSetTheorems, SequenceTheorems, TLAPS

(***************************************************************************)
(* swap_remove returns a sequence one shorter, whose slots are the old     *)
(* ones but for the hole, which holds the old last element.                *)
(***************************************************************************)
LEMMA SwapRemoveProperties ==
  ASSUME NEW S, NEW s \in Seq(S), NEW p \in 1 .. Len(s)
  PROVE  /\ SwapRemove(s, p) \in Seq(S)
         /\ Len(SwapRemove(s, p)) = Len(s) - 1
         /\ \A i \in 1 .. Len(s) - 1 :
              SwapRemove(s, p)[i] = IF i = p THEN s[Len(s)] ELSE s[i]
<1>1. /\ Len(s) \in Nat \ {0}
      /\ \A i \in 1 .. Len(s) : s[i] \in S
  BY LenProperties, ElementOfSeq
<1>2. SwapRemove(s, p) \in [1 .. Len(s) - 1 -> S]
  BY <1>1 DEF SwapRemove
<1>3. Len(s) - 1 \in Nat
  BY <1>1
<1>4. /\ SwapRemove(s, p) \in Seq(S)
      /\ Len(SwapRemove(s, p)) = Len(s) - 1
  BY <1>2, <1>3
<1> QED
  BY <1>4 DEF SwapRemove

(***************************************************************************)
(* upsert keeps a well-typed, sound store well typed and sound.            *)
(***************************************************************************)
LEMMA UpsertSound ==
  ASSUME NEW I, NEW V, NEW st, NEW id \in I, NEW val \in V,
         StoreType(st, I, V), StoreSound(st)
  PROVE  /\ StoreType(StoreUpsert(st, id, val), I, V)
         /\ StoreSound(StoreUpsert(st, id, val))
<1> DEFINE rows == st.rows
           new  == StoreUpsert(st, id, val)
<1>1. /\ rows \in Seq([id : I, val : V])
      /\ Len(rows) \in Nat
      /\ st.index \in [DOMAIN st.index -> Nat]
      /\ DOMAIN st.index \subseteq I
  BY LenProperties DEF StoreType
<1>2. Row(id, val) \in [id : I, val : V] /\ Row(id, val).id = id
  BY DEF Row
<1>3. CASE StoreContains(st, id)
  <2> DEFINE pos == st.index[id]
  <2>1. pos \in 1 .. Len(rows)
    BY <1>3 DEF StoreSound, StoreContains
  <2>2. /\ new.rows = [rows EXCEPT ![pos] = Row(id, val)]
        /\ new.index = st.index
        /\ new = [rows |-> new.rows, index |-> new.index]
    BY <1>3, <1>1 DEF StoreUpsert, StoreType
  <2>3. /\ new.rows \in Seq([id : I, val : V])
        /\ Len(new.rows) = Len(rows)
        /\ \A i \in 1 .. Len(rows) :
             new.rows[i] = IF i = pos THEN Row(id, val) ELSE rows[i]
    BY <2>1, <2>2, <1>1, <1>2, ExceptSeq
  <2>4. \A i \in 1 .. Len(rows) : new.rows[i].id = rows[i].id
    BY <2>3, <1>2, <1>3 DEF StoreSound, StoreContains
  <2> HIDE DEF new, rows, pos
  <2> QED
    BY <2>2, <2>3, <2>4, <1>1 DEF StoreType, StoreSound, rows, new
<1>4. CASE ~StoreContains(st, id)
  <2>1. /\ new.rows = Append(rows, Row(id, val))
        /\ new.index = MapInsert(st.index, id, Len(rows) + 1)
        /\ new = [rows |-> new.rows, index |-> new.index]
    BY <1>4 DEF StoreUpsert
  <2>2. /\ new.rows \in Seq([id : I, val : V])
        /\ Len(new.rows) = Len(rows) + 1
        /\ \A i \in 1 .. Len(rows) : new.rows[i] = rows[i]
        /\ new.rows[Len(rows) + 1] = Row(id, val)
    BY <2>1, <1>1, <1>2, AppendProperties
  <2>3. /\ DOMAIN new.index = DOMAIN st.index \cup {id}
        /\ new.index[id] = Len(rows) + 1
        /\ \A x \in DOMAIN st.index : new.index[x] = st.index[x]
        /\ new.index \in [DOMAIN st.index \cup {id} -> Nat]
    BY <2>1, <1>1, <1>4 DEF MapInsert, StoreContains
  <2>4. StoreType(new, I, V)
    BY <2>1, <2>2, <2>3, <1>1 DEF StoreType
  <2> HIDE DEF new
  <2>5. \A x \in DOMAIN new.index : /\ new.index[x] \in 1 .. Len(new.rows)
                                    /\ new.rows[new.index[x]].id = x
    <3> TAKE x \in DOMAIN new.index
    <3>1. CASE x = id
      BY <3>1, <2>2, <2>3, <1>1, <1>2
    <3>2. CASE x \in DOMAIN st.index
      <4>1. st.index[x] \in 1 .. Len(rows) /\ rows[st.index[x]].id = x
        BY <3>2 DEF StoreSound
      <4> QED
        BY <4>1, <3>2, <2>2, <2>3, <1>1
    <3> QED
      BY <3>1, <3>2, <2>3
  <2>6. \A p \in 1 .. Len(new.rows) : /\ new.rows[p].id \in DOMAIN new.index
                                      /\ new.index[new.rows[p].id] = p
    <3> TAKE p \in 1 .. Len(new.rows)
    <3>1. CASE p \in 1 .. Len(rows)
      BY <3>1, <2>2, <2>3 DEF StoreSound
    <3>2. CASE p = Len(rows) + 1
      BY <3>2, <2>2, <2>3, <1>2
    <3> QED
      BY <3>1, <3>2, <2>2, <1>1
  <2> QED
    BY <2>4, <2>5, <2>6 DEF StoreSound, new
<1> QED
  BY <1>3, <1>4

(***************************************************************************)
(* remove keeps a well-typed, sound store well typed and sound: the one    *)
(* entry the swap makes wrong is the moved row's, and it is repointed,     *)
(* except when the removed row is the last and nothing moved.              *)
(***************************************************************************)
LEMMA RemoveSound ==
  ASSUME NEW I, NEW V, NEW st, NEW id \in I,
         StoreType(st, I, V), StoreSound(st)
  PROVE  /\ StoreType(StoreRemove(st, id), I, V)
         /\ StoreSound(StoreRemove(st, id))
<1> DEFINE rows == st.rows
           n    == Len(rows)
           new  == StoreRemove(st, id)
<1>1. /\ rows \in Seq([id : I, val : V])
      /\ n \in Nat
      /\ st.index \in [DOMAIN st.index -> Nat]
      /\ DOMAIN st.index \subseteq I
  BY LenProperties DEF StoreType
<1>2. CASE ~StoreContains(st, id)
  BY <1>2 DEF StoreRemove
<1>3. CASE StoreContains(st, id)
  <2> DEFINE pos  == st.index[id]
             left == MapRemove(st.index, id)
  <2>1. pos \in 1 .. n /\ rows[pos].id = id
    BY <1>3 DEF StoreSound, StoreContains
  <2>2. /\ new.rows = SwapRemove(rows, pos)
        /\ new.index = IF pos <= Len(new.rows)
                       THEN MapInsert(left, new.rows[pos].id, pos)
                       ELSE left
        /\ new = [rows |-> new.rows, index |-> new.index]
    BY <1>3 DEF StoreRemove
  <2>3. /\ new.rows \in Seq([id : I, val : V])
        /\ Len(new.rows) = n - 1
        /\ \A i \in 1 .. n - 1 : new.rows[i] = IF i = pos THEN rows[n] ELSE rows[i]
    BY <2>1, <2>2, <1>1, SwapRemoveProperties
  <2>4. /\ DOMAIN left = DOMAIN st.index \ {id}
        /\ \A x \in DOMAIN left : left[x] = st.index[x]
        /\ left \in [DOMAIN left -> Nat]
    BY <1>1 DEF MapRemove
  <2>5. CASE pos = n
    <3>1. new.index = left
      BY <2>5, <2>2, <2>3, <1>1
    <3> HIDE DEF new, left
    <3>2. StoreType(new, I, V)
      BY <2>2, <2>3, <2>4, <3>1, <1>1 DEF StoreType
    <3>3. ASSUME NEW x \in DOMAIN left
          PROVE  left[x] \in 1 .. n - 1 /\ new.rows[left[x]].id = x
      <4>1. x \in DOMAIN st.index /\ x # id /\ left[x] = st.index[x]
        BY <2>4
      <4>2. st.index[x] \in 1 .. n /\ rows[st.index[x]].id = x
        BY <4>1 DEF StoreSound
      <4>3. st.index[x] # n
        BY <4>1, <4>2, <2>1, <2>5
      <4> QED
        BY <4>1, <4>2, <4>3, <2>3, <2>5, <1>1
    <3>4. ASSUME NEW p \in 1 .. n - 1
          PROVE  new.rows[p].id \in DOMAIN left /\ left[new.rows[p].id] = p
      <4>1. p \in 1 .. n /\ p # pos /\ new.rows[p] = rows[p]
        BY <2>3, <2>5, <1>1
      <4>2. /\ rows[p].id \in DOMAIN st.index
            /\ st.index[rows[p].id] = p
            /\ rows[p].id # id
        BY <4>1 DEF StoreSound
      <4> QED
        BY <4>1, <4>2, <2>4
    <3> QED
      BY <2>3, <3>1, <3>2, <3>3, <3>4 DEF StoreSound, new
  <2>6. CASE pos # n
    <3> DEFINE moved == rows[n].id
    <3>1. n \in 1 .. n /\ pos \in 1 .. n - 1
      BY <2>6, <2>1, <1>1
    <3>2. moved \in DOMAIN st.index /\ st.index[moved] = n /\ moved # id
      BY <3>1, <2>1, <2>6 DEF StoreSound
    <3>3. new.index = MapInsert(left, moved, pos)
      BY <3>1, <2>2, <2>3, <1>1
    <3>4. /\ DOMAIN new.index = DOMAIN st.index \ {id}
          /\ new.index[moved] = pos
          /\ \A x \in DOMAIN new.index \ {moved} : new.index[x] = st.index[x]
          /\ new.index \in [DOMAIN new.index -> Nat]
      BY <3>2, <3>3, <2>4, <2>1, <1>1 DEF MapInsert
    <3> HIDE DEF new, left
    <3>5. StoreType(new, I, V)
      BY <2>2, <2>3, <3>4, <1>1 DEF StoreType
    <3>6. ASSUME NEW x \in DOMAIN new.index
          PROVE  new.index[x] \in 1 .. Len(new.rows) /\ new.rows[new.index[x]].id = x
      <4>1. CASE x = moved
        BY <4>1, <3>1, <3>4, <2>3
      <4>2. CASE x # moved
        <5>1. st.index[x] \in 1 .. n /\ rows[st.index[x]].id = x
          BY <3>4 DEF StoreSound
        <5>2. st.index[x] # n /\ st.index[x] # pos
          BY <5>1, <4>2, <3>4, <2>1
        <5> QED
          BY <5>1, <5>2, <4>2, <3>4, <2>3, <1>1
      <4> QED
        BY <4>1, <4>2
    <3>7. ASSUME NEW p \in 1 .. Len(new.rows)
          PROVE  new.rows[p].id \in DOMAIN new.index /\ new.index[new.rows[p].id] = p
      <4>1. CASE p = pos
        BY <4>1, <3>1, <3>2, <3>4, <2>3
      <4>2. CASE p # pos
        <5>1. p \in 1 .. n /\ p # n /\ new.rows[p] = rows[p]
          BY <4>2, <2>3, <1>1
        <5>2. /\ rows[p].id \in DOMAIN st.index
              /\ st.index[rows[p].id] = p
              /\ rows[p].id # id /\ rows[p].id # moved
          BY <5>1, <4>2, <3>2, <2>1 DEF StoreSound
        <5> QED
          BY <5>1, <5>2, <3>4
      <4> QED
        BY <4>1, <4>2
    <3> QED
      BY <3>5, <3>6, <3>7 DEF StoreSound, new
  <2> QED
    BY <2>5, <2>6
<1> QED
  BY <1>2, <1>3

(***************************************************************************)
(* In a sound store the scan and the position map read the same map.       *)
(***************************************************************************)
LEMMA ScanIsLookup ==
  ASSUME NEW I, NEW a, NEW st, StoreSound(st)
  PROVE  RowsMap(st.rows, I, a)
           = [x \in I |-> IF x \in DOMAIN st.index THEN StoreGet(st, x).val ELSE a]
<1> SUFFICES ASSUME NEW x \in I
             PROVE  RowsMap(st.rows, I, a)[x]
                      = IF x \in DOMAIN st.index THEN StoreGet(st, x).val ELSE a
  BY DEF RowsMap
<1>1. (\E p \in 1 .. Len(st.rows) : st.rows[p].id = x) <=> x \in DOMAIN st.index
  BY DEF StoreSound
<1>2. ASSUME x \in DOMAIN st.index
      PROVE  (CHOOSE p \in 1 .. Len(st.rows) : st.rows[p].id = x) = st.index[x]
  <2>1. \A p \in 1 .. Len(st.rows) : st.rows[p].id = x <=> p = st.index[x]
    BY <1>2 DEF StoreSound
  <2>2. st.index[x] \in 1 .. Len(st.rows)
    BY <1>2 DEF StoreSound
  <2> QED
    BY <2>1, <2>2
<1> QED
  BY <1>1, <1>2 DEF RowsMap, StoreGet

(***************************************************************************)
(* What get answers after an upsert: the written value for the id, and for *)
(* every other id what it answered before.                                 *)
(***************************************************************************)
LEMMA UpsertLookup ==
  ASSUME NEW I, NEW V, NEW st, NEW id \in I, NEW val \in V,
         StoreType(st, I, V), StoreSound(st)
  PROVE  /\ DOMAIN StoreUpsert(st, id, val).index = DOMAIN st.index \cup {id}
         /\ StoreGet(StoreUpsert(st, id, val), id).val = val
         /\ \A x \in DOMAIN st.index \ {id} :
              StoreGet(StoreUpsert(st, id, val), x) = StoreGet(st, x)
<1> DEFINE new == StoreUpsert(st, id, val)
<1>1. /\ st.rows \in Seq([id : I, val : V])
      /\ Len(st.rows) \in Nat
      /\ st = [rows |-> st.rows, index |-> st.index]
  BY LenProperties DEF StoreType
<1>2. Row(id, val) \in [id : I, val : V] /\ Row(id, val).val = val
  BY DEF Row
<1>3. CASE StoreContains(st, id)
  <2> DEFINE pos == st.index[id]
  <2>1. pos \in 1 .. Len(st.rows)
    BY <1>3 DEF StoreSound, StoreContains
  <2>2. new.rows = [st.rows EXCEPT ![pos] = Row(id, val)] /\ new.index = st.index
    BY <1>3, <1>1 DEF StoreUpsert
  <2>3. \A i \in 1 .. Len(st.rows) :
          new.rows[i] = IF i = pos THEN Row(id, val) ELSE st.rows[i]
    BY <2>1, <2>2, <1>1, <1>2, ExceptSeq
  <2>4. \A x \in DOMAIN st.index \ {id} :
          st.index[x] \in 1 .. Len(st.rows) /\ st.index[x] # pos
    BY <1>3 DEF StoreSound, StoreContains
  <2> QED
    BY <2>1, <2>2, <2>3, <2>4, <1>3, <1>2 DEF StoreGet, StoreContains
<1>4. CASE ~StoreContains(st, id)
  <2>1. /\ new.rows = Append(st.rows, Row(id, val))
        /\ new.index = MapInsert(st.index, id, Len(st.rows) + 1)
    BY <1>4 DEF StoreUpsert
  <2>2. /\ \A i \in 1 .. Len(st.rows) : new.rows[i] = st.rows[i]
        /\ new.rows[Len(st.rows) + 1] = Row(id, val)
    BY <2>1, <1>1, <1>2, AppendProperties
  <2>3. /\ DOMAIN new.index = DOMAIN st.index \cup {id}
        /\ new.index[id] = Len(st.rows) + 1
        /\ \A x \in DOMAIN st.index \ {id} : new.index[x] = st.index[x]
    BY <2>1 DEF MapInsert
  <2>4. \A x \in DOMAIN st.index : st.index[x] \in 1 .. Len(st.rows)
    BY DEF StoreSound
  <2> QED
    BY <2>2, <2>3, <2>4, <1>2 DEF StoreGet
<1> QED
  BY <1>3, <1>4

(***************************************************************************)
(* What get answers after a remove: nothing for the id, and for every      *)
(* other id what it answered before, also for the one whose row moved.     *)
(***************************************************************************)
LEMMA RemoveLookup ==
  ASSUME NEW I, NEW V, NEW st, NEW id \in I,
         StoreType(st, I, V), StoreSound(st)
  PROVE  /\ DOMAIN StoreRemove(st, id).index = DOMAIN st.index \ {id}
         /\ \A x \in DOMAIN st.index \ {id} :
              StoreGet(StoreRemove(st, id), x) = StoreGet(st, x)
<1> DEFINE new == StoreRemove(st, id)
           n   == Len(st.rows)
<1>1. /\ st.rows \in Seq([id : I, val : V])
      /\ n \in Nat
  BY LenProperties DEF StoreType
<1>2. CASE ~StoreContains(st, id)
  BY <1>2 DEF StoreRemove, StoreContains
<1>3. CASE StoreContains(st, id)
  <2> DEFINE pos  == st.index[id]
             left == MapRemove(st.index, id)
  <2>1. pos \in 1 .. n /\ st.rows[pos].id = id
    BY <1>3 DEF StoreSound, StoreContains
  <2>2. /\ new.rows = SwapRemove(st.rows, pos)
        /\ new.index = IF pos <= Len(new.rows)
                       THEN MapInsert(left, new.rows[pos].id, pos)
                       ELSE left
    BY <1>3 DEF StoreRemove
  <2>3. /\ new.rows \in Seq([id : I, val : V])
        /\ Len(new.rows) = n - 1
        /\ \A i \in 1 .. n - 1 :
             new.rows[i] = IF i = pos THEN st.rows[n] ELSE st.rows[i]
    <3> HIDE DEF new
    <3>1. st.rows \in Seq([id : I, val : V]) /\ pos \in 1 .. Len(st.rows)
      BY <2>1, <1>1
    <3>2. /\ SwapRemove(st.rows, pos) \in Seq([id : I, val : V])
          /\ Len(SwapRemove(st.rows, pos)) = Len(st.rows) - 1
          /\ \A i \in 1 .. Len(st.rows) - 1 :
               SwapRemove(st.rows, pos)[i]
                 = IF i = pos THEN st.rows[Len(st.rows)] ELSE st.rows[i]
      BY <3>1, SwapRemoveProperties
    <3> QED
      BY <3>2, <2>2
  <2>4. /\ DOMAIN left = DOMAIN st.index \ {id}
        /\ \A x \in DOMAIN left : left[x] = st.index[x]
    BY DEF MapRemove
  <2>5. ASSUME pos # n
        PROVE  /\ st.rows[n].id \in DOMAIN st.index \ {id}
               /\ st.index[st.rows[n].id] = n
               /\ new.index = MapInsert(left, st.rows[n].id, pos)
    <3>1. n \in 1 .. n /\ pos \in 1 .. n - 1 /\ pos <= Len(new.rows)
      BY <2>5, <2>1, <2>3, <1>1
    <3>2. new.rows[pos] = st.rows[n]
      BY <3>1, <2>3
    <3>3. st.index[st.rows[n].id] = n /\ st.rows[n].id \in DOMAIN st.index
      BY <3>1 DEF StoreSound
    <3>4. st.rows[n].id # id
      BY <3>3, <2>5
    <3> QED
      BY <3>1, <3>2, <3>3, <3>4, <2>2
  <2>6. ASSUME pos = n
        PROVE  new.index = left
    BY <2>6, <2>1, <2>2, <2>3, <1>1
  <2>7. DOMAIN new.index = DOMAIN st.index \ {id}
    BY <2>4, <2>5, <2>6 DEF MapInsert
  <2> HIDE DEF left, new
  <2>8. ASSUME NEW x \in DOMAIN st.index \ {id}
        PROVE  StoreGet(new, x) = StoreGet(st, x)
    <3>1. st.index[x] \in 1 .. n /\ st.rows[st.index[x]].id = x
      BY DEF StoreSound
    <3>2. st.index[x] # pos
      BY <3>1, <2>1
    <3>3. CASE pos = n
      BY <3>1, <3>2, <3>3, <2>3, <2>4, <2>6, <1>1 DEF StoreGet
    <3>4. CASE pos # n /\ x = st.rows[n].id
      <4>1. new.index[x] = pos
        BY <3>4, <2>5 DEF MapInsert
      <4> QED
        BY <4>1, <3>4, <2>1, <2>3, <2>5, <1>1 DEF StoreGet
    <3>5. CASE pos # n /\ x # st.rows[n].id
      <4>1. new.index[x] = st.index[x]
        BY <3>5, <2>4, <2>5 DEF MapInsert
      <4>2. st.index[x] # n
        BY <3>1, <3>5
      <4> QED
        BY <4>1, <4>2, <3>1, <3>2, <2>3, <1>1 DEF StoreGet
    <3> QED
      BY <3>3, <3>4, <3>5
  <2> QED
    BY <2>7, <2>8 DEF new
<1> QED
  BY <1>2, <1>3

(***************************************************************************)
(* upsert changes the map the rows denote at its id and nowhere else.      *)
(***************************************************************************)
LEMMA UpsertMap ==
  ASSUME NEW I, NEW V, NEW st, NEW id \in I, NEW val \in V,
         StoreType(st, I, V), StoreSound(st)
  PROVE  \A a : RowsMap(StoreUpsert(st, id, val).rows, I, a)
                  = [RowsMap(st.rows, I, a) EXCEPT ![id] = val]
<1> TAKE a
<1> DEFINE new == StoreUpsert(st, id, val)
<1>1. StoreSound(new)
  BY UpsertSound
<1>2. /\ DOMAIN new.index = DOMAIN st.index \cup {id}
      /\ StoreGet(new, id).val = val
      /\ \A x \in DOMAIN st.index \ {id} : StoreGet(new, x) = StoreGet(st, x)
  BY UpsertLookup
<1> HIDE DEF new
<1>3. RowsMap(new.rows, I, a)
        = [x \in I |-> IF x \in DOMAIN new.index THEN StoreGet(new, x).val ELSE a]
  BY <1>1, ScanIsLookup
<1>4. RowsMap(st.rows, I, a)
        = [x \in I |-> IF x \in DOMAIN st.index THEN StoreGet(st, x).val ELSE a]
  BY ScanIsLookup
<1> QED
  BY <1>2, <1>3, <1>4 DEF new

(***************************************************************************)
(* remove clears the map the rows denote at its id and nowhere else.       *)
(***************************************************************************)
LEMMA RemoveMap ==
  ASSUME NEW I, NEW V, NEW a, NEW st, NEW id \in I,
         StoreType(st, I, V), StoreSound(st)
  PROVE  RowsMap(StoreRemove(st, id).rows, I, a)
           = [RowsMap(st.rows, I, a) EXCEPT ![id] = a]
<1> DEFINE new == StoreRemove(st, id)
<1>1. StoreSound(new)
  BY RemoveSound
<1>2. /\ DOMAIN new.index = DOMAIN st.index \ {id}
      /\ \A x \in DOMAIN st.index \ {id} : StoreGet(new, x) = StoreGet(st, x)
  BY RemoveLookup
<1> HIDE DEF new
<1>3. RowsMap(new.rows, I, a)
        = [x \in I |-> IF x \in DOMAIN new.index THEN StoreGet(new, x).val ELSE a]
  BY <1>1, ScanIsLookup
<1>4. RowsMap(st.rows, I, a)
        = [x \in I |-> IF x \in DOMAIN st.index THEN StoreGet(st, x).val ELSE a]
  BY ScanIsLookup
<1> QED
  BY <1>2, <1>3, <1>4 DEF new

(***************************************************************************)
(* The length of the rows is the number of ids the map stores.             *)
(***************************************************************************)
LEMMA LenCountsIds ==
  ASSUME NEW I, NEW V, NEW a, NEW st, a \notin V,
         StoreType(st, I, V), StoreSound(st)
  PROVE  Cardinality({x \in I : RowsMap(st.rows, I, a)[x] # a}) = Len(st.rows)
<1> DEFINE S == {x \in I : RowsMap(st.rows, I, a)[x] # a}
           f == [p \in 1 .. Len(st.rows) |-> st.rows[p].id]
<1>1. /\ Len(st.rows) \in Nat
      /\ \A p \in 1 .. Len(st.rows) : st.rows[p] \in [id : I, val : V]
      /\ DOMAIN st.index \subseteq I
  BY LenProperties, ElementOfSeq DEF StoreType
<1>2. \A x \in DOMAIN st.index : StoreGet(st, x).val \in V
  BY <1>1 DEF StoreGet, StoreSound
<1>3. S = DOMAIN st.index
  <2>1. RowsMap(st.rows, I, a)
          = [x \in I |-> IF x \in DOMAIN st.index THEN StoreGet(st, x).val ELSE a]
    BY ScanIsLookup
  <2> QED
    BY <2>1, <1>1, <1>2
<1> HIDE DEF S
<1>4. f \in Bijection(1 .. Len(st.rows), S)
  <2>1. f \in [1 .. Len(st.rows) -> S]
    BY <1>3 DEF StoreSound
  <2>2. IsInjective(f)
    BY DEF StoreSound, IsInjective
  <2>3. \A x \in S : \E p \in 1 .. Len(st.rows) : f[p] = x
    BY <1>3 DEF StoreSound
  <2> QED
    BY <2>1, <2>2, <2>3 DEF Bijection, Injection, Surjection
<1>5. ExistsBijection(1 .. Len(st.rows), S)
  BY <1>4 DEF ExistsBijection
<1> QED
  BY <1>1, <1>5, FS_CountingElements DEF S

=============================================================================
