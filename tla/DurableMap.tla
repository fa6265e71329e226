---------------------------- MODULE DurableMap -----------------------------
(***************************************************************************)
(* What a file-backed database promises: the map of VectorMap, atomic for  *)
(* every thread, that also survives.  `past` holds the maps the next open  *)
(* may bring back, oldest first.  A write adds the map it leads to before  *)
(* it takes effect, so a crash may recover a write nobody has acknowledged *)
(* yet; a crash may also lose the latest writes, but never a write in the  *)
(* middle and never the first map of `past`, which every acknowledgement   *)
(* under the policy Always, every flush and every close renews.            *)
(***************************************************************************)
EXTENDS VectorMap, Sequences

CONSTANT Policies

VARIABLES past,     \* the maps a crash may bring back
          pending,  \* whether the last of them is a write still under way
          up,       \* whether the database is open
          policy    \* the fsync policy

durableMapVars == <<map, ret, past, pending, up, policy>>

Opened == [op |-> "open"]

DurableInit == /\ Init
               /\ past = <<map>> /\ pending = FALSE
               /\ up = FALSE /\ policy \in Policies

\* A write is on its way.
Announce ==
  /\ up /\ ~pending
  /\ \E id \in Ids, v \in Vals \cup {Absent} :
       past' = Append(past, [map EXCEPT ![id] = v])
  /\ pending' = TRUE
  /\ UNCHANGED <<map, ret, up, policy>>

\* It takes effect and is acknowledged.
Write ==
  /\ up /\ pending
  /\ \E id \in Ids : Del(id) \/ \E val \in Vals : Put(id, val)
  /\ map' = past[Len(past)]
  /\ past' = IF policy = "always" THEN <<map'>> ELSE past
  /\ pending' = FALSE
  /\ UNCHANGED <<up, policy>>

Read ==
  /\ up
  /\ Size \/ Search \/ \E id \in Ids : Get(id)
  /\ UNCHANGED <<past, pending, up, policy>>

\* flush returns.
Keep ==
  /\ up /\ ~pending
  /\ past' = <<map>>
  /\ UNCHANGED <<map, ret, pending, up, policy>>

\* close returns, or the handle is dropped without it.
Shut ==
  /\ up /\ ~pending
  /\ past' \in {<<map>>, past}
  /\ up' = FALSE /\ ret' = Opened
  /\ UNCHANGED <<map, pending, policy>>

Crash ==
  /\ \E n \in 1 .. Len(past) : past' = SubSeq(past, 1, n)
  /\ up' = FALSE /\ pending' = FALSE /\ ret' = Opened
  /\ UNCHANGED <<map, policy>>

\* The database is opened, with a policy of the caller's choice.
Choose == /\ ~up
          /\ policy' \in Policies
          /\ UNCHANGED <<map, ret, past, pending, up>>

Open == /\ ~up
        /\ map' = past[Len(past)]
        /\ up' = TRUE
        /\ UNCHANGED <<ret, past, pending, policy>>

DurableNext == \/ Announce \/ Write \/ Read \/ Keep
               \/ Shut \/ Crash \/ Choose \/ Open

DurableSpec == DurableInit /\ [][DurableNext]_durableMapVars

=============================================================================
