--------------------------- MODULE RowStoreOrder ---------------------------
(***************************************************************************)
(* RowStore with a history variable: the stored ids in the order in which  *)
(* they were inserted, to compare with the order the rows stand in.        *)
(***************************************************************************)
EXTENDS RowStore

VARIABLE arrivals

HistoryInit == Init /\ arrivals = <<>>

HistoryNext ==
  /\ Next
  /\ arrivals' =
       CASE ret'.op = "upsert" /\ ret'.newly -> Append(arrivals, ret'.id)
         [] ret'.op = "delete" -> SelectSeq(arrivals, LAMBDA i : i # ret'.id)
         [] OTHER -> arrivals

HistorySpec == HistoryInit /\ [][HistoryNext]_<<vars, arrivals>>

(***************************************************************************)
(* "Insertion order is preserved" (store.rs, module comment): the rows     *)
(* stand in the order in which their ids were inserted, the order in which *)
(* a save, a load and a rebuild then replay them.                          *)
(***************************************************************************)
InsertionOrdered == [p \in 1 .. Len(store.rows) |-> store.rows[p].id] = arrivals

=============================================================================
