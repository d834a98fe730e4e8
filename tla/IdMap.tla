------------------------------- MODULE IdMap --------------------------------
(***************************************************************************)
(* What OrderIdIndex promises to the order book: a map from OrderId to the   *)
(* slot of the order, with no buckets, no hashing and no repair.             *)
(***************************************************************************)
CONSTANTS Ids, Slots, NoSlot

VARIABLES map,
          settling  \* a removal is still being tidied up after

Init == map = [id \in Ids |-> NoSlot] /\ settling = FALSE

Put(id, slot) == /\ ~settling /\ map[id] = NoSlot
                 /\ map' = [map EXCEPT ![id] = slot]
                 /\ UNCHANGED settling

Remove(id) == /\ ~settling /\ map[id] # NoSlot
              /\ map' = [map EXCEPT ![id] = NoSlot]
              /\ settling' = TRUE

\* Nothing that happens until then shows.
Settle == settling /\ settling' = FALSE /\ UNCHANGED map

Forget == ~settling /\ map' = [id \in Ids |-> NoSlot] /\ UNCHANGED settling

Next == \/ \E id \in Ids, slot \in Slots : Put(id, slot)
        \/ \E id \in Ids : Remove(id)
        \/ Settle \/ Forget

Spec == Init /\ [][Next]_<<map, settling>>
=============================================================================
