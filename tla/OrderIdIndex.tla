---------------------------- MODULE OrderIdIndex ----------------------------
(***************************************************************************)
(* OrderIdIndex: a hash table from OrderId to the slot of the order, with    *)
(* open addressing, linear probing and deletion by backward shift.  A probe  *)
(* ends at the first empty bucket, so erase_and_get must close the hole it   *)
(* makes: the loop of erase_at walks the cluster behind the hole and moves   *)
(* back every entry that could not be found otherwise.  One step of the loop *)
(* is one step here.                                                         *)
(*                                                                           *)
(* The table is private to one OrderBook, which acquires a slot of its pool  *)
(* before it inserts: there are never more than MaxEntries entries, and      *)
(* bucket_count_for leaves at least one bucket empty.                        *)
(* Bucket positions are circular; Distance is (to - from) & mask.            *)
(***************************************************************************)
EXTENDS Integers, FiniteSets

CONSTANTS Ids,         \* OrderIds in use
          Slots,       \* slots of the pool
          NoSlot,      \* invalid_order_index
          Empty,       \* the empty bucket
          Buckets,     \* bucket_count_
          MaxEntries,  \* capacity of the owner
          Home         \* hash(id) & (bucket_count_ - 1)

Positions == 0 .. Buckets - 1
Entries == [id : Ids, slot : Slots]

ASSUME IndexAssumption ==
  /\ Buckets \in Nat \ {0}
  /\ MaxEntries \in 0 .. Buckets - 1
  /\ Home \in [Ids -> Positions]
  /\ NoSlot \notin Slots
  /\ Empty \notin Entries

VARIABLES buckets,    \* buckets_
          size,       \* size_
          repairing,  \* erase_at is running, and its variables:
          erased,     \* erased_pos
          hole,       \* hole_pos
          scanned     \* repair_scan

repairVars == <<repairing, erased, hole, scanned>>
vars == <<buckets, size, repairVars>>

\* (from + n) & mask, for n up to bucket_count_.
Ahead(from, n) == IF from + n < Buckets THEN from + n ELSE from + n - Buckets

\* (to - from) & mask
Distance(from, to) == IF from <= to THEN to - from ELSE to - from + Buckets

\* Position q is probed before p in a search for id.
Before(id, q, p) == Distance(Home[id], q) < Distance(Home[id], p)

Holds(p, id) == buckets[p] # Empty /\ buckets[p].id = id

\* The probe for id ends at p: it is empty or holds id, and no bucket probed
\* before it is.
StopsAt(id, p) ==
  /\ buckets[p] = Empty \/ Holds(p, id)
  /\ \A q \in Positions :
       Before(id, q, p) => buckets[q] # Empty /\ ~Holds(q, id)

\* find
Find(id) ==
  IF \E p \in Positions : StopsAt(id, p) /\ buckets[p] # Empty
  THEN buckets[CHOOSE p \in Positions : StopsAt(id, p)].slot
  ELSE NoSlot

Occupied == {p \in Positions : buckets[p] # Empty}

Init == /\ buckets = [p \in Positions |-> Empty]
        /\ size = 0
        /\ repairing = FALSE
        /\ erased = 0 /\ hole = 0 /\ scanned = 0

\* insert: Duplicate, and Full, change nothing.
Insert(id, slot) ==
  /\ ~repairing /\ Cardinality(Occupied) < MaxEntries
  /\ \E p \in Positions :
       /\ StopsAt(id, p) /\ buckets[p] = Empty
       /\ buckets' = [buckets EXCEPT ![p] = [id |-> id, slot |-> slot]]
  /\ size' = size + 1
  /\ UNCHANGED repairVars

\* erase_and_get up to the loop of erase_at: NotFound changes nothing.
Erase(id) ==
  /\ ~repairing
  /\ \E p \in Positions :
       /\ StopsAt(id, p) /\ buckets[p] # Empty
       /\ buckets' = [buckets EXCEPT ![p] = Empty]
       /\ erased' = p /\ hole' = p
  /\ size' = size - 1
  /\ repairing' = TRUE /\ scanned' = 0

\* candidate_pos
Candidate == Ahead(erased, scanned + 1)

\* The condition of the loop.
Scanning == scanned + 1 < Buckets /\ buckets[Candidate] # Empty

\* Mutation of MovesBack: every entry of the cluster is moved.
MovesBackAlways == TRUE

\* The hole is on the probe path of the candidate.
MovesBack == Before(buckets[Candidate].id, hole, Candidate)

\* Mutation of RepairStep: the bucket is emptied before it is copied.
RepairStepDrops ==
  /\ repairing /\ Scanning
  /\ IF MovesBack
     THEN /\ buckets' = [buckets EXCEPT ![Candidate] = Empty]
          /\ hole' = Candidate
     ELSE UNCHANGED <<buckets, hole>>
  /\ scanned' = scanned + 1
  /\ UNCHANGED <<size, repairing, erased>>

\* One turn of the loop.
RepairStep ==
  /\ repairing /\ Scanning
  /\ IF MovesBack
     THEN /\ buckets' = [buckets EXCEPT ![hole] = buckets[Candidate],
                                        ![Candidate] = Empty]
          /\ hole' = Candidate
     ELSE UNCHANGED <<buckets, hole>>
  /\ scanned' = scanned + 1
  /\ UNCHANGED <<size, repairing, erased>>

RepairDone == /\ repairing /\ ~Scanning
              /\ repairing' = FALSE
              /\ erased' = 0 /\ hole' = 0 /\ scanned' = 0
              /\ UNCHANGED <<buckets, size>>

Clear == /\ ~repairing
         /\ buckets' = [p \in Positions |-> Empty]
         /\ size' = 0
         /\ UNCHANGED repairVars

Next == \/ \E id \in Ids, slot \in Slots : Insert(id, slot)
        \/ \E id \in Ids : Erase(id)
        \/ RepairStep \/ RepairDone \/ Clear

Spec == Init /\ [][Next]_vars

-----------------------------------------------------------------------------
(* Properties.                                                               *)

TypeOK == /\ buckets \in [Positions -> Entries \cup {Empty}]
          /\ size \in 0 .. MaxEntries
          /\ repairing \in BOOLEAN
          /\ erased \in Positions /\ hole \in Positions
          /\ scanned \in 0 .. Buckets - 1

\* The slot kept for id somewhere in the table, whether a probe finds it or not.
Contents(id) ==
  IF \E p \in Positions : Holds(p, id)
  THEN buckets[CHOOSE p \in Positions : Holds(p, id)].slot
  ELSE NoSlot

\* Between two calls a probe finds exactly what the table holds: an entry is
\* never stranded behind a hole, however entries collide and are erased.
LookupExact == ~repairing => \A id \in Ids : Find(id) = Contents(id)

\* size_ counts the occupied buckets, also in the middle of a repair.
SizeExact == size = Cardinality(Occupied)

\* The table is a map: an insertion adds the binding of one id, an erasure
\* removes that of one id, and no turn of the repair loop changes any.
Map == INSTANCE IdMap WITH map <- [id \in Ids |-> Contents(id)],
                           settling <- repairing

ImplementsMap == Map!Spec
=============================================================================
