------------------------- MODULE OrderIdIndexProofs -------------------------
(***************************************************************************)
(* Proofs about OrderIdIndex: for every hash function, every table with at   *)
(* least one bucket more than entries, and every sequence of insertions and  *)
(* erasures, a probe between two calls finds exactly what the table holds.   *)
(*                                                                           *)
(* The heart is PathInv: the only empty bucket on the probe path of an entry *)
(* is the hole, and only for entries the loop of erase_at has not reached.   *)
(* GapInv gives the bucket that is empty for good, at which the loop stops:  *)
(* an entry the loop has passed cannot reach over it to the hole.            *)
(***************************************************************************)
EXTENDS OrderIdIndex, FiniteSetTheorems, TLAPS

\* No id is in two buckets.
UniqueInv == \A p, q \in Positions :
  buckets[p] # Empty /\ buckets[q] # Empty /\ buckets[p].id = buckets[q].id
    => p = q

\* Empty buckets on probe paths.
PathInv == \A p, q \in Positions :
  buckets[p] # Empty /\ buckets[q] = Empty /\ Before(buckets[p].id, q, p)
    => repairing /\ q = hole /\ Distance(erased, p) > scanned

\* An empty bucket ahead of the loop.
GapInv == \E z \in Positions :
  /\ buckets[z] = Empty
  /\ repairing => z # hole /\ Distance(erased, z) > scanned

\* The hole is empty and behind the loop.
HoleInv == repairing => /\ buckets[hole] = Empty
                        /\ Distance(erased, hole) <= scanned

SizeInv == SizeExact /\ Cardinality(Occupied) <= MaxEntries

IInv == TypeOK /\ UniqueInv /\ PathInv /\ GapInv /\ HoleInv /\ SizeInv

-----------------------------------------------------------------------------
(* Circular distances.                                                       *)

\* A distance is less than a lap, and zero only from a bucket to itself.
LEMMA DistanceType ==
  ASSUME NEW a \in Positions, NEW b \in Positions
  PROVE  Distance(a, b) \in 0 .. Buckets - 1 /\ (Distance(a, b) = 0 <=> a = b)
BY IndexAssumption DEF Positions, Distance

\* Distances from one bucket tell buckets apart.
LEMMA DistanceInjective ==
  ASSUME NEW a \in Positions, NEW b \in Positions, NEW c \in Positions,
         Distance(a, b) = Distance(a, c)
  PROVE  b = c
BY IndexAssumption DEF Positions, Distance

\* Going n buckets ahead is at distance n.
LEMMA AheadDistance ==
  ASSUME NEW a \in Positions, NEW n \in 0 .. Buckets - 1
  PROVE  Ahead(a, n) \in Positions /\ Distance(a, Ahead(a, n)) = n
BY IndexAssumption DEF Positions, Distance, Ahead

\* The path from h to p runs over c; beyond c, on the way to p, lies z.
LEMMA PathOverGap ==
  ASSUME NEW e \in Positions, NEW h \in Positions, NEW p \in Positions,
         NEW c \in Positions, NEW z \in Positions,
         Distance(h, c) < Distance(h, p),
         Distance(e, p) < Distance(e, c), Distance(e, c) < Distance(e, z)
  PROVE  Distance(h, z) < Distance(h, p)
BY IndexAssumption DEF Positions, Distance

\* The path from h to p runs over o and so over c, which lies between.
LEMMA PathOverBetween ==
  ASSUME NEW e \in Positions, NEW h \in Positions, NEW p \in Positions,
         NEW c \in Positions, NEW o \in Positions,
         Distance(h, o) < Distance(h, p),
         Distance(e, o) < Distance(e, c), Distance(e, c) < Distance(e, p)
  PROVE  Distance(h, c) < Distance(h, p)
BY IndexAssumption DEF Positions, Distance

-----------------------------------------------------------------------------
(* Counting the occupied buckets.                                            *)

\* The table is finite, and larger than what it may hold.
LEMMA OccupiedFinite ==
  ASSUME NEW S \in SUBSET Positions
  PROVE  /\ IsFiniteSet(S) /\ Cardinality(S) \in Nat
         /\ Cardinality(S) <= MaxEntries => \E z \in Positions : z \notin S
<1>1. 0 \in Int /\ Buckets - 1 \in Int /\ Buckets \in Nat /\ Buckets > 0
      /\ MaxEntries < Buckets
  BY IndexAssumption
<1>2. IsFiniteSet(Positions) /\ Cardinality(Positions) = Buckets
  BY <1>1, FS_Interval DEF Positions
<1>3. IsFiniteSet(S) /\ Cardinality(S) \in Nat
  BY <1>2, FS_Subset, FS_CardinalityType
<1>4. S = Positions => Cardinality(S) = Buckets
  BY <1>2
<1>5. S = Positions \/ \E z \in Positions : z \notin S
  OBVIOUS
<1>6. MaxEntries \in Nat /\ (S = Positions => ~(Cardinality(S) <= MaxEntries))
  BY <1>1, <1>4, IndexAssumption
<1> QED BY ONLY <1>3, <1>5, <1>6, Zenon

\* Filling an empty bucket counts as one.
LEMMA Fill ==
  ASSUME TypeOK, NEW p \in Positions, NEW entry \in Entries,
         buckets' = [buckets EXCEPT ![p] = entry], buckets[p] = Empty
  PROVE  /\ Occupied' = Occupied \cup {p}
         /\ Cardinality(Occupied') = Cardinality(Occupied) + 1
<1>1. Occupied' = Occupied \cup {p}
  BY IndexAssumption DEF Occupied, TypeOK
<1>2. p \notin Occupied /\ Occupied \in SUBSET Positions
  BY DEF Occupied
<1> QED BY <1>1, <1>2, OccupiedFinite, FS_AddElement

\* Emptying a full bucket counts as one.
LEMMA Vacate ==
  ASSUME TypeOK, NEW p \in Positions,
         buckets' = [buckets EXCEPT ![p] = Empty], buckets[p] # Empty
  PROVE  /\ Occupied' = Occupied \ {p}
         /\ Cardinality(Occupied') = Cardinality(Occupied) - 1
<1>1. Occupied' = Occupied \ {p}
  BY DEF Occupied, TypeOK
<1>2. p \in Occupied /\ Occupied \in SUBSET Positions
  BY DEF Occupied
<1> QED BY <1>1, <1>2, OccupiedFinite, FS_RemoveElement

-----------------------------------------------------------------------------
(* The invariant.                                                            *)

\* The empty table satisfies it.
LEMMA InitInv == Init => IInv
<1> SUFFICES ASSUME Init PROVE IInv
  OBVIOUS
<1>1. 0 \in Positions /\ 0 \in 0 .. MaxEntries /\ 0 \in 0 .. Buckets - 1
  BY IndexAssumption DEF Positions
<1>2. Occupied = {} /\ Cardinality(Occupied) = 0
  BY FS_EmptySet DEF Init, Occupied
<1>3. TypeOK
  BY <1>1 DEF Init, TypeOK
<1>4. UniqueInv /\ PathInv /\ GapInv /\ HoleInv
  BY <1>1 DEF Init, UniqueInv, PathInv, GapInv, HoleInv
<1>5. SizeInv
  BY <1>1, <1>2 DEF Init, SizeInv, SizeExact
<1> QED BY <1>3, <1>4, <1>5 DEF IInv

\* Between two calls a probe that ends at an empty bucket has not missed the id.
LEMMA NotFound ==
  ASSUME IInv, ~repairing, NEW id \in Ids, NEW p \in Positions,
         StopsAt(id, p), buckets[p] = Empty
  PROVE  \A q \in Positions : ~Holds(q, id)
<1> SUFFICES ASSUME NEW q \in Positions, Holds(q, id) PROVE FALSE
  OBVIOUS
<1>1. Home[id] \in Positions
  BY IndexAssumption
<1>2. CASE Before(id, q, p)
  BY <1>2 DEF StopsAt
<1>3. CASE Before(id, p, q)
  BY <1>3 DEF IInv, PathInv, Holds
<1>4. CASE Distance(Home[id], p) = Distance(Home[id], q)
  BY <1>1, <1>4, DistanceInjective DEF Holds
<1> QED BY <1>1, <1>2, <1>3, <1>4, DistanceType DEF Before

\* insert fills the first empty bucket of the probe: the path to the new entry
\* has no hole, and no other path gets one.
LEMMA InsertStep ==
  ASSUME IInv, NEW id \in Ids, NEW slot \in Slots, Insert(id, slot)
  PROVE  IInv'
<1> DEFINE entry == [id |-> id, slot |-> slot]
<1>1. PICK p \in Positions :
        /\ StopsAt(id, p) /\ buckets[p] = Empty
        /\ buckets' = [buckets EXCEPT ![p] = entry]
  BY DEF Insert
<1>2. /\ ~repairing /\ Cardinality(Occupied) < MaxEntries
      /\ size' = size + 1 /\ UNCHANGED repairVars
      /\ entry \in Entries /\ entry.id = id /\ entry # Empty
  BY IndexAssumption DEF Insert, Entries
<1> HIDE DEF entry
<1>3. TypeOK /\ buckets \in [Positions -> Entries \cup {Empty}]
      /\ \A q \in Positions : buckets'[q] = IF q = p THEN entry ELSE buckets[q]
  BY <1>1 DEF IInv, TypeOK
<1>4. /\ Occupied' = Occupied \cup {p}
      /\ Cardinality(Occupied') = Cardinality(Occupied) + 1
  BY <1>1, <1>2, <1>3, Fill
<1>5. Cardinality(Occupied) \in Nat /\ Cardinality(Occupied') <= MaxEntries
  BY <1>2, <1>4, OccupiedFinite, IndexAssumption DEF Occupied
<1>6. SizeInv' /\ size' \in 0 .. MaxEntries
  BY <1>2, <1>4, <1>5, IndexAssumption DEF IInv, SizeInv, SizeExact
<1>7. TypeOK'
  BY <1>1, <1>2, <1>3, <1>6 DEF TypeOK, repairVars
<1>8. UniqueInv'
  BY <1>1, <1>2, <1>3, NotFound DEF IInv, UniqueInv, Holds
<1>9. PathInv'
  BY <1>1, <1>2, <1>3 DEF IInv, PathInv, StopsAt, Before, repairVars
<1>10. GapInv'
  BY <1>2, <1>5, OccupiedFinite DEF GapInv, Occupied, repairVars
<1>11. HoleInv'
  BY <1>2 DEF HoleInv, repairVars
<1> QED BY <1>6, <1>7, <1>8, <1>9, <1>10, <1>11 DEF IInv

\* erase_and_get makes the one hole the invariant allows, at its own place.
LEMMA EraseStep ==
  ASSUME IInv, NEW id \in Ids, Erase(id)
  PROVE  IInv'
<1>1. PICK p \in Positions :
        /\ StopsAt(id, p) /\ buckets[p] # Empty
        /\ buckets' = [buckets EXCEPT ![p] = Empty]
        /\ erased' = p /\ hole' = p
  BY DEF Erase
<1>2. ~repairing /\ size' = size - 1 /\ repairing' /\ scanned' = 0
      /\ repairing' \in BOOLEAN
  BY DEF Erase
<1>3. TypeOK /\ buckets \in [Positions -> Entries \cup {Empty}]
      /\ \A q \in Positions : buckets'[q] = IF q = p THEN Empty ELSE buckets[q]
  BY <1>1 DEF IInv, TypeOK
<1>4. /\ Occupied' = Occupied \ {p}
      /\ Cardinality(Occupied') = Cardinality(Occupied) - 1
      /\ Cardinality(Occupied') \in Nat
  BY <1>1, <1>3, Vacate, OccupiedFinite DEF Occupied
<1>5. SizeInv' /\ size' \in 0 .. MaxEntries
  BY <1>2, <1>3, <1>4, IndexAssumption DEF IInv, SizeInv, SizeExact, TypeOK
<1>6. TypeOK'
  BY <1>1, <1>2, <1>3, <1>5, IndexAssumption DEF TypeOK
<1>7. \A q \in Positions : q # p => Distance(p, q) > 0
  BY DistanceType
<1>8. UniqueInv'
  BY <1>1, <1>3 DEF IInv, UniqueInv
<1>9. PathInv'
  BY <1>1, <1>2, <1>3, <1>7 DEF IInv, PathInv, Before
<1>10. GapInv'
  BY <1>1, <1>2, <1>3, <1>7 DEF IInv, GapInv
<1>11. HoleInv'
  BY <1>1, <1>2, <1>3, DistanceType DEF HoleInv
<1> QED BY <1>5, <1>6, <1>8, <1>9, <1>10, <1>11 DEF IInv

\* What the loop may use of the bucket it looks at.
LEMMA CandidateFacts ==
  ASSUME IInv, scanned + 1 < Buckets
  PROVE  /\ Candidate \in Positions /\ Distance(erased, Candidate) = scanned + 1
         /\ repairing => Candidate # hole
<1>1. erased \in Positions /\ scanned + 1 \in 0 .. Buckets - 1 /\ scanned \in Nat
  BY IndexAssumption DEF IInv, TypeOK
<1>2. Candidate \in Positions /\ Distance(erased, Candidate) = scanned + 1
  BY <1>1, AheadDistance DEF Candidate
<1>3. repairing => Distance(erased, hole) <= scanned
  BY DEF IInv, HoleInv
<1> QED BY <1>1, <1>2, <1>3

\* One turn of the loop: an entry moves back into the hole, or the hole is not on
\* its path and the scan goes on.
LEMMA RepairStepStep ==
  ASSUME IInv, RepairStep
  PROVE  IInv'
<1> DEFINE c == Candidate
<1>1. /\ repairing /\ scanned + 1 < Buckets /\ buckets[c] # Empty
      /\ scanned' = scanned + 1 /\ UNCHANGED <<size, repairing, erased>>
  BY DEF RepairStep, Scanning
<1>2. c \in Positions /\ Distance(erased, c) = scanned + 1 /\ c # hole
  BY <1>1, CandidateFacts
<1>3. /\ TypeOK /\ buckets \in [Positions -> Entries \cup {Empty}]
      /\ hole \in Positions /\ erased \in Positions /\ scanned \in Nat
      /\ buckets[hole] = Empty /\ Distance(erased, hole) <= scanned
  BY <1>1 DEF IInv, TypeOK, HoleInv
<1>4. PICK z \in Positions : buckets[z] = Empty /\ z # hole
                              /\ Distance(erased, z) > scanned
  BY <1>1 DEF IInv, GapInv
<1>5. Distance(erased, z) > scanned + 1
  BY <1>1, <1>2, <1>3, <1>4, DistanceInjective, DistanceType
<1>6. \A p \in Positions :
        buckets[p] # Empty => Home[buckets[p].id] \in Positions
  BY <1>3, IndexAssumption DEF Entries
<1>7. scanned' \in 0 .. Buckets - 1
  BY <1>1, <1>3, IndexAssumption
<1>8. CASE MovesBack
  <2>1. /\ buckets' = [buckets EXCEPT ![hole] = buckets[c], ![c] = Empty]
        /\ hole' = c
    BY <1>8 DEF RepairStep
  <2>2. \A q \in Positions : buckets'[q] = IF q = c THEN Empty
                          ELSE IF q = hole THEN buckets[c] ELSE buckets[q]
    BY <1>2, <1>3, <2>1
  <2>3. TypeOK'
    BY <1>1, <1>2, <1>3, <1>7, <2>1 DEF TypeOK
  <2>4. UniqueInv'
    BY <1>1, <1>2, <1>3, <2>2 DEF IInv, UniqueInv
  <2>5. GapInv'
    BY <1>1, <1>2, <1>4, <1>5, <2>1, <2>2 DEF GapInv
  <2>6. HoleInv'
    BY <1>1, <1>2, <1>3, <2>1, <2>2 DEF HoleInv
  <2>7. PathInv'
    <3> SUFFICES ASSUME NEW p \in Positions, NEW q \in Positions,
                        buckets'[p] # Empty, buckets'[q] = Empty,
                        Before(buckets'[p].id, q, p)
                 PROVE  q = c /\ Distance(erased, p) > scanned + 1
      BY <1>1, <2>1 DEF PathInv, Before
    <3>1. p # c /\ q # hole
      BY <1>1, <1>2, <2>2
    <3>2. Home[buckets[c].id] \in Positions /\ Before(buckets[c].id, hole, c)
      BY <1>1, <1>2, <1>6, <1>8 DEF MovesBack
    <3>3. CASE p = hole
      <4>1. Before(buckets[c].id, q, hole)
        BY <3>1, <3>3, <2>2
      <4>2. Before(buckets[c].id, q, c)
        BY <1>2, <1>3, <3>2, <4>1, DistanceType DEF Before
      <4>3. q # c
        BY <1>2, <1>3, <3>2, <4>1, DistanceType DEF Before
      <4>4. buckets[q] = Empty
        BY <2>2, <3>1, <4>3
      <4> QED BY <1>1, <1>2, <3>1, <4>2, <4>4 DEF IInv, PathInv
    <3>4. CASE p # hole
      <4>1. buckets[p] # Empty /\ buckets'[p] = buckets[p]
            /\ Before(buckets[p].id, q, p)
        BY <2>2, <3>1, <3>4
      <4>2. q = c
        BY <2>2, <3>1, <4>1 DEF IInv, PathInv
      <4>3. SUFFICES ASSUME ~(Distance(erased, p) > scanned + 1) PROVE FALSE
        BY <4>2
      <4>4. Distance(erased, p) < Distance(erased, c)
        BY <1>2, <1>3, <3>1, <4>3, DistanceInjective, DistanceType
      <4>5. Before(buckets[p].id, z, p)
        BY <1>2, <1>3, <1>4, <1>5, <1>6, <4>1, <4>2, <4>4, PathOverGap DEF Before
      <4> QED BY <1>4, <4>1, <4>5 DEF IInv, PathInv
    <3> QED BY <3>3, <3>4
  <2>8. SizeInv'
    <3>1. Occupied' = (Occupied \ {c}) \cup {hole}
      BY <1>1, <1>2, <1>3, <2>2 DEF Occupied
    <3>2. c \in Occupied /\ hole \notin Occupied /\ Occupied \in SUBSET Positions
      BY <1>1, <1>2, <1>3 DEF Occupied
    <3>3. IsFiniteSet(Occupied) /\ IsFiniteSet(Occupied \ {c})
          /\ Cardinality(Occupied \ {c}) = Cardinality(Occupied) - 1
          /\ Cardinality(Occupied) \in Nat
      BY <3>2, OccupiedFinite, FS_RemoveElement
    <3>4. Cardinality(Occupied') = Cardinality(Occupied \ {c}) + 1
      BY <3>1, <3>2, <3>3, FS_AddElement
    <3> QED BY <1>1, <3>3, <3>4 DEF IInv, SizeInv, SizeExact
  <2> QED BY <2>3, <2>4, <2>5, <2>6, <2>7, <2>8 DEF IInv
<1>9. CASE ~MovesBack
  <2>1. UNCHANGED <<buckets, hole>>
    BY <1>9 DEF RepairStep
  <2>2. TypeOK' /\ UniqueInv'
    BY <1>1, <1>3, <1>7, <2>1 DEF IInv, TypeOK, UniqueInv
  <2>3. GapInv' /\ HoleInv'
    BY <1>1, <1>3, <1>4, <1>5, <2>1, DistanceType DEF GapInv, HoleInv
  <2>4. PathInv'
    <3> SUFFICES ASSUME NEW p \in Positions, NEW q \in Positions,
                        buckets[p] # Empty, buckets[q] = Empty,
                        Before(buckets[p].id, q, p)
                 PROVE  q = hole /\ Distance(erased, p) > scanned + 1
      BY <1>1, <2>1 DEF PathInv, Before
    <3>1. q = hole /\ Distance(erased, p) > scanned
      BY DEF IInv, PathInv
    <3>2. p # c
      BY <1>9, <3>1 DEF MovesBack
    <3> QED BY <1>2, <1>3, <3>1, <3>2, DistanceInjective, DistanceType
  <2>5. SizeInv'
    BY <1>1, <2>1 DEF IInv, SizeInv, SizeExact, Occupied
  <2> QED BY <2>2, <2>3, <2>4, <2>5 DEF IInv
<1> QED BY <1>8, <1>9

\* The loop ends at an empty bucket or after a lap: no path runs over the hole.
LEMMA RepairDoneStep ==
  ASSUME IInv, RepairDone
  PROVE  IInv'
<1>1. /\ repairing /\ ~Scanning /\ ~repairing' /\ repairing' \in BOOLEAN
      /\ erased' = 0 /\ hole' = 0 /\ scanned' = 0 /\ UNCHANGED <<buckets, size>>
  BY DEF RepairDone
<1>2. TypeOK'
  BY <1>1, IndexAssumption DEF IInv, TypeOK, Positions
<1>3. UniqueInv' /\ GapInv' /\ HoleInv' /\ SizeInv'
  BY <1>1 DEF IInv, UniqueInv, GapInv, HoleInv, SizeInv, SizeExact, Occupied
<1>4. PathInv'
  <2> SUFFICES ASSUME NEW p \in Positions, NEW q \in Positions,
                      buckets[p] # Empty, buckets[q] = Empty,
                      Before(buckets[p].id, q, p)
               PROVE  FALSE
    BY <1>1 DEF PathInv, Before
  <2>1. q = hole /\ Distance(erased, p) > scanned
    BY DEF IInv, PathInv
  <2>2. /\ hole \in Positions /\ erased \in Positions
        /\ scanned \in 0 .. Buckets - 1 /\ Distance(erased, hole) <= scanned
        /\ buckets[p] \in Entries
    BY <1>1 DEF IInv, TypeOK, HoleInv
  <2>3. Home[buckets[p].id] \in Positions
    BY <2>2, IndexAssumption DEF Entries
  <2>4. scanned + 1 < Buckets
    BY <2>1, <2>2, DistanceType, IndexAssumption
  <2> DEFINE c == Candidate
  <2>5. c \in Positions /\ Distance(erased, c) = scanned + 1 /\ c # hole
    BY <1>1, <2>4, CandidateFacts
  <2>6. buckets[c] = Empty
    BY <1>1, <2>4 DEF Scanning
  <2> HIDE DEF c
  <2>7. Distance(erased, c) < Distance(erased, p)
    BY <2>1, <2>2, <2>5, <2>6, DistanceInjective, DistanceType
  <2>8. Before(buckets[p].id, c, p)
    BY <2>1, <2>2, <2>3, <2>5, <2>7, DistanceType, PathOverBetween DEF Before
  <2> QED BY <2>5, <2>6, <2>8 DEF IInv, PathInv
<1> QED BY <1>2, <1>3, <1>4 DEF IInv

\* clear leaves no entry.
LEMMA ClearStep ==
  ASSUME IInv, Clear
  PROVE  IInv'
<1>1. /\ ~repairing /\ buckets' = [p \in Positions |-> Empty] /\ size' = 0
      /\ UNCHANGED repairVars
  BY DEF Clear
<1>2. 0 \in Positions /\ 0 \in 0 .. MaxEntries
  BY IndexAssumption DEF Positions
<1>3. Occupied' = {} /\ Cardinality(Occupied') = 0
  BY <1>1, FS_EmptySet DEF Occupied
<1>4. TypeOK'
  BY <1>1, <1>2 DEF IInv, TypeOK, repairVars
<1>5. UniqueInv' /\ PathInv' /\ GapInv' /\ HoleInv'
  BY <1>1, <1>2 DEF UniqueInv, PathInv, GapInv, HoleInv, repairVars
<1>6. SizeInv'
  BY <1>1, <1>2, <1>3 DEF SizeInv, SizeExact
<1> QED BY <1>4, <1>5, <1>6 DEF IInv

\* Every step preserves the invariant.
LEMMA StepInv == IInv /\ [Next]_vars => IInv'
<1> SUFFICES ASSUME IInv, [Next]_vars PROVE IInv'
  OBVIOUS
<1>1. ASSUME NEW id \in Ids, NEW slot \in Slots, Insert(id, slot) PROVE IInv'
  BY <1>1, InsertStep
<1>2. ASSUME NEW id \in Ids, Erase(id) PROVE IInv'
  BY <1>2, EraseStep
<1>3. CASE RepairStep
  BY <1>3, RepairStepStep
<1>4. CASE RepairDone
  BY <1>4, RepairDoneStep
<1>5. CASE Clear
  BY <1>5, ClearStep
<1>6. CASE UNCHANGED vars
  BY <1>6 DEF vars, repairVars, IInv, TypeOK, UniqueInv, PathInv, GapInv,
              HoleInv, SizeInv, SizeExact, Occupied, Before
<1> QED BY <1>1, <1>2, <1>3, <1>4, <1>5, <1>6 DEF Next

\* In every reachable state.
LEMMA Invariance == Spec => []IInv
<1> QED BY InitInv, StepInv, PTL DEF Spec

-----------------------------------------------------------------------------
(* Theorems.                                                                 *)

\* Type correctness of the table and of the variables of the loop.
THEOREM TypeCorrect == Spec => []TypeOK
<1>1. IInv => TypeOK
  BY DEF IInv
<1> QED BY <1>1, Invariance, PTL

\* size_ is the number of entries, in every state of every repair.
THEOREM SizeIsExact == Spec => []SizeExact
<1>1. IInv => SizeExact
  BY DEF IInv, SizeInv
<1> QED BY <1>1, Invariance, PTL

\* A probe ends at one bucket.
LEMMA StopsOnce ==
  ASSUME NEW id \in Ids, NEW p \in Positions, NEW q \in Positions,
         StopsAt(id, p), StopsAt(id, q)
  PROVE  p = q
<1>1. Home[id] \in Positions
  BY IndexAssumption
<1>2. ~Before(id, p, q) /\ ~Before(id, q, p)
  BY DEF StopsAt
<1> QED BY <1>1, <1>2, DistanceType, DistanceInjective DEF Before

\* Between two calls a bucket that holds the id is where the probe ends.
LEMMA StopsWhereHeld ==
  ASSUME IInv, ~repairing, NEW id \in Ids, NEW p \in Positions, Holds(p, id)
  PROVE  StopsAt(id, p)
<1> SUFFICES ASSUME NEW q \in Positions, Before(id, q, p)
             PROVE  buckets[q] # Empty /\ ~Holds(q, id)
  BY DEF StopsAt
<1>1. buckets[q] # Empty
  BY DEF IInv, PathInv, Holds
<1>2. q # p
  BY IndexAssumption, DistanceType DEF Before
<1> QED BY <1>1, <1>2 DEF IInv, UniqueInv, Holds

\* Between two calls a lookup answers what the table holds: backward shift
\* never strands an entry behind an empty bucket.
THEOREM LookupIsExact == Spec => []LookupExact
<1>1. ASSUME IInv, ~repairing, NEW id \in Ids PROVE Find(id) = Contents(id)
  <2>1. CASE \E p \in Positions : Holds(p, id)
    <3>1. PICK p \in Positions : Holds(p, id)
      BY <2>1
    <3>2. StopsAt(id, p) /\ buckets[p] # Empty
      BY <1>1, <3>1, StopsWhereHeld DEF Holds
    <3>3. (CHOOSE q \in Positions : StopsAt(id, q)) = p
      BY <3>2, StopsOnce
    <3>4. (CHOOSE q \in Positions : Holds(q, id)) = p
      BY <1>1, <3>1, StopsWhereHeld, StopsOnce
    <3> QED BY <2>1, <3>2, <3>3, <3>4 DEF Find, Contents
  <2>2. CASE ~\E p \in Positions : Holds(p, id)
    <3>1. ~\E p \in Positions : StopsAt(id, p) /\ buckets[p] # Empty
      BY <2>2 DEF StopsAt
    <3> QED BY <2>2, <3>1 DEF Find, Contents
  <2> QED BY <2>1, <2>2
<1>2. IInv => LookupExact
  BY <1>1 DEF LookupExact
<1> QED BY <1>2, Invariance, PTL

-----------------------------------------------------------------------------
(* Refinement: the table implements the map.                                 *)

\* The entry an id is bound to, given where it is held.
LEMMA ContentsAt ==
  ASSUME IInv, NEW id \in Ids, NEW p \in Positions, Holds(p, id)
  PROVE  Contents(id) = buckets[p].slot /\ buckets[p].slot \in Slots
<1>1. \A q \in Positions : Holds(q, id) => q = p
  BY DEF IInv, UniqueInv, Holds
<1>2. (CHOOSE q \in Positions : Holds(q, id)) = p
  BY <1>1
<1>3. buckets[p] \in Entries
  BY DEF IInv, TypeOK, Holds
<1> QED BY <1>2, <1>3 DEF Contents, Entries

\* The same in the next state.
LEMMA ContentsAtPrime ==
  ASSUME IInv', NEW id \in Ids, NEW p \in Positions, Holds(p, id)'
  PROVE  Contents(id)' = buckets'[p].slot
<1>1. \A q \in Positions : Holds(q, id)' => q = p
  BY DEF IInv, UniqueInv, Holds
<1>2. (CHOOSE q \in Positions : Holds(q, id)') = p
  BY <1>1
<1> QED BY <1>2 DEF Contents

\* Ids that are held at the same places, or moved together, keep their slot.
LEMMA ContentsKept ==
  ASSUME IInv, IInv', NEW id \in Ids,
         \A p \in Positions : Holds(p, id) =>
            \E q \in Positions : Holds(q, id)' /\ buckets'[q] = buckets[p],
         \A q \in Positions : Holds(q, id)' => \E p \in Positions : Holds(p, id)
  PROVE  Contents(id)' = Contents(id)
<1>1. CASE \E p \in Positions : Holds(p, id)
  <2>1. PICK p \in Positions : Holds(p, id)
    BY <1>1
  <2>2. PICK q \in Positions : Holds(q, id)' /\ buckets'[q] = buckets[p]
    BY <2>1
  <2> QED BY <2>1, <2>2, ContentsAt, ContentsAtPrime
<1>2. CASE ~\E p \in Positions : Holds(p, id)
  BY <1>2 DEF Contents
<1> QED BY <1>1, <1>2

\* The abstract map and its steps.
MapNow == [id \in Ids |-> Contents(id)]

\* Every step of the table is a step of the map or changes nothing of it.
LEMMA StepRefines == IInv /\ IInv' /\ [Next]_vars => [Map!Next]_<<MapNow, repairing>>
<1> SUFFICES ASSUME IInv, IInv', [Next]_vars
             PROVE  Map!Next \/ UNCHANGED <<MapNow, repairing>>
  OBVIOUS
<1>0. buckets \in [Positions -> Entries \cup {Empty}]
  BY DEF IInv, TypeOK
<1>1. ASSUME NEW id \in Ids, NEW slot \in Slots, Insert(id, slot)
      PROVE  Map!Next
  <2>1. PICK p \in Positions :
          /\ StopsAt(id, p) /\ buckets[p] = Empty
          /\ buckets' = [buckets EXCEPT ![p] = [id |-> id, slot |-> slot]]
    BY <1>1 DEF Insert
  <2>2. ~repairing
    BY <1>1 DEF Insert
  <2>3. \A q \in Positions : buckets'[q] = IF q = p THEN [id |-> id, slot |-> slot]
                                       ELSE buckets[q]
    BY <1>0, <2>1
  <2>4. [id |-> id, slot |-> slot] # Empty
    BY IndexAssumption DEF Entries
  <2>5. Contents(id) = NoSlot
    BY <2>1, <2>2, NotFound DEF Contents
  <2>6. Holds(p, id)' /\ buckets'[p].slot = slot
    BY <2>3, <2>4 DEF Holds
  <2>7. Contents(id)' = slot
    BY <2>6, ContentsAtPrime
  <2>8. \A other \in Ids : other # id => Contents(other)' = Contents(other)
    <3> SUFFICES ASSUME NEW other \in Ids, other # id
                 PROVE  Contents(other)' = Contents(other)
      OBVIOUS
    <3>1. ASSUME NEW q \in Positions, Holds(q, other)
          PROVE  Holds(q, other)' /\ buckets'[q] = buckets[q]
      BY <3>1, <2>1, <2>3, <2>4 DEF Holds
    <3>2. ASSUME NEW q \in Positions, Holds(q, other)'
          PROVE  Holds(q, other)
      BY <3>2, <2>1, <2>3, <2>4 DEF Holds
    <3> QED BY <3>1, <3>2, ContentsKept
  <2>9. MapNow' = [MapNow EXCEPT ![id] = slot] /\ MapNow[id] = NoSlot
    BY <2>5, <2>7, <2>8 DEF MapNow
  <2>10. ~repairing /\ UNCHANGED repairing
    BY <1>1 DEF Insert, repairVars
  <2> QED BY <2>9, <2>10 DEF MapNow, Map!Next, Map!Put
<1>2. ASSUME NEW id \in Ids, Erase(id)
      PROVE  Map!Next
  <2>1. PICK p \in Positions :
          /\ StopsAt(id, p) /\ buckets[p] # Empty
          /\ buckets' = [buckets EXCEPT ![p] = Empty]
    BY <1>2 DEF Erase
  <2>2. Holds(p, id)
    BY <2>1 DEF StopsAt
  <2>3. \A q \in Positions : buckets'[q] = IF q = p THEN Empty ELSE buckets[q]
    BY <1>0, <2>1
  <2>4. Contents(id) # NoSlot
    BY <2>2, ContentsAt, IndexAssumption
  <2>5. Contents(id)' = NoSlot
    BY <2>2, <2>3 DEF Contents, Holds, IInv, UniqueInv
  <2>6. \A other \in Ids : other # id => Contents(other)' = Contents(other)
    <3> SUFFICES ASSUME NEW other \in Ids, other # id
                 PROVE  Contents(other)' = Contents(other)
      OBVIOUS
    <3>1. ASSUME NEW q \in Positions, Holds(q, other)
          PROVE  Holds(q, other)' /\ buckets'[q] = buckets[q]
      BY <3>1, <2>2, <2>3 DEF Holds
    <3>2. ASSUME NEW q \in Positions, Holds(q, other)'
          PROVE  Holds(q, other)
      BY <3>2, <2>2, <2>3 DEF Holds
    <3> QED BY <3>1, <3>2, ContentsKept
  <2>7. MapNow' = [MapNow EXCEPT ![id] = NoSlot] /\ MapNow[id] # NoSlot
    BY <2>4, <2>5, <2>6 DEF MapNow
  <2>8. ~repairing /\ repairing' = TRUE
    BY <1>2 DEF Erase
  <2> QED BY <2>7, <2>8 DEF MapNow, Map!Next, Map!Remove
<1>3. CASE RepairStep
  <2>1. /\ repairing /\ buckets[hole] = Empty /\ hole \in Positions
        /\ scanned + 1 < Buckets /\ buckets[Candidate] # Empty
    BY <1>3 DEF RepairStep, Scanning, IInv, HoleInv, TypeOK
  <2>2. Candidate \in Positions
    BY <2>1, CandidateFacts
  <2>3. CASE MovesBack
    <3>1. buckets' = [buckets EXCEPT ![hole] = buckets[Candidate],
                                     ![Candidate] = Empty]
      BY <1>3, <2>3 DEF RepairStep
    <3> DEFINE c == Candidate
    <3> HIDE DEF c
    <3>2. \A q \in Positions : buckets'[q] = IF q = c THEN Empty
                            ELSE IF q = hole THEN buckets[c] ELSE buckets[q]
      BY <1>0, <2>1, <2>2, <3>1 DEF c
    <3>3. ASSUME NEW id \in Ids PROVE Contents(id)' = Contents(id)
      <4>1. ASSUME NEW p \in Positions, Holds(p, id)
            PROVE  \E q \in Positions : Holds(q, id)' /\ buckets'[q] = buckets[p]
        <5>1. p # hole
          BY <2>1, <4>1 DEF Holds
        <5>2. CASE p = c
          BY <2>1, <3>2, <4>1, <5>1, <5>2 DEF Holds
        <5>3. CASE p # c
          BY <3>2, <4>1, <5>1, <5>3 DEF Holds
        <5> QED BY <5>2, <5>3
      <4>2. ASSUME NEW q \in Positions, Holds(q, id)'
            PROVE  \E p \in Positions : Holds(p, id)
        <5>1. q # c
          BY <3>2, <4>2 DEF Holds
        <5>2. CASE q = hole
          BY <2>1, <2>2, <3>2, <4>2, <5>1, <5>2 DEF Holds, c
        <5>3. CASE q # hole
          BY <3>2, <4>2, <5>1, <5>3 DEF Holds
        <5> QED BY <5>2, <5>3
      <4> QED BY <4>1, <4>2, ContentsKept
    <3>4. UNCHANGED repairing
      BY <1>3 DEF RepairStep
    <3> QED BY <3>3, <3>4 DEF MapNow
  <2>4. CASE ~MovesBack
    BY <1>3, <2>4 DEF RepairStep, MapNow, Contents, Holds
  <2> QED BY <2>3, <2>4
<1>4. CASE UNCHANGED vars
  BY <1>4 DEF vars, repairVars, MapNow, Contents, Holds
<1>6. CASE RepairDone
  BY <1>6 DEF RepairDone, MapNow, Contents, Holds, Map!Next, Map!Settle
<1>5. CASE Clear
  <2>1. \A p \in Positions : buckets'[p] = Empty
    BY <1>5 DEF Clear
  <2>2. \A id \in Ids : Contents(id)' = NoSlot
    BY <2>1 DEF Contents, Holds
  <2>3. MapNow' = [id \in Ids |-> NoSlot]
    BY <2>2 DEF MapNow
  <2>4. ~repairing /\ UNCHANGED repairing
    BY <1>5 DEF Clear, repairVars
  <2> QED BY <2>3, <2>4 DEF MapNow, Map!Next, Map!Forget
<1> QED BY <1>1, <1>2, <1>3, <1>4, <1>5, <1>6 DEF Next

\* Insertions bind an id, erasures unbind it, and the moves of the repair are
\* invisible: the hash table implements a map.
THEOREM Refinement == Spec => ImplementsMap
<1>1. Init => Map!Init
  BY DEF Init, Map!Init, Contents, Holds
<1>2. IInv /\ IInv' /\ [Next]_vars => [Map!Next]_<<[id \in Ids |-> Contents(id)], repairing>>
  BY StepRefines DEF MapNow
<1> QED BY <1>1, <1>2, Invariance, PTL DEF Spec, ImplementsMap, Map!Spec
=============================================================================
