-------------------------- MODULE OrderIndex_proofs --------------------------
(***************************************************************************)
(* Proofs about OrderIndex, for any keys, values and hash functions and    *)
(* any initial capacity of at least two slots.                             *)
(***************************************************************************)
EXTENDS OrderIndex, FiniteSetTheorems, WellFoundedInduction, NaturalsInduction, TLAPS

\* The state apart from the chains: loop variables are slots, a table being replaced
\* has half the size of the new one.
Shape ==
  /\ hash \in Hashes
  /\ m_mask \in Nat \ {0}
  /\ m_slots \in [0 .. m_mask -> Slot]
  /\ m_count \in Nat
  /\ phase \in {"idle", "shift", "rehash"}
  /\ hole \in 0 .. m_mask
  /\ next \in 0 .. m_mask
  /\ pending \in Slot
  /\ phase # "rehash" => old = << >>

\* What a rehash has still to do fits: old has n slots, next runs over them.
Rehashing(n) ==
  /\ 2 * n = m_mask + 1
  /\ old \in [0 .. n - 1 -> Slot]
  /\ next \in 0 .. n
  /\ pending.used
  /\ (m_count + Cardinality(Uncopied)) * LOAD_FACTOR_DEN < n * LOAD_FACTOR_NUM

\* No key is in two slots, of one table or of both.
Distinct ==
  /\ \A i, j \in Used : m_slots[i].key = m_slots[j].key => i = j
  /\ \A i, j \in Uncopied : old[i].key = old[j].key => i = j
  /\ \A i \in Used, j \in Uncopied : m_slots[i].key # old[j].key

\* In remove_at: the hole is free, the slots from it to next are used, and the load
\* leaves another free slot at which the loop will end.
Shifting ==
  /\ next # hole
  /\ ~ m_slots[hole].used
  /\ \A j \in 0 .. m_mask :
       (j # hole /\ Distance(hole, j) < Distance(hole, next)) => m_slots[j].used
  /\ (m_count + 1) * LOAD_FACTOR_DEN < (m_mask + 1) * LOAD_FACTOR_NUM

\* The inductive invariant.
IInv ==
  /\ Shape
  /\ phase = "rehash" => \E n \in 2 .. m_mask : Rehashing(n)
  /\ phase = "shift" => Shifting
  /\ Distinct
  /\ m_count = Cardinality(Used)
  /\ LoadStaysBelowLimit
  /\ ProbeChains

-----------------------------------------------------------------------------
(***************************************************************************)
(* Slots in a ring.                                                        *)
(***************************************************************************)

LEMMA WrapInside ==
  ASSUME m_mask \in Nat, NEW x \in Nat
  PROVE  Wrap(x) \in 0 .. m_mask
BY DEF Wrap

\* The slot d steps after h is at distance d from h.
LEMMA WrapDistance ==
  ASSUME m_mask \in Nat, NEW h \in 0 .. m_mask, NEW d \in 0 .. m_mask
  PROVE  /\ Wrap(h + d) \in 0 .. m_mask
         /\ Distance(h, Wrap(h + d)) = d
<1>1. (h + d) % (m_mask + 1) = IF h + d <= m_mask THEN h + d ELSE h + d - (m_mask + 1)
  OBVIOUS
<1> QED
  BY <1>1 DEF Wrap, Distance

\* Every slot is reached by as many steps as its distance says.
LEMMA DistanceWraps ==
  ASSUME m_mask \in Nat, NEW h \in 0 .. m_mask, NEW j \in 0 .. m_mask
  PROVE  /\ Distance(h, j) \in 0 .. m_mask
         /\ Wrap(h + Distance(h, j)) = j
<1>1. Distance(h, j) \in 0 .. m_mask
  BY DEF Distance
<1>2. (h + Distance(h, j)) % (m_mask + 1)
        = IF h + Distance(h, j) <= m_mask THEN h + Distance(h, j)
                                          ELSE h + Distance(h, j) - (m_mask + 1)
  BY <1>1
<1> QED
  BY <1>1, <1>2 DEF Wrap, Distance

\* Distances from one slot tell slots apart.
LEMMA DistanceInjective ==
  ASSUME m_mask \in Nat, NEW h \in 0 .. m_mask,
         NEW i \in 0 .. m_mask, NEW j \in 0 .. m_mask, Distance(h, i) = Distance(h, j)
  PROVE  i = j
BY DEF Distance

LEMMA HomeInside ==
  ASSUME Shape, NEW k \in Key
  PROVE  home(k) \in 0 .. m_mask
BY WrapInside, HashAssumption DEF Shape, home

\* A slot in use holds a key of the table.
LEMMA UsedSlot ==
  ASSUME Shape, NEW i \in Used
  PROVE  /\ i \in 0 .. m_mask
         /\ m_slots[i].key \in Key /\ m_slots[i].value \in Value
         /\ m_slots[i] = Entry(m_slots[i].key, m_slots[i].value)
         /\ home(m_slots[i].key) \in 0 .. m_mask
<1>1. i \in 0 .. m_mask /\ m_slots[i].used /\ m_slots[i] \in Slot
  BY DEF Used, Shape
<1>2. m_slots[i] \in [used : {TRUE}, key : Key, value : Value]
  <2>1. m_slots[i] # Unused
    BY <1>1 DEF Unused
  <2> QED
    BY <1>1, <2>1 DEF Slot
<1>3. ASSUME NEW r \in [used : {TRUE}, key : Key, value : Value]
      PROVE  r.key \in Key /\ r.value \in Value /\ r = Entry(r.key, r.value)
  BY DEF Entry
<1>4. m_slots[i].key \in Key
  BY <1>2
<1> QED
  BY <1>1, <1>2, <1>3, <1>4, HomeInside

-----------------------------------------------------------------------------
(***************************************************************************)
(* Probing.                                                                *)
(***************************************************************************)

\* A set of numbers that is not empty has a least one.
LEMMA LeastElement ==
  ASSUME NEW T, T \subseteq Nat, T # {}
  PROVE  \E x \in T : \A y \in T : x <= y
<1> DEFINE R == {ss \in Nat \X Nat : ss[1] < ss[2]}
<1>1. IsWellFoundedOn(R, Nat)
  BY NatLessThanWellFounded DEF OpToRel
<1>2. PICK x \in T : \A y \in T : ~ (<<y, x>> \in R)
  <2> HIDE DEF R
  <2> QED
    BY <1>1, WFMin
<1>3. ASSUME NEW y \in T PROVE x <= y
  <2>1. x \in Nat /\ y \in Nat /\ ~ (<<y, x>> \in R)
    BY <1>2
  <2>2. ~ (y < x)
    BY <2>1
  <2> QED
    BY <2>1, <2>2
<1> QED
  BY <1>3

LEMMA UsedFinite ==
  ASSUME Shape
  PROVE  IsFiniteSet(Used) /\ Cardinality(Used) \in Nat
<1>1. IsFiniteSet(0 .. m_mask)
  BY FS_Interval DEF Shape
<1> QED
  BY <1>1, FS_Subset, FS_CardinalityType DEF Used

\* A table within its load limit has a free slot.
LEMMA FreeSlot ==
  ASSUME Shape, m_count = Cardinality(Used), LoadStaysBelowLimit
  PROVE  \E i \in 0 .. m_mask : ~ m_slots[i].used
<1>1. Cardinality(0 .. m_mask) = m_mask + 1
  BY FS_Interval DEF Shape
<1>2. Used # 0 .. m_mask
  BY <1>1 DEF LoadStaysBelowLimit, Shape, LOAD_FACTOR_NUM, LOAD_FACTOR_DEN
<1> QED
  BY <1>2 DEF Used

\* probe(k) is the first slot from the home of k on that is free or holds k.
LEMMA Probe ==
  ASSUME Shape, \E i \in 0 .. m_mask : ~ m_slots[i].used, NEW k \in Key
  PROVE  /\ probe(k) \in 0 .. m_mask
         /\ StopsAt(k, probe(k))
         /\ \A j \in 0 .. m_mask :
              Distance(home(k), j) < Distance(home(k), probe(k)) => ~ StopsAt(k, j)
<1> DEFINE h == home(k)
           T == {d \in 0 .. m_mask : StopsAt(k, Wrap(h + d))}
           First(d) == /\ StopsAt(k, Wrap(h + d))
                       /\ \A e \in 0 .. d - 1 : ~ StopsAt(k, Wrap(h + e))
<1>0. m_mask \in Nat /\ h \in 0 .. m_mask
  BY HomeInside DEF Shape
<1>1. PICK i \in 0 .. m_mask : ~ m_slots[i].used
  OBVIOUS
<1>2. Distance(h, i) \in T
  BY <1>0, <1>1, DistanceWraps DEF StopsAt
<1>3. T \subseteq Nat
  OBVIOUS
<1>4. PICK d \in T : \A e \in T : d <= e
  <2> HIDE DEF T
  <2> QED
    BY <1>0, <1>2, <1>3, LeastElement
<1>6. d \in 0 .. m_mask /\ First(d)
  <2>0. d \in 0 .. m_mask /\ StopsAt(k, Wrap(h + d))
    OBVIOUS
  <2>1. ASSUME NEW e \in 0 .. d - 1, StopsAt(k, Wrap(h + e))
        PROVE  FALSE
    <3>1. e \in T
      BY <1>0, <2>0, <2>1
    <3>2. d <= e /\ e <= d - 1 /\ e \in Int /\ d \in Int
      BY <1>4, <2>0, <3>1
    <3> QED
      BY <3>2
  <2> QED
    BY <2>0, <2>1
<1>7. PICK c \in 0 .. m_mask : First(c) /\ probe(k) = Wrap(h + c)
  <2>1. \E c \in 0 .. m_mask : First(c)
    BY <1>6
  <2>2. probe(k) = Wrap(h + (CHOOSE c \in 0 .. m_mask : First(c)))
    BY DEF probe
  <2> HIDE DEF First
  <2> QED
    BY <2>1, <2>2
<1>8. probe(k) \in 0 .. m_mask /\ Distance(h, probe(k)) = c
  BY <1>0, <1>7, WrapDistance
<1>9. ASSUME NEW j \in 0 .. m_mask, Distance(h, j) < c
      PROVE  ~ StopsAt(k, j)
  <2>1. Distance(h, j) \in 0 .. c - 1 /\ Wrap(h + Distance(h, j)) = j
    BY <1>0, <1>9, DistanceWraps
  <2> QED
    BY <1>7, <2>1
<1> QED
  BY <1>7, <1>8, <1>9

\* Outside remove_at, a probe for a stored key ends at its slot.
LEMMA ProbeHit ==
  ASSUME IInv, phase # "shift", NEW i \in Used
  PROVE  probe(m_slots[i].key) = i
<1> DEFINE k == m_slots[i].key
           h == home(k)
<1>1. Shape /\ m_mask \in Nat /\ k \in Key /\ i \in 0 .. m_mask /\ h \in 0 .. m_mask
  BY UsedSlot DEF IInv, Shape
<1>2. \E j \in 0 .. m_mask : ~ m_slots[j].used
  BY FreeSlot DEF IInv
<1>3. /\ probe(k) \in 0 .. m_mask
      /\ StopsAt(k, probe(k))
      /\ \A j \in 0 .. m_mask : Distance(h, j) < Distance(h, probe(k)) => ~ StopsAt(k, j)
  <2> HIDE DEF k
  <2> QED
    BY <1>1, <1>2, Probe
<1>4. \A j \in PassedBefore(i) : m_slots[j].used
  BY DEF IInv, ProbeChains
<1>5. StopsAt(k, i)
  BY DEF StopsAt
<1>6. Distance(h, i) \in 0 .. m_mask /\ Distance(h, probe(k)) \in 0 .. m_mask
  BY <1>1, <1>3, DistanceWraps
<1>7. ~ (Distance(h, i) < Distance(h, probe(k)))
  BY <1>1, <1>3, <1>5
<1>8. CASE Distance(h, probe(k)) < Distance(h, i)
  <2>1. probe(k) \in PassedBefore(i)
    BY <1>3, <1>8 DEF PassedBefore
  <2>2. probe(k) \in Used /\ m_slots[probe(k)].key = k
    BY <1>3, <1>4, <2>1 DEF StopsAt, Used
  <2> QED
    BY <2>2 DEF IInv, Distinct
<1>9. CASE Distance(h, probe(k)) = Distance(h, i)
  BY <1>1, <1>3, <1>9, DistanceInjective
<1> QED
  BY <1>6, <1>7, <1>8, <1>9

-----------------------------------------------------------------------------
(***************************************************************************)
(* Placing an entry.                                                       *)
(***************************************************************************)

LEMMA NothingUncopied ==
  ASSUME old = << >>
  PROVE  Uncopied = {}
BY DEF Uncopied

LEMMA EntryFields ==
  ASSUME NEW k \in Key, NEW v \in Value
  PROVE  /\ Entry(k, v) \in Slot
         /\ Entry(k, v).used /\ Entry(k, v).key = k /\ Entry(k, v).value = v
BY DEF Entry, Slot

\* The end of insert, outside remove_at: the entry is in the slot where the probe for
\* its key ends, no other slot holds the key, and every chain is whole.
LEMMA PlaceStep ==
  ASSUME IInv, phase # "shift", NEW k \in Key, NEW v \in Value,
         Place(k, v), UNCHANGED <<hash, m_mask>>
  PROVE  /\ probe(k) \in 0 .. m_mask
         /\ m_slots' = [m_slots EXCEPT ![probe(k)] = Entry(k, v)]
         /\ m_slots' \in [0 .. m_mask -> Slot]
         /\ Used' = Used \cup {probe(k)}
         /\ \A i \in Used : m_slots[i].key = k <=> i = probe(k)
         /\ \A i, j \in Used' : m_slots'[i].key = m_slots'[j].key => i = j
         /\ \A i \in Used' : \A j \in PassedBefore(i)' : m_slots'[j].used
         /\ m_count' = Cardinality(Used')
         /\ m_count' \in Nat
         /\ m_count' = IF probe(k) \in Used THEN m_count ELSE m_count + 1
<1> DEFINE p == probe(k)
<1>1. /\ Shape /\ m_mask \in Nat /\ m_count = Cardinality(Used)
      /\ m_slots \in [0 .. m_mask -> Slot] /\ m_mask' = m_mask /\ hash' = hash
      /\ m_count \in Nat
  BY DEF IInv, Shape
<1>2. \E j \in 0 .. m_mask : ~ m_slots[j].used
  BY FreeSlot DEF IInv
<1>3. /\ p \in 0 .. m_mask
      /\ StopsAt(k, p)
      /\ \A j \in 0 .. m_mask :
           Distance(home(k), j) < Distance(home(k), p) => ~ StopsAt(k, j)
  BY <1>1, <1>2, Probe
<1>4. m_slots' = [m_slots EXCEPT ![p] = Entry(k, v)]
  BY DEF Place
<1>5. m_slots' \in [0 .. m_mask -> Slot]
  BY <1>1, <1>3, <1>4, EntryFields
<1>6. m_slots'[p] = Entry(k, v) /\ \A i \in 0 .. m_mask : i # p => m_slots'[i] = m_slots[i]
  BY <1>1, <1>3, <1>4
<1>7. m_slots'[p].used /\ m_slots'[p].key = k
  BY <1>6, EntryFields
<1>8. Used' = Used \cup {p}
  BY <1>1, <1>3, <1>6, <1>7 DEF Used
<1>9. ASSUME NEW i \in Used
      PROVE  m_slots[i].key = k <=> i = p
  <2>1. m_slots[i].key = k => i = p
    BY ProbeHit
  <2>2. i = p => m_slots[i].key = k
    BY <1>3 DEF StopsAt, Used
  <2> QED
    BY <2>1, <2>2
<1>10. ASSUME NEW i \in Used', NEW j \in Used', m_slots'[i].key = m_slots'[j].key
       PROVE  i = j
  <2>1. CASE i = p \/ j = p
    BY <1>6, <1>7, <1>8, <1>9, <1>10, <2>1 DEF Used
  <2>2. CASE i # p /\ j # p
    BY <1>6, <1>8, <1>10, <2>2 DEF IInv, Distinct, Used
  <2> QED
    BY <2>1, <2>2
<1>11. ASSUME NEW i \in Used', NEW j \in PassedBefore(i)'
       PROVE  m_slots'[j].used
  <2>1. CASE i # p
    <3>1. i \in Used /\ m_slots'[i] = m_slots[i]
      BY <1>6, <1>8, <2>1 DEF Used
    <3>2. j \in PassedBefore(i)
      BY <1>1, <1>11, <3>1 DEF PassedBefore, Distance, home, Wrap
    <3>3. m_slots[j].used /\ j \in 0 .. m_mask
      BY <3>1, <3>2 DEF IInv, ProbeChains, PassedBefore
    <3> QED
      BY <1>6, <1>7, <3>3
  <2>2. CASE i = p
    <3>1. j \in 0 .. m_mask /\ Distance(home(k), j) < Distance(home(k), p)
      BY <1>1, <1>7, <1>11, <2>2 DEF PassedBefore, Distance, home, Wrap
    <3>2. m_slots[j].used
      BY <1>3, <3>1 DEF StopsAt
    <3> QED
      BY <1>6, <1>7, <3>1, <3>2
  <2> QED
    BY <2>1, <2>2
<1>12. m_count' = IF p \in Used THEN m_count ELSE m_count + 1
  BY <1>3 DEF Place, Used
<1>13. m_count' = Cardinality(Used') /\ m_count' \in Nat
  <2>1. IsFiniteSet(Used)
    BY <1>1, UsedFinite
  <2>2. CASE p \in Used
    <3>1. Used' = Used
      BY <1>8, <2>2
    <3> QED
      BY <1>1, <1>12, <2>2, <3>1
  <2>3. CASE p \notin Used
    <3>1. Cardinality(Used \cup {p}) = Cardinality(Used) + 1
      BY <2>1, <2>3, FS_AddElement
    <3> QED
      BY <1>1, <1>8, <1>12, <2>3, <3>1
  <2> QED
    BY <2>2, <2>3
<1> QED
  BY <1>3, <1>4, <1>5, <1>8, <1>9, <1>10, <1>11, <1>12, <1>13

LEMMA InsertStep ==
  ASSUME IInv, NEW k \in Key, NEW v \in Value, Insert(k, v)
  PROVE  IInv'
<1>1. /\ phase = "idle" /\ phase' = "idle" /\ Place(k, v) /\ ~ Overloaded
      /\ UNCHANGED <<hash, m_mask, hole, next, old, pending>>
  BY DEF Insert
<1>2. /\ m_slots' \in [0 .. m_mask -> Slot]
      /\ \A i, j \in Used' : m_slots'[i].key = m_slots'[j].key => i = j
      /\ \A i \in Used' : \A j \in PassedBefore(i)' : m_slots'[j].used
      /\ m_count' = Cardinality(Used')
      /\ m_count' \in Nat
      /\ m_count' = IF probe(k) \in Used THEN m_count ELSE m_count + 1
  BY <1>1, PlaceStep
<1>3. old = << >>
  BY <1>1 DEF IInv, Shape
<1>4. Shape'
  BY <1>1, <1>2 DEF IInv, Shape
<1>5. Distinct'
  <2>1. Uncopied' = {}
    BY <1>1, <1>3 DEF Uncopied
  <2> QED
    BY <1>2, <2>1 DEF Distinct
<1>6. LoadStaysBelowLimit'
  BY <1>1, <1>2 DEF IInv, Shape, Overloaded, LoadStaysBelowLimit,
                    LOAD_FACTOR_NUM, LOAD_FACTOR_DEN
<1>7. ProbeChains'
  BY <1>1, <1>2 DEF ProbeChains
<1> QED
  BY <1>1, <1>2, <1>4, <1>5, <1>6, <1>7 DEF IInv

LEMMA InsertGrowsStep ==
  ASSUME IInv, NEW k \in Key, NEW v \in Value, InsertGrows(k, v)
  PROVE  IInv'
<1>0. PICK n \in Nat : n = m_mask + 1
  BY DEF IInv, Shape
<1>1. /\ phase = "idle" /\ phase' = "rehash" /\ old' = m_slots
      /\ m_slots' = EmptyTable(2 * n) /\ m_mask' = 2 * n - 1 /\ m_count' = 0
      /\ next' = 0 /\ pending' = Entry(k, v) /\ hash' = hash /\ hole' = hole
  BY <1>0 DEF InsertGrows
<1>2. /\ Shape /\ m_mask \in Nat \ {0} /\ n = m_mask + 1 /\ hash \in Hashes
      /\ m_slots \in [0 .. m_mask -> Slot] /\ hole \in 0 .. m_mask
  BY <1>0 DEF IInv, Shape
<1>3. /\ m_slots' \in [0 .. m_mask' -> Slot]
      /\ \A i \in 0 .. m_mask' : ~ m_slots'[i].used
  BY <1>1, <1>2 DEF EmptyTable, Slot, Unused
<1>4. Used' = {}
  BY <1>3 DEF Used
<1>5. Uncopied' = Used
  BY <1>1, <1>2 DEF Uncopied, Used
<1>6. Shape'
  BY <1>1, <1>2, <1>3, EntryFields DEF Shape
<1>7. Rehashing(n)' /\ n \in 2 .. m_mask'
  <2>1. 2 * n = m_mask' + 1 /\ n \in 2 .. m_mask'
    BY <1>1, <1>2
  <2>2. old' \in [0 .. n - 1 -> Slot] /\ next' \in 0 .. n /\ pending'.used
    BY <1>1, <1>2, EntryFields
  <2>3. (m_count' + Cardinality(Uncopied')) * LOAD_FACTOR_DEN < n * LOAD_FACTOR_NUM
    BY <1>1, <1>2, <1>5 DEF IInv, Shape, LoadStaysBelowLimit, LOAD_FACTOR_NUM, LOAD_FACTOR_DEN
  <2> QED
    BY <2>1, <2>2, <2>3 DEF Rehashing
<1>8. Distinct'
  BY <1>1, <1>4, <1>5 DEF Distinct, IInv
<1>9. m_count' = Cardinality(Used')
  BY <1>1, <1>4, FS_EmptySet
<1>10. LoadStaysBelowLimit'
  BY <1>1, <1>2 DEF LoadStaysBelowLimit, LOAD_FACTOR_NUM, LOAD_FACTOR_DEN
<1>11. ProbeChains'
  BY <1>4 DEF ProbeChains
<1> QED
  BY <1>1, <1>6, <1>7, <1>8, <1>9, <1>10, <1>11 DEF IInv

\* An old entry whose turn has come goes to a slot of its own in the new table.
LEMMA ReinsertStep ==
  ASSUME IInv, Reinsert
  PROVE  IInv'
<1>1. /\ phase = "rehash" /\ phase' = "rehash" /\ next \in DOMAIN old /\ next' = next + 1
      /\ UNCHANGED <<hash, m_mask, hole, old, pending>>
  BY DEF Reinsert
<1>2. PICK n \in 2 .. m_mask : Rehashing(n)
  BY <1>1 DEF IInv
<1>3. /\ 2 * n = m_mask + 1 /\ old \in [0 .. n - 1 -> Slot] /\ next \in 0 .. n - 1
      /\ next' \in 0 .. n /\ pending.used /\ n \in Nat /\ next' \in 0 .. m_mask
  BY <1>1, <1>2 DEF Rehashing, IInv, Shape
<1>4. IsFiniteSet(Uncopied) /\ Cardinality(Uncopied) \in Nat
  <2>1. Uncopied \subseteq 0 .. n - 1 /\ IsFiniteSet(0 .. n - 1)
    BY <1>3, FS_Interval DEF Uncopied
  <2> QED
    BY <2>1, FS_Subset, FS_CardinalityType
<1>5. CASE ~ old[next].used
  <2>1. UNCHANGED <<m_slots, m_count>>
    BY <1>5 DEF Reinsert
  <2>2. Used' = Used
    BY <1>1, <2>1 DEF Used
  <2>3. Uncopied' = Uncopied
    BY <1>1, <1>3, <1>5 DEF Uncopied
  <2>4. Shape' /\ LoadStaysBelowLimit'
    BY <1>1, <1>3, <2>1 DEF IInv, Shape, LoadStaysBelowLimit
  <2>5. Rehashing(n)'
    BY <1>1, <1>2, <1>3, <2>1, <2>3 DEF Rehashing
  <2>6. Distinct'
    BY <1>1, <2>1, <2>2, <2>3 DEF Distinct, IInv
  <2>7. ProbeChains'
    BY <1>1, <2>1, <2>2 DEF IInv, ProbeChains, PassedBefore, Distance, home, Wrap
  <2>8. m_count' = Cardinality(Used')
    BY <2>1, <2>2 DEF IInv
  <2> QED
    BY <1>1, <2>4, <2>5, <2>6, <2>7, <2>8 DEF IInv
<1>6. CASE old[next].used
  <2> DEFINE k == old[next].key
             v == old[next].value
  <2>0. Place(k, v)
    BY <1>6 DEF Reinsert
  <2>1. k \in Key /\ v \in Value
    <3>1. old[next] \in Slot /\ old[next] # Unused
      BY <1>3, <1>6 DEF Unused
    <3> QED
      BY <3>1 DEF Slot
  <2>2. next \in Uncopied /\ Uncopied' = Uncopied \ {next}
    BY <1>1, <1>3, <1>6 DEF Uncopied
  <2>3. /\ m_slots' = [m_slots EXCEPT ![probe(k)] = Entry(k, v)]
        /\ probe(k) \in 0 .. m_mask
        /\ m_slots' \in [0 .. m_mask -> Slot]
        /\ Used' = Used \cup {probe(k)}
        /\ \A i \in Used : m_slots[i].key = k <=> i = probe(k)
        /\ \A i, j \in Used' : m_slots'[i].key = m_slots'[j].key => i = j
        /\ \A i \in Used' : \A j \in PassedBefore(i)' : m_slots'[j].used
        /\ m_count' = Cardinality(Used')
        /\ m_count' \in Nat
        /\ m_count' = IF probe(k) \in Used THEN m_count ELSE m_count + 1
    <3> HIDE DEF k, v
    <3> QED
      BY <1>1, <2>0, <2>1, PlaceStep
  <2>4. probe(k) \notin Used
    BY <2>2, <2>3 DEF IInv, Distinct
  <2>5. Shape'
    BY <1>1, <1>3, <2>3 DEF IInv, Shape
  <2>6. Rehashing(n)'
    <3>1. Cardinality(Uncopied') = Cardinality(Uncopied) - 1
      BY <1>4, <2>2, FS_RemoveElement
    <3>2. m_count' + Cardinality(Uncopied') = m_count + Cardinality(Uncopied)
      BY <1>4, <2>3, <2>4, <3>1 DEF IInv, Shape
    <3> QED
      BY <1>1, <1>2, <1>3, <3>2 DEF Rehashing
  <2>7. Distinct'
    <3>1. ASSUME NEW i \in Used', NEW j \in Uncopied'
          PROVE  m_slots'[i].key # old'[j].key
      <4>1. CASE i = probe(k)
        <5>1. m_slots'[i].key = k
          BY <2>1, <2>3, <4>1, EntryFields DEF IInv, Shape
        <5> QED
          BY <1>1, <2>2, <5>1 DEF IInv, Distinct
      <4>2. CASE i # probe(k)
        BY <1>1, <2>2, <2>3, <4>2 DEF IInv, Distinct, Shape, Used
      <4> QED
        BY <4>1, <4>2
    <3> QED
      BY <1>1, <2>2, <2>3, <3>1 DEF IInv, Distinct
  <2>8. LoadStaysBelowLimit'
    <3>1. Cardinality(Uncopied') \in Nat
      BY <1>4, <2>2, FS_RemoveElement, FS_CardinalityType
    <3> QED
      BY SMTT(60), <1>1, <1>3, <2>3, <2>6, <3>1
      DEF Rehashing, LoadStaysBelowLimit, LOAD_FACTOR_NUM, LOAD_FACTOR_DEN
  <2>9. ProbeChains'
    BY <1>1, <2>3 DEF ProbeChains
  <2> QED
    BY <1>1, <2>3, <2>5, <2>6, <2>7, <2>8, <2>9 DEF IInv
<1> QED
  BY <1>5, <1>6

LEMMA FinishInsertStep ==
  ASSUME IInv, FinishInsert
  PROVE  IInv'
<1>1. /\ phase = "rehash" /\ phase' = "idle" /\ next \notin DOMAIN old
      /\ Place(pending.key, pending.value)
      /\ next' = 0 /\ old' = << >> /\ pending' = Unused /\ UNCHANGED <<hash, m_mask, hole>>
  BY DEF FinishInsert
<1>2. PICK n \in 2 .. m_mask : Rehashing(n)
  BY <1>1 DEF IInv
<1>3. pending.key \in Key /\ pending.value \in Value
  <2>1. pending \in Slot /\ pending.used /\ pending # Unused
    BY <1>2 DEF Rehashing, IInv, Shape, Unused
  <2> QED
    BY <2>1 DEF Slot
<1>4. /\ m_slots' \in [0 .. m_mask -> Slot]
      /\ \A i, j \in Used' : m_slots'[i].key = m_slots'[j].key => i = j
      /\ \A i \in Used' : \A j \in PassedBefore(i)' : m_slots'[j].used
      /\ m_count' = Cardinality(Used')
      /\ m_count' \in Nat
      /\ m_count' <= m_count + 1
  BY <1>1, <1>3, PlaceStep DEF IInv, Shape
<1>5. Uncopied = {} /\ Uncopied' = {}
  BY <1>1, <1>2 DEF Uncopied, Rehashing
<1>6. Shape'
  <2>1. Unused \in Slot
    BY DEF Slot
  <2> QED
    BY <1>1, <1>4, <2>1 DEF IInv, Shape
<1>7. Distinct'
  BY <1>4, <1>5 DEF Distinct
<1>8. LoadStaysBelowLimit'
  <2>1. Cardinality(Uncopied) = 0
    BY <1>5, FS_EmptySet
  <2> QED
    BY <1>1, <1>2, <1>4, <2>1
    DEF IInv, Shape, Rehashing, LoadStaysBelowLimit, LOAD_FACTOR_NUM, LOAD_FACTOR_DEN
<1>9. ProbeChains'
  BY <1>1, <1>4 DEF ProbeChains
<1> QED
  BY <1>1, <1>4, <1>6, <1>7, <1>8, <1>9 DEF IInv

-----------------------------------------------------------------------------
(***************************************************************************)
(* Removing an entry.                                                      *)
(***************************************************************************)

\* One step further around the ring.
LEMMA AfterDistance ==
  ASSUME m_mask \in Nat \ {0}, NEW g \in 0 .. m_mask, NEW i \in 0 .. m_mask
  PROVE  /\ After(i) \in 0 .. m_mask /\ After(i) # i
         /\ Distance(i, After(i)) = 1
         /\ After(i) # g => Distance(g, After(i)) = Distance(g, i) + 1
         /\ After(i) = g => Distance(g, i) = m_mask
BY DEF After, Distance

\* Distances around the ring.
LEMMA DistanceFacts ==
  ASSUME m_mask \in Nat, NEW g \in 0 .. m_mask, NEW i \in 0 .. m_mask
  PROVE  /\ Distance(g, i) \in 0 .. m_mask
         /\ Distance(g, i) = 0 <=> g = i
BY DEF Distance

\* What lies between a passed slot g and the end i of the chain is passed too.
LEMMA DistanceBetween ==
  ASSUME m_mask \in Nat, NEW h \in 0 .. m_mask, NEW g \in 0 .. m_mask,
         NEW n \in 0 .. m_mask, NEW i \in 0 .. m_mask,
         Distance(h, g) < Distance(h, i), Distance(g, n) < Distance(g, i)
  PROVE  Distance(h, n) < Distance(h, i)
BY DEF Distance

\* remove_at's test, with its two cases for a gap around the end of the table, is
\* whether the chain of next's entry passes the hole.
LEMMA MovableIsPassing ==
  ASSUME Shape, next \in Used, hole # next
  PROVE  movable <=> hole \in PassedBefore(next)
<1>1. /\ m_mask \in Nat /\ hole \in 0 .. m_mask /\ next \in 0 .. m_mask
      /\ home(m_slots[next].key) \in 0 .. m_mask
  BY UsedSlot DEF Shape
<1> QED
  BY <1>1 DEF movable, PassedBefore, Distance

LEMMA EraseStep ==
  ASSUME IInv, NEW k \in Key, Erase(k)
  PROVE  IInv'
<1> DEFINE p == probe(k)
<1>1. /\ phase = "idle" /\ phase' = "shift" /\ m_slots[p].used
      /\ m_slots' = [m_slots EXCEPT ![p] = Unused] /\ m_count' = m_count - 1
      /\ hole' = p /\ next' = After(p)
      /\ UNCHANGED <<hash, m_mask, old, pending>>
  BY DEF Erase
<1>2. /\ Shape /\ m_mask \in Nat \ {0} /\ m_slots \in [0 .. m_mask -> Slot]
      /\ m_count = Cardinality(Used) /\ m_count \in Nat /\ old = << >>
  BY <1>1 DEF IInv, Shape
<1>3. p \in 0 .. m_mask /\ p \in Used
  <2>1. \E j \in 0 .. m_mask : ~ m_slots[j].used
    BY FreeSlot DEF IInv
  <2> QED
    BY <1>1, <1>2, <2>1, Probe DEF Used
<1>4. After(p) \in 0 .. m_mask /\ After(p) # p /\ Distance(p, After(p)) = 1
  BY <1>2, <1>3, AfterDistance
<1>5. /\ m_slots' \in [0 .. m_mask -> Slot] /\ ~ m_slots'[p].used
      /\ \A i \in 0 .. m_mask : i # p => m_slots'[i] = m_slots[i]
  <2>1. Unused \in Slot /\ ~ Unused.used
    BY DEF Slot, Unused
  <2> QED
    BY <1>1, <1>2, <1>3, <2>1
<1>6. Used' = Used \ {p}
  BY <1>1, <1>5 DEF Used
<1>7. m_count' = Cardinality(Used') /\ m_count' \in Nat
  <2>1. IsFiniteSet(Used)
    BY <1>2, UsedFinite
  <2>2. Cardinality(Used \ {p}) = Cardinality(Used) - 1 /\ IsFiniteSet(Used \ {p})
    BY <1>3, <2>1, FS_RemoveElement
  <2>3. Cardinality(Used \ {p}) \in Nat
    BY <2>2, FS_CardinalityType
  <2> QED
    BY <1>1, <1>2, <1>6, <2>2, <2>3
<1>8. Shape'
  BY <1>1, <1>2, <1>3, <1>4, <1>5, <1>7 DEF Shape
<1>9. Shifting'
  <2>1. ASSUME NEW j \in 0 .. m_mask, j # p
        PROVE  ~ (Distance(p, j) < 1)
    <3>1. Distance(p, j) \in 0 .. m_mask /\ Distance(p, j) # 0
      BY <1>2, <1>3, <2>1, DistanceFacts
    <3> QED
      BY <3>1
  <2>2. (m_count' + 1) * LOAD_FACTOR_DEN < (m_mask + 1) * LOAD_FACTOR_NUM
    BY <1>1, <1>2 DEF IInv, LoadStaysBelowLimit
  <2>3. ASSUME NEW j \in 0 .. m_mask', j # hole', (Distance(hole, j) < Distance(hole, next))'
        PROVE  FALSE
    BY <1>1, <1>4, <2>1, <2>3 DEF Distance
  <2> QED
    BY <1>1, <1>4, <1>5, <2>2, <2>3 DEF Shifting
<1>10. Distinct'
  <2>1. Uncopied' = {}
    BY <1>1, <1>2 DEF Uncopied
  <2> QED
    BY <1>5, <1>6, <2>1 DEF Distinct, IInv, Used
<1>11. LoadStaysBelowLimit'
  BY <1>1, <1>2 DEF IInv, LoadStaysBelowLimit, LOAD_FACTOR_NUM, LOAD_FACTOR_DEN
<1>12. ProbeChains'
  <2>1. ASSUME NEW i \in Used'
        PROVE  /\ (Distance(hole, next) <= Distance(hole, i))'
               /\ \A j \in PassedBefore(i)' : m_slots'[j].used \/ j = hole'
    <3>1. i \in Used /\ i # p /\ i \in 0 .. m_mask /\ m_slots'[i] = m_slots[i]
      BY <1>5, <1>6, <2>1 DEF Used
    <3>2. 1 <= Distance(p, i)
      <4>1. Distance(p, i) \in 0 .. m_mask /\ Distance(p, i) # 0
        BY <1>2, <1>3, <3>1, DistanceFacts
      <4> QED
        BY <4>1
    <3>3. (Distance(hole, next) <= Distance(hole, i))'
      BY <1>1, <1>4, <3>2 DEF Distance
    <3>4. PassedBefore(i)' = PassedBefore(i) /\ PassedBefore(i) \subseteq 0 .. m_mask
      BY <1>1, <3>1 DEF PassedBefore, Distance, home, Wrap
    <3>5. \A j \in PassedBefore(i) : m_slots[j].used
      BY <1>1, <3>1 DEF IInv, ProbeChains
    <3> QED
      BY <1>1, <1>5, <3>3, <3>4, <3>5
  <2> QED
    BY <1>1, <2>1 DEF ProbeChains
<1> QED
  BY <1>1, <1>7, <1>8, <1>9, <1>10, <1>11, <1>12 DEF IInv

\* remove_at looks past an entry whose chain does not pass the hole: the chain is
\* whole, and the load leaves a free slot ahead, so the loop does not come back around.
LEMMA ShiftPastStep ==
  ASSUME IInv, Shift, ~ movable
  PROVE  IInv'
<1>1. /\ phase = "shift" /\ phase' = "shift" /\ m_slots[next].used /\ next' = After(next)
      /\ UNCHANGED <<hash, m_slots, m_count, m_mask, hole, old, pending>>
  BY DEF Shift
<1>2. /\ Shape /\ m_mask \in Nat \ {0} /\ m_count = Cardinality(Used) /\ m_count \in Nat
      /\ hole \in 0 .. m_mask /\ next \in 0 .. m_mask /\ next \in Used /\ Shifting
      /\ hole # next
  BY <1>1 DEF IInv, Shape, Used, Shifting
<1>3. hole \notin PassedBefore(next)
  BY <1>2, MovableIsPassing
<1>4. ASSUME NEW j \in 0 .. m_mask, j # hole, Distance(hole, j) <= Distance(hole, next)
      PROVE  m_slots[j].used
  <2>1. CASE Distance(hole, j) = Distance(hole, next)
    BY <1>1, <1>2, <2>1, DistanceInjective
  <2>2. CASE Distance(hole, j) < Distance(hole, next)
    BY <1>2, <1>4, <2>2 DEF Shifting
  <2> QED
    BY <1>2, <1>4, <2>1, <2>2, DistanceFacts
<1>5. After(next) # hole
  <2>1. ASSUME After(next) = hole
        PROVE  FALSE
    <3>1. Distance(hole, next) = m_mask
      BY <1>2, <2>1, AfterDistance
    <3>2. \A j \in 0 .. m_mask : j # hole => m_slots[j].used
      BY <1>2, <1>4, <3>1, DistanceFacts
    <3>3. Used = (0 .. m_mask) \ {hole}
      BY <1>2, <3>2 DEF Used, Shifting
    <3>4. Cardinality(Used) = m_mask
      <4>1. 0 \in Int /\ m_mask \in Int /\ ~ (0 > m_mask)
        BY <1>2
      <4>2. IsFiniteSet(0 .. m_mask) /\ Cardinality(0 .. m_mask) = m_mask + 1
        BY <4>1, FS_Interval
      <4>3. Cardinality((0 .. m_mask) \ {hole}) = (m_mask + 1) - 1
        BY ZenonT(60), <1>2, <4>2, FS_RemoveElement
      <4> QED
        BY <3>3, <4>1, <4>3
    <3> QED
      BY <1>2, <3>4 DEF Shifting, LOAD_FACTOR_NUM, LOAD_FACTOR_DEN
  <2> QED
    BY <2>1
<1>6. After(next) \in 0 .. m_mask /\ Distance(hole, After(next)) = Distance(hole, next) + 1
  BY <1>2, <1>5, AfterDistance
<1>7. Used' = Used /\ Uncopied' = Uncopied
  BY <1>1, <1>2 DEF Used, Uncopied, IInv, Shape
<1>8. Shape' /\ Distinct' /\ LoadStaysBelowLimit' /\ m_count' = Cardinality(Used')
  BY <1>1, <1>2, <1>6, <1>7 DEF IInv, Shape, Distinct, LoadStaysBelowLimit
<1>9. Shifting'
  <2>1. ASSUME NEW j \in 0 .. m_mask, j # hole, Distance(hole, j) < Distance(hole, After(next))
        PROVE  m_slots[j].used
    BY <1>2, <1>4, <1>6, <2>1, DistanceFacts
  <2>2. ASSUME NEW j \in 0 .. m_mask', j # hole', (Distance(hole, j) < Distance(hole, next))'
        PROVE  m_slots'[j].used
    <3>1. Distance(hole, j) < Distance(hole, After(next))
      BY <1>1, <2>2 DEF Distance
    <3> QED
      BY <1>1, <2>1, <2>2, <3>1
  <2> QED
    BY <1>1, <1>2, <1>5, <2>2 DEF Shifting
<1>10. ProbeChains'
  <2>1. ASSUME NEW i \in Used'
        PROVE  IF phase' = "shift" /\ (Distance(hole, next) <= Distance(hole, i))'
               THEN \A j \in PassedBefore(i)' : m_slots'[j].used \/ j = hole'
               ELSE \A j \in PassedBefore(i)' : m_slots'[j].used
    <3>1. i \in Used /\ i \in 0 .. m_mask /\ PassedBefore(i)' = PassedBefore(i)
      BY <1>1, <1>7, <2>1 DEF Used, PassedBefore, Distance, home, Wrap
    <3>2. (Distance(hole, next) <= Distance(hole, i))'
            <=> Distance(hole, next) + 1 <= Distance(hole, i)
      BY <1>1, <1>6 DEF Distance
    <3>3. \A j \in PassedBefore(i) : m_slots[j].used \/ j = hole
      BY <3>1 DEF IInv, ProbeChains
    <3>4. ASSUME ~ (Distance(hole, next) + 1 <= Distance(hole, i))
          PROVE  \A j \in PassedBefore(i) : m_slots[j].used
      <4>1. CASE Distance(hole, i) = Distance(hole, next)
        <5>1. i = next
          BY <1>2, <3>1, <4>1, DistanceInjective
        <5> QED
          BY <1>3, <3>3, <5>1
      <4>2. CASE Distance(hole, i) # Distance(hole, next)
        <5>1. ~ (Distance(hole, next) <= Distance(hole, i))
          BY <1>2, <3>1, <3>4, <4>2, DistanceFacts
        <5> QED
          BY <3>1, <5>1 DEF IInv, ProbeChains
      <4> QED
        BY <4>1, <4>2
    <3> QED
      BY <1>1, <3>1, <3>2, <3>3, <3>4
  <2> QED
    BY <2>1 DEF ProbeChains
<1> QED
  BY <1>1, <1>8, <1>9, <1>10 DEF IInv

\* remove_at moves an entry into the hole its chain passes: the chain ends sooner, and
\* every other chain that passes a slot freed this way is still to be looked at.
LEMMA ShiftMoveStep ==
  ASSUME IInv, Shift, movable
  PROVE  IInv'
<1>1. /\ phase = "shift" /\ phase' = "shift" /\ m_slots[next].used /\ next' = After(next)
      /\ m_slots' = [m_slots EXCEPT ![hole] = m_slots[next], ![next] = Unused]
      /\ hole' = next
      /\ UNCHANGED <<hash, m_count, m_mask, old, pending>>
  BY DEF Shift
<1>2. /\ Shape /\ m_mask \in Nat \ {0} /\ m_count = Cardinality(Used) /\ m_count \in Nat
      /\ m_slots \in [0 .. m_mask -> Slot] /\ ~ m_slots[hole].used
      /\ hole \in 0 .. m_mask /\ next \in 0 .. m_mask /\ next \in Used /\ Shifting
      /\ hole # next /\ hole \notin Used /\ old = << >>
  BY <1>1 DEF IInv, Shape, Used, Shifting
<1>3. hole \in PassedBefore(next)
  BY <1>2, MovableIsPassing
<1>4. /\ m_slots' \in [0 .. m_mask -> Slot] /\ ~ m_slots'[next].used
      /\ m_slots'[hole] = m_slots[next]
      /\ \A i \in 0 .. m_mask : i # hole /\ i # next => m_slots'[i] = m_slots[i]
  <2>1. Unused \in Slot /\ ~ Unused.used
    BY DEF Slot, Unused
  <2> QED
    BY <1>1, <1>2, <2>1
<1>5. /\ After(next) \in 0 .. m_mask /\ After(next) # next
      /\ Distance(next, After(next)) = 1
  BY <1>2, AfterDistance
<1>6. Used' = (Used \ {next}) \cup {hole}
  BY <1>1, <1>2, <1>4 DEF Used
<1>7. m_count' = Cardinality(Used')
  <2>1. IsFiniteSet(Used)
    BY <1>2, UsedFinite
  <2>2. Cardinality(Used \ {next}) = Cardinality(Used) - 1 /\ IsFiniteSet(Used \ {next})
    BY <1>2, <2>1, FS_RemoveElement
  <2>3. Cardinality((Used \ {next}) \cup {hole}) = Cardinality(Used \ {next}) + 1
    BY <1>2, <2>2, FS_AddElement
  <2> QED
    BY <1>1, <1>2, <1>6, <2>2, <2>3
<1>8. Shape' /\ LoadStaysBelowLimit'
  BY <1>1, <1>2, <1>4, <1>5 DEF IInv, Shape, LoadStaysBelowLimit
<1>9. ASSUME NEW i \in 0 .. m_mask, i # next
      PROVE  1 <= Distance(next, i)
  <2>1. Distance(next, i) \in 0 .. m_mask /\ Distance(next, i) # 0
    BY <1>2, <1>9, DistanceFacts
  <2> QED
    BY <2>1
<1>10. Shifting'
  <2>1. ASSUME NEW j \in 0 .. m_mask', j # hole', (Distance(hole, j) < Distance(hole, next))'
        PROVE  FALSE
    <3>1. Distance(next, j) < 1 /\ j # next /\ j \in 0 .. m_mask
      BY <1>1, <1>5, <2>1 DEF Distance
    <3>2. Distance(next, j) \in 0 .. m_mask
      BY <1>2, <3>1, DistanceFacts
    <3> QED
      BY <1>9, <3>1, <3>2
  <2>2. (m_count' + 1) * LOAD_FACTOR_DEN < (m_mask' + 1) * LOAD_FACTOR_NUM
    BY <1>1, <1>2 DEF Shifting
  <2> QED
    BY <1>1, <1>4, <1>5, <2>1, <2>2 DEF Shifting
<1>11. Distinct'
  <2>1. Uncopied' = {}
    BY <1>1, <1>2 DEF Uncopied
  <2>2. ASSUME NEW i \in Used', NEW j \in Used', m_slots'[i].key = m_slots'[j].key
        PROVE  i = j
    <3> DEFINE was(x) == IF x = hole THEN next ELSE x
    <3>1. was(i) \in Used /\ was(j) \in Used
      BY <1>2, <1>6, <2>2
    <3>2. m_slots[was(i)].key = m_slots[was(j)].key
      BY <1>4, <1>6, <2>2 DEF Used
    <3>3. was(i) = was(j)
      BY <3>1, <3>2 DEF IInv, Distinct
    <3> QED
      BY <1>2, <1>6, <2>2, <3>3
  <2> QED
    BY <2>1, <2>2 DEF Distinct
<1>12. ProbeChains'
  <2>1. ASSUME NEW i \in Used'
        PROVE  /\ (Distance(hole, next) <= Distance(hole, i))'
               /\ \A j \in PassedBefore(i)' : m_slots'[j].used \/ j = hole'
    <3>1. i \in 0 .. m_mask /\ i # next
      BY <1>2, <1>6, <2>1 DEF Used
    <3>2. (Distance(hole, next) <= Distance(hole, i))'
      BY <1>1, <1>5, <1>9, <3>1 DEF Distance
    <3>3. CASE i = hole
      <4>1. ASSUME NEW j \in PassedBefore(i)'
            PROVE  j \in PassedBefore(next) /\ j \in 0 .. m_mask /\ j # hole
        <5>1. home(m_slots[next].key) \in 0 .. m_mask
          BY <1>2, UsedSlot
        <5> DEFINE h == home(m_slots[next].key)
        <5>2. j \in 0 .. m_mask /\ Distance(h, j) < Distance(h, hole)
          BY <1>1, <1>4, <3>3, <4>1 DEF PassedBefore, Distance, home, Wrap
        <5>3. Distance(h, hole) < Distance(h, next)
          BY <1>3 DEF PassedBefore
        <5>4. /\ Distance(h, hole) \in 0 .. m_mask /\ Distance(h, next) \in 0 .. m_mask
              /\ Distance(h, j) \in 0 .. m_mask
          <6> HIDE DEF h
          <6> QED
            BY <1>2, <5>1, <5>2, DistanceFacts DEF h
        <5>5. Distance(h, j) < Distance(h, next) /\ j # hole
          <6> HIDE DEF h
          <6> QED
            BY <5>2, <5>3, <5>4
        <5> QED
          BY <5>2, <5>5 DEF PassedBefore
      <4>2. \A j \in PassedBefore(next) : m_slots[j].used \/ j = hole
        BY <1>2 DEF IInv, ProbeChains
      <4> QED
        BY <1>1, <1>4, <3>2, <4>1, <4>2
    <3>4. CASE i # hole
      <4>1. i \in Used /\ m_slots'[i] = m_slots[i]
        BY <1>4, <1>6, <2>1, <3>1, <3>4
      <4>2. PassedBefore(i)' = PassedBefore(i) /\ PassedBefore(i) \subseteq 0 .. m_mask
        BY <1>1, <4>1 DEF PassedBefore, Distance, home, Wrap
      <4>3. \A j \in PassedBefore(i) : m_slots[j].used \/ j = hole
        BY <4>1 DEF IInv, ProbeChains
      <4> QED
        BY <1>1, <1>4, <3>2, <4>2, <4>3
    <3> QED
      BY <3>3, <3>4
  <2> QED
    BY <1>1, <2>1 DEF ProbeChains
<1> QED
  BY <1>1, <1>7, <1>8, <1>10, <1>11, <1>12 DEF IInv

\* At the free slot that ends remove_at's loop no chain passes the hole: it would pass
\* that slot too.
LEMMA FinishEraseStep ==
  ASSUME IInv, FinishErase
  PROVE  IInv'
<1>1. /\ phase = "shift" /\ phase' = "idle" /\ ~ m_slots[next].used
      /\ hole' = 0 /\ next' = 0
      /\ UNCHANGED <<hash, m_slots, m_count, m_mask, old, pending>>
  BY DEF FinishErase
<1>2. /\ Shape /\ m_mask \in Nat \ {0} /\ hole \in 0 .. m_mask /\ next \in 0 .. m_mask
      /\ hole # next /\ old = << >>
  BY <1>1 DEF IInv, Shape, Shifting
<1>3. Used' = Used /\ Uncopied' = {} /\ Uncopied = {}
  BY <1>1, <1>2 DEF Used, Uncopied
<1>4. Shape' /\ Distinct' /\ LoadStaysBelowLimit' /\ m_count' = Cardinality(Used')
  BY <1>1, <1>2, <1>3 DEF IInv, Shape, Distinct, LoadStaysBelowLimit
<1>5. ASSUME NEW i \in Used, NEW j \in PassedBefore(i)
      PROVE  m_slots[j].used
  <2>1. \A g \in PassedBefore(i) : m_slots[g].used \/ g = hole
    BY DEF IInv, ProbeChains
  <2>2. ASSUME Distance(hole, next) <= Distance(hole, i), hole \in PassedBefore(i)
        PROVE  FALSE
    <3>1. i \in 0 .. m_mask /\ home(m_slots[i].key) \in 0 .. m_mask /\ i # next
      BY <1>1, <1>2, UsedSlot DEF Used
    <3>2. Distance(hole, next) # Distance(hole, i)
      BY <1>2, <3>1, DistanceInjective
    <3>3. Distance(hole, next) \in 0 .. m_mask /\ Distance(hole, i) \in 0 .. m_mask
      BY <1>2, <3>1, DistanceFacts
    <3>4. Distance(hole, next) < Distance(hole, i)
      BY <2>2, <3>2, <3>3
    <3>5. Distance(home(m_slots[i].key), hole) < Distance(home(m_slots[i].key), i)
      BY <2>2 DEF PassedBefore
    <3>6. Distance(home(m_slots[i].key), next) < Distance(home(m_slots[i].key), i)
      BY <1>2, <3>1, <3>4, <3>5, DistanceBetween
    <3>7. next \in PassedBefore(i)
      BY <1>2, <3>6 DEF PassedBefore
    <3> QED
      BY <1>1, <1>2, <2>1, <3>7
  <2>3. CASE Distance(hole, next) <= Distance(hole, i)
    BY <2>1, <2>2, <2>3
  <2>4. CASE ~ (Distance(hole, next) <= Distance(hole, i))
    BY <2>4 DEF IInv, ProbeChains
  <2> QED
    BY <2>3, <2>4
<1>6. ProbeChains'
  <2>1. ASSUME NEW i \in Used', NEW j \in PassedBefore(i)'
        PROVE  m_slots'[j].used
    <3>1. i \in Used /\ j \in PassedBefore(i)
      BY <1>1, <1>3, <2>1 DEF PassedBefore, Distance, home, Wrap
    <3> QED
      BY <1>1, <1>5, <3>1
  <2> QED
    BY <1>1, <2>1 DEF ProbeChains
<1> QED
  BY <1>1, <1>4, <1>6 DEF IInv

LEMMA ClearStep ==
  ASSUME IInv, clear
  PROVE  IInv'
<1>1. /\ phase = "idle" /\ m_slots' = EmptyTable(m_mask + 1) /\ m_count' = 0
      /\ UNCHANGED <<hash, m_mask, phase, hole, next, old, pending>>
  BY DEF clear
<1>2. m_mask \in Nat \ {0} /\ old = << >>
  BY <1>1 DEF IInv, Shape
<1>3. m_slots' \in [0 .. m_mask -> Slot] /\ \A i \in 0 .. m_mask : ~ m_slots'[i].used
  BY <1>1, <1>2 DEF EmptyTable, Slot, Unused
<1>4. Used' = {} /\ Uncopied' = {}
  BY <1>1, <1>2, <1>3 DEF Used, Uncopied
<1>5. Shape'
  BY <1>1, <1>3 DEF IInv, Shape
<1>6. Distinct' /\ ProbeChains'
  BY <1>4 DEF Distinct, ProbeChains
<1>7. m_count' = Cardinality(Used')
  BY <1>1, <1>4, FS_EmptySet
<1>8. LoadStaysBelowLimit'
  BY <1>1, <1>2 DEF LoadStaysBelowLimit, LOAD_FACTOR_NUM, LOAD_FACTOR_DEN
<1> QED
  BY <1>1, <1>5, <1>6, <1>7, <1>8 DEF IInv

\* Shape, chains, load and loop positions hold in every state.
THEOREM Invariance == Spec => []IInv
<1>1. Init => IInv
  <2> SUFFICES ASSUME Init
               PROVE  IInv
    OBVIOUS
  <2>1. /\ m_slots = EmptyTable(InitialCapacity) /\ m_count = 0
        /\ m_mask = InitialCapacity - 1 /\ phase = "idle" /\ old = << >>
        /\ hole = 0 /\ next = 0 /\ pending = Unused /\ hash \in Hashes
    BY DEF Init
  <2>2. m_mask \in Nat \ {0} /\ InitialCapacity = m_mask + 1
    BY <2>1, CapacityAssumption
  <2>3. m_slots \in [0 .. m_mask -> Slot] /\ \A i \in 0 .. m_mask : ~ m_slots[i].used
    BY <2>1, <2>2 DEF EmptyTable, Slot, Unused
  <2>4. Used = {} /\ Uncopied = {}
    BY <2>1, <2>3 DEF Used, Uncopied
  <2>5. Shape
    <3>1. Unused \in Slot
      BY DEF Slot
    <3> QED
      BY <2>1, <2>2, <2>3, <3>1 DEF Shape
  <2>6. Distinct /\ ProbeChains
    BY <2>4 DEF Distinct, ProbeChains
  <2>7. m_count = Cardinality(Used)
    BY <2>1, <2>4, FS_EmptySet
  <2>8. LoadStaysBelowLimit
    BY <2>1, <2>2 DEF LoadStaysBelowLimit, LOAD_FACTOR_NUM, LOAD_FACTOR_DEN
  <2> QED
    BY <2>1, <2>5, <2>6, <2>7, <2>8 DEF IInv
<1>2. IInv /\ [Next]_vars => IInv'
  <2> SUFFICES ASSUME IInv, [Next]_vars
               PROVE  IInv'
    OBVIOUS
  <2>1. CASE UNCHANGED vars
    <3>1. Used' = Used /\ Uncopied' = Uncopied
      BY <2>1 DEF vars, Used, Uncopied
    <3>2. Shape' /\ LoadStaysBelowLimit' /\ Distinct' /\ m_count' = Cardinality(Used')
      BY <2>1, <3>1 DEF vars, IInv, Shape, LoadStaysBelowLimit, Distinct
    <3>3. phase' = "rehash" => \E n \in 2 .. m_mask' : Rehashing(n)'
      BY <2>1, <3>1 DEF vars, IInv, Rehashing
    <3>4. phase' = "shift" => Shifting'
      BY <2>1 DEF vars, IInv, Shifting, Distance
    <3>5. ProbeChains'
      BY <2>1, <3>1 DEF vars, IInv, ProbeChains, PassedBefore, Distance, home, Wrap
    <3> QED
      BY <3>2, <3>3, <3>4, <3>5 DEF IInv
  <2>2. CASE \E k \in Key, v \in Value : Insert(k, v) \/ InsertGrows(k, v)
    BY <2>2, InsertStep, InsertGrowsStep
  <2>3. ASSUME NEW k \in Key, EraseAbsent(k)
        PROVE  IInv'
    BY <2>1, <2>3 DEF EraseAbsent
  <2>4. CASE \E k \in Key : Erase(k) \/ EraseAbsent(k)
    BY <2>3, <2>4, EraseStep
  <2>5. CASE clear
    BY <2>5, ClearStep
  <2>6. CASE Loop
    BY <2>6, ReinsertStep, FinishInsertStep, ShiftPastStep, ShiftMoveStep, FinishEraseStep
    DEF Loop
  <2> QED
    BY <2>1, <2>2, <2>4, <2>5, <2>6 DEF Next
<1> QED
  BY <1>1, <1>2, PTL DEF Spec

-----------------------------------------------------------------------------
(***************************************************************************)
(* What the table stands for.                                              *)
(***************************************************************************)

\* A function that tells the elements of a finite set apart has as many values.
LEMMA InjectiveImage ==
  ASSUME NEW S, IsFiniteSet(S), NEW f, \A x, y \in S : f[x] = f[y] => x = y
  PROVE  /\ IsFiniteSet({f[x] : x \in S})
         /\ Cardinality({f[x] : x \in S}) = Cardinality(S)
<1> DEFINE T == {f[x] : x \in S}
           g == [x \in S |-> f[x]]
<1>1. g \in [S -> T]
  OBVIOUS
<1>2. \A x, y \in S : g[x] = g[y] => x = y
  OBVIOUS
<1>3. \A t \in T : \E x \in S : g[x] = t
  OBVIOUS
<1>4. g \in Bijection(S, T)
  <2> HIDE DEF g, T
  <2> QED
    BY <1>1, <1>2, <1>3 DEF Bijection, Injection, Surjection, IsInjective
<1> HIDE DEF g, T
<1>5. ExistsBijection(S, T)
  BY <1>4 DEF ExistsBijection
<1> QED
  BY <1>5, FS_Bijection DEF T

\* Every entry is complete, and has its key to itself.
LEMMA EntriesAreDistinct ==
  IInv => /\ \A e \in Entries : /\ e.key \in Key /\ e.value \in Value
                                /\ e = Entry(e.key, e.value)
          /\ \A e, f \in Entries : e.key = f.key => e = f
<1> SUFFICES ASSUME IInv
             PROVE  /\ \A e \in Entries : /\ e.key \in Key /\ e.value \in Value
                                          /\ e = Entry(e.key, e.value)
                    /\ \A e, f \in Entries : e.key = f.key => e = f
  OBVIOUS
<1>1. Shape
  BY DEF IInv
<1>2. ASSUME NEW i \in Uncopied
      PROVE  /\ old[i].key \in Key /\ old[i].value \in Value
             /\ old[i] = Entry(old[i].key, old[i].value)
  <2>1. phase = "rehash"
    BY <1>1, <1>2, NothingUncopied DEF Shape
  <2>2. PICK n \in 2 .. m_mask : Rehashing(n)
    BY <2>1 DEF IInv
  <2>3. old[i] \in Slot /\ old[i].used
    BY <2>2, <1>2 DEF Rehashing, Uncopied
  <2>4. old[i] # Unused
    BY <2>3 DEF Unused
  <2>5. old[i] \in [used : {TRUE}, key : Key, value : Value]
    BY <2>3, <2>4 DEF Slot
  <2> QED
    BY <2>5 DEF Entry
<1>3. \A e \in Entries : e.key \in Key /\ e.value \in Value /\ e = Entry(e.key, e.value)
  BY <1>1, <1>2, UsedSlot DEF Entries
<1>4. \A e, f \in Entries : e.key = f.key => e = f
  BY DEF IInv, Distinct, Entries
<1> QED
  BY <1>3, <1>4

\* The value of a key is the one of its entry.
LEMMA ContentOfEntry ==
  IInv => \A k \in Key, v \in Value : Entry(k, v) \in Entries => Content[k] = v
<1> SUFFICES ASSUME IInv, NEW k \in Key, NEW v \in Value, Entry(k, v) \in Entries
             PROVE  Content[k] = v
  OBVIOUS
<1>1. Entry(k, v).key = k /\ Entry(k, v).value = v
  BY EntryFields
<1> DEFINE c == CHOOSE e \in Entries : e.key = k
<1>2. c \in Entries /\ c.key = k
  BY <1>1
<1>3. c = Entry(k, v)
  BY <1>1, <1>2, EntriesAreDistinct
<1>4. Content[k] = c.value
  BY <1>1 DEF Content
<1> QED
  BY <1>1, <1>3, <1>4

LEMMA ContentOfNone ==
  ASSUME NEW k \in Key, \A e \in Entries : e.key # k
  PROVE  Content[k] = NPOS
BY DEF Content

\* The parts of TableIsSound.
LEMMA TypesAreKept ==
  IInv => TypeOK
<1> SUFFICES ASSUME IInv
             PROVE  TypeOK
  OBVIOUS
<1>1. phase = "rehash" => /\ 2 * Cardinality(DOMAIN old) = m_mask + 1
                          /\ old \in [DOMAIN old -> Slot]
                          /\ pending.used
  <2> SUFFICES ASSUME phase = "rehash"
               PROVE  /\ 2 * Cardinality(DOMAIN old) = m_mask + 1
                      /\ old \in [DOMAIN old -> Slot]
                      /\ pending.used
    OBVIOUS
  <2>1. PICK n \in 2 .. m_mask : Rehashing(n)
    BY DEF IInv
  <2>2. DOMAIN old = 0 .. n - 1 /\ old \in [0 .. n - 1 -> Slot] /\ 2 * n = m_mask + 1
    BY <2>1 DEF Rehashing
  <2>3. Cardinality(0 .. n - 1) = n
    <3>1. 0 \in Int /\ n - 1 \in Int /\ n \in Int /\ ~ (0 > n - 1)
      BY <2>1
    <3>2. Cardinality(0 .. n - 1) = (n - 1) - 0 + 1
      BY <3>1, FS_Interval
    <3> QED
      BY <3>1, <3>2
  <2> QED
    BY <2>1, <2>2, <2>3 DEF Rehashing
<1> QED
  BY <1>1 DEF IInv, Shape, TypeOK

LEMMA LookupIsExact ==
  IInv => FindIsExact
<1> SUFFICES ASSUME IInv, phase = "idle", NEW k \in Key
             PROVE  find(k) = Content[k]
  BY DEF FindIsExact
<1>1. Shape /\ old = << >> /\ \E j \in 0 .. m_mask : ~ m_slots[j].used
  BY FreeSlot DEF IInv, Shape
<1>2. probe(k) \in 0 .. m_mask /\ StopsAt(k, probe(k))
  BY <1>1, Probe
<1>3. Entries = {m_slots[i] : i \in Used}
  BY <1>1, NothingUncopied DEF Entries
<1>4. CASE m_slots[probe(k)].used
  <2>1. probe(k) \in Used /\ m_slots[probe(k)].key = k
    BY <1>2, <1>4 DEF Used, StopsAt
  <2>2. /\ m_slots[probe(k)].value \in Value
        /\ m_slots[probe(k)] = Entry(k, m_slots[probe(k)].value)
    BY <1>1, <2>1, UsedSlot
  <2>3. Content[k] = m_slots[probe(k)].value
    BY <1>3, <2>1, <2>2, ContentOfEntry
  <2> QED
    BY <1>4, <2>3 DEF find
<1>5. CASE ~ m_slots[probe(k)].used
  <2>1. \A i \in Used : m_slots[i].key # k
    BY <1>5, ProbeHit DEF Used
  <2>2. Content[k] = NPOS
    BY <1>3, <2>1, ContentOfNone
  <2> QED
    BY <1>5, <2>2 DEF find
<1> QED
  BY <1>4, <1>5

LEMMA KeysAreCounted ==
  IInv => CountIsExact
<1> SUFFICES ASSUME IInv
             PROVE  CountIsExact
  OBVIOUS
<1> DEFINE f == [i \in Used |-> m_slots[i].key]
           g == [i \in Uncopied |-> old[i].key]
           F == {f[i] : i \in Used}
           G == {g[i] : i \in Uncopied}
<1>1. IsFiniteSet(Used) /\ Cardinality(Used) \in Nat
  BY UsedFinite DEF IInv
<1>2. IsFiniteSet(Uncopied)
  <2>1. CASE phase = "rehash"
    <3>1. PICK n \in 2 .. m_mask : Rehashing(n)
      BY <2>1 DEF IInv
    <3>2. Uncopied \subseteq 0 .. n - 1 /\ 0 \in Int /\ n - 1 \in Int
      BY <3>1 DEF Uncopied, Rehashing
    <3> QED
      BY <3>2, FS_Interval, FS_Subset
  <2>2. CASE phase # "rehash"
    BY <2>2, NothingUncopied, FS_EmptySet DEF IInv, Shape
  <2> QED
    BY <2>1, <2>2
<1>3. IsFiniteSet(F) /\ Cardinality(F) = Cardinality(Used)
  <2>1. \A x, y \in Used : f[x] = f[y] => x = y
    BY DEF IInv, Distinct
  <2> HIDE DEF f
  <2> QED
    BY <1>1, <2>1, InjectiveImage
<1>4. IsFiniteSet(G) /\ Cardinality(G) = Cardinality(Uncopied)
  <2>1. \A x, y \in Uncopied : g[x] = g[y] => x = y
    BY DEF IInv, Distinct
  <2> HIDE DEF g
  <2> QED
    BY <1>2, <2>1, InjectiveImage
<1>5. F \cap G = {}
  BY DEF IInv, Distinct
<1>6. {e.key : e \in Entries} = F \cup G
  BY DEF Entries
<1>7. Cardinality(F \cup G) = Cardinality(F) + Cardinality(G)
  <2> HIDE DEF F, G
  <2>1. Cardinality(F \cup G) = Cardinality(F) + Cardinality(G) - Cardinality(F \cap G)
    BY <1>3, <1>4, FS_Union
  <2>2. Cardinality(F \cap G) = 0
    BY <1>5, FS_EmptySet
  <2>3. Cardinality(F) \in Nat /\ Cardinality(G) \in Nat
    BY <1>3, <1>4, FS_CardinalityType
  <2> QED
    BY <2>1, <2>2, <2>3
<1> QED
  BY <1>3, <1>4, <1>6, <1>7 DEF CountIsExact, IInv

LEMMA RehashHasRoom ==
  IInv => RehashFits
<1> SUFFICES ASSUME IInv, phase = "rehash"
             PROVE  ~ Overloaded
  BY DEF RehashFits
<1>1. PICK n \in 2 .. m_mask : Rehashing(n)
  BY DEF IInv
<1>2. Cardinality(Uncopied) \in Nat
  <2>1. Uncopied \subseteq 0 .. n - 1 /\ 0 \in Int /\ n - 1 \in Int
    BY <1>1 DEF Uncopied, Rehashing
  <2> QED
    BY <2>1, FS_Interval, FS_Subset, FS_CardinalityType
<1> QED
  BY SMTT(60), <1>1, <1>2
  DEF Rehashing, Overloaded, IInv, Shape, LOAD_FACTOR_NUM, LOAD_FACTOR_DEN

\* The hash table of order_index.hpp is sound in every state of every operation, the
\* iterations of remove_at and rehash included, whatever the keys hash to: find
\* answers with what was stored, size() is exact, a probe always meets a free slot, a
\* rehash never starts another, and a backward shift breaks no other key's chain.
THEOREM TableSoundness == Spec => []TableIsSound
<1>1. IInv => TableIsSound
  BY TypesAreKept, LookupIsExact, KeysAreCounted, RehashHasRoom DEF TableIsSound, IInv
<1> QED
  BY <1>1, Invariance, PTL

-----------------------------------------------------------------------------
(***************************************************************************)
(* The table implements the map.                                           *)
(***************************************************************************)

\* The value a set of entries gives to a key.
ValueIn(E, k) ==
  IF \E e \in E : e.key = k THEN (CHOOSE e \in E : e.key = k).value ELSE NPOS

LEMMA ValueInSet ==
  ASSUME NEW E, NEW k, NEW e \in E, e.key = k, \A x, y \in E : x.key = y.key => x = y
  PROVE  ValueIn(E, k) = e.value
<1> DEFINE c == CHOOSE x \in E : x.key = k
<1>1. c \in E /\ c.key = k
  OBVIOUS
<1>2. c = e
  BY <1>1
<1> QED
  BY <1>2 DEF ValueIn

\* Sets of entries that agree on a key give it the same value.
LEMMA SameValues ==
  ASSUME NEW E, NEW F, NEW j,
         \A x, y \in E : x.key = y.key => x = y,
         \A e \in E : e.key = j => e \in F,
         \A e \in F : e.key = j => e \in E
  PROVE  ValueIn(F, j) = ValueIn(E, j)
<1>1. \A e : (e \in F /\ e.key = j) <=> (e \in E /\ e.key = j)
  OBVIOUS
<1>2. CASE \E e \in E : e.key = j
  <2>1. PICK e \in E : e.key = j
    BY <1>2
  <2> DEFINE c == CHOOSE x \in F : x.key = j
  <2>2. e \in F
    BY <1>1, <2>1
  <2>3. c \in F /\ c.key = j
    BY <2>1, <2>2
  <2>4. c = e
    BY <1>1, <2>1, <2>3
  <2>5. ValueIn(F, j) = e.value
    BY <2>1, <2>2, <2>4 DEF ValueIn
  <2> QED
    BY <2>1, <2>5, ValueInSet
<1>3. CASE ~ \E e \in E : e.key = j
  BY <1>1, <1>3 DEF ValueIn
<1> QED
  BY <1>2, <1>3

LEMMA ContentIsValueIn ==
  /\ Content = [k \in Key |-> ValueIn(Entries, k)]
  /\ Content' = [k \in Key |-> ValueIn(Entries', k)]
BY DEF Content, ValueIn

\* An entry that takes its key's place sets the key's value and no other.
LEMMA ContentAfterPlace ==
  ASSUME IInv, NEW k \in Key, NEW v \in Value,
         Entries' = {e \in Entries : e.key # k} \cup {Entry(k, v)}
  PROVE  Content' = [Content EXCEPT ![k] = v]
<1>1. \A x, y \in Entries : x.key = y.key => x = y
  BY EntriesAreDistinct
<1>2. Entry(k, v).key = k /\ Entry(k, v).value = v
  BY EntryFields
<1>3. \A x, y \in Entries' : x.key = y.key => x = y
  BY <1>1, <1>2
<1>4. /\ \A e \in Entries : e.key # k => e \in Entries'
      /\ \A e \in Entries' : e.key # k => e \in Entries
  BY <1>2
<1>5. ValueIn(Entries', k) = v
  <2>1. Entry(k, v) \in Entries'
    OBVIOUS
  <2> QED
    BY ZenonT(60), <1>2, <1>3, <2>1, ValueInSet
<1>6. ASSUME NEW j \in Key, j # k
      PROVE  ValueIn(Entries', j) = ValueIn(Entries, j)
  BY <1>1, <1>4, <1>6, SameValues
<1> QED
  BY <1>5, <1>6, ContentIsValueIn

LEMMA ContentAfterRemoval ==
  ASSUME IInv, NEW k \in Key, Entries' = {e \in Entries : e.key # k}
  PROVE  Content' = [Content EXCEPT ![k] = NPOS]
<1>1. \A x, y \in Entries : x.key = y.key => x = y
  BY EntriesAreDistinct
<1>2. PICK F : F = Entries'
  OBVIOUS
<1>3. F = {e \in Entries : e.key # k}
  BY <1>2
<1>4. /\ \A e \in Entries : e.key # k => e \in F
      /\ \A e \in F : e.key # k => e \in Entries
  BY <1>3
<1>5. ValueIn(F, k) = NPOS
  BY <1>3 DEF ValueIn
<1>6. ASSUME NEW j \in Key, j # k
      PROVE  ValueIn(F, j) = ValueIn(Entries, j)
  BY <1>1, <1>4, <1>6, SameValues
<1> QED
  BY <1>2, <1>5, <1>6, ContentIsValueIn

LEMMA ContentKept ==
  ASSUME Entries' = Entries
  PROVE  Content' = Content
BY ContentIsValueIn

\* What Place does to the entries of the table being filled.
LEMMA PlaceEntries ==
  ASSUME IInv, phase # "shift", NEW k \in Key, NEW v \in Value,
         Place(k, v), UNCHANGED <<hash, m_mask>>
  PROVE  {m_slots'[i] : i \in Used'}
           = {e \in {m_slots[i] : i \in Used} : e.key # k} \cup {Entry(k, v)}
<1> DEFINE p == probe(k)
<1>1. /\ p \in 0 .. m_mask
      /\ m_slots' = [m_slots EXCEPT ![p] = Entry(k, v)]
      /\ Used' = Used \cup {p}
      /\ \A i \in Used : m_slots[i].key = k <=> i = p
  BY PlaceStep
<1>2. Used \subseteq 0 .. m_mask /\ m_slots \in [0 .. m_mask -> Slot]
  BY DEF Used, IInv, Shape
<1>3. m_slots'[p] = Entry(k, v) /\ \A i \in Used : i # p => m_slots'[i] = m_slots[i]
  BY <1>1, <1>2
<1> HIDE DEF p
<1> QED
  BY <1>1, <1>3

LEMMA InsertImplements ==
  ASSUME IInv, NEW k \in Key, NEW v \in Value, Insert(k, v)
  PROVE  Abstract!Insert(k, v)
<1>1. Place(k, v) /\ phase = "idle" /\ UNCHANGED <<hash, m_mask, old, next>>
  BY DEF Insert
<1>2. Uncopied = {} /\ Uncopied' = {}
  BY <1>1 DEF Uncopied, IInv, Shape
<1>3. Entries' = {e \in Entries : e.key # k} \cup {Entry(k, v)}
  BY <1>1, <1>2, PlaceEntries DEF Entries
<1> QED
  BY <1>3, ContentAfterPlace DEF Abstract!Insert

LEMMA FinishInsertImplements ==
  ASSUME IInv, FinishInsert
  PROVE  \E k \in Key, v \in Value : pending = Entry(k, v) /\ Abstract!Insert(k, v)
<1>1. /\ phase = "rehash" /\ next \notin DOMAIN old /\ Place(pending.key, pending.value)
      /\ old' = << >> /\ UNCHANGED <<hash, m_mask>>
  BY DEF FinishInsert
<1>2. PICK n \in 2 .. m_mask : Rehashing(n)
  BY <1>1 DEF IInv
<1>3. pending \in [used : {TRUE}, key : Key, value : Value]
  <2>1. pending \in Slot /\ pending.used /\ pending # Unused
    BY <1>2 DEF Rehashing, IInv, Shape, Unused
  <2> QED
    BY <2>1 DEF Slot
<1>4. PICK k \in Key, v \in Value : k = pending.key /\ v = pending.value /\ pending = Entry(k, v)
  BY <1>3 DEF Entry
<1>5. Uncopied = {} /\ Uncopied' = {}
  BY <1>1, <1>2 DEF Uncopied, Rehashing
<1>6. Entries' = {e \in Entries : e.key # k} \cup {Entry(k, v)}
  BY <1>1, <1>4, <1>5, PlaceEntries DEF Entries
<1> QED
  BY <1>4, <1>6, ContentAfterPlace DEF Abstract!Insert

LEMMA EraseImplements ==
  ASSUME IInv, NEW k \in Key, Erase(k)
  PROVE  Abstract!Erase(k)
<1> DEFINE p == probe(k)
<1>1. /\ phase = "idle" /\ m_slots[p].used /\ m_slots' = [m_slots EXCEPT ![p] = Unused]
      /\ UNCHANGED <<hash, m_mask, old>>
  BY DEF Erase
<1>2. Shape /\ m_slots \in [0 .. m_mask -> Slot] /\ old = << >>
  BY <1>1 DEF IInv, Shape
<1>3. p \in 0 .. m_mask /\ p \in Used /\ m_slots[p].key = k
  <2>1. \E j \in 0 .. m_mask : ~ m_slots[j].used
    BY FreeSlot DEF IInv
  <2> QED
    BY <1>1, <1>2, <2>1, Probe DEF Used, StopsAt
<1>4. ~ m_slots'[p].used /\ \A i \in 0 .. m_mask : i # p => m_slots'[i] = m_slots[i]
  BY <1>1, <1>2, <1>3 DEF Unused
<1>5. Used' = Used \ {p} /\ Used \subseteq 0 .. m_mask
  BY <1>1, <1>4 DEF Used
<1>6. \A i \in Used : m_slots[i].key = k => i = p
  BY <1>3 DEF IInv, Distinct
<1>7. Uncopied = {} /\ Uncopied' = {}
  BY <1>1, <1>2 DEF Uncopied
<1>8. Entries' = {e \in Entries : e.key # k}
  <2> HIDE DEF p
  <2> QED
    BY <1>3, <1>4, <1>5, <1>6, <1>7 DEF Entries
<1> QED
  BY <1>8, ContentAfterRemoval DEF Abstract!Erase

LEMMA ClearImplements ==
  ASSUME IInv, clear
  PROVE  Abstract!Clear
<1>1. /\ phase = "idle" /\ m_slots' = EmptyTable(m_mask + 1) /\ UNCHANGED <<m_mask, old>>
  BY DEF clear
<1>2. m_mask \in Nat /\ old = << >>
  BY <1>1 DEF IInv, Shape
<1>3. Used' = {} /\ Uncopied' = {}
  BY <1>1, <1>2 DEF Used, Uncopied, EmptyTable, Unused
<1>4. Entries' = {}
  BY <1>3 DEF Entries
<1>5. \A k \in Key : ValueIn(Entries', k) = NPOS
  BY <1>4 DEF ValueIn
<1> QED
  BY <1>5, ContentIsValueIn DEF Abstract!Clear

\* Neither the growth of the table nor an iteration of a loop changes the content.
LEMMA GrowthKeepsContent ==
  ASSUME IInv, NEW k \in Key, NEW v \in Value, InsertGrows(k, v)
  PROVE  Content' = Content
<1>1. /\ phase = "idle" /\ old' = m_slots /\ next' = 0
      /\ m_slots' = EmptyTable(2 * (m_mask + 1)) /\ m_mask' = 2 * (m_mask + 1) - 1
  BY DEF InsertGrows
<1>2. m_mask \in Nat /\ m_slots \in [0 .. m_mask -> Slot] /\ old = << >>
  BY <1>1 DEF IInv, Shape
<1>3. Used' = {} /\ Uncopied = {}
  BY <1>1, <1>2 DEF Used, Uncopied, EmptyTable, Unused
<1>4. Uncopied' = Used
  BY <1>1, <1>2 DEF Used, Uncopied
<1>5. Entries' = Entries
  BY <1>1, <1>3, <1>4 DEF Entries
<1> QED
  BY <1>5, ContentKept

LEMMA ReinsertKeepsContent ==
  ASSUME IInv, Reinsert
  PROVE  Content' = Content
<1>1. /\ phase = "rehash" /\ next \in DOMAIN old /\ next' = next + 1
      /\ UNCHANGED <<hash, m_mask, old>>
  BY DEF Reinsert
<1>2. PICK n \in 2 .. m_mask : Rehashing(n)
  BY <1>1 DEF IInv
<1>3. old \in [0 .. n - 1 -> Slot] /\ next \in 0 .. n - 1
  BY <1>1, <1>2 DEF Rehashing
<1>4. CASE ~ old[next].used
  <2>1. UNCHANGED m_slots
    BY <1>4 DEF Reinsert
  <2>2. Used' = Used /\ Uncopied' = Uncopied
    BY <1>1, <1>3, <1>4, <2>1 DEF Used, Uncopied
  <2>3. Entries' = Entries
    BY <1>1, <2>1, <2>2 DEF Entries
  <2> QED
    BY <2>3, ContentKept
<1>5. CASE old[next].used
  <2>1. old[next] \in [used : {TRUE}, key : Key, value : Value]
    <3>1. old[next] \in Slot /\ old[next] # Unused
      BY <1>3, <1>5 DEF Unused
    <3> QED
      BY <3>1 DEF Slot
  <2>2. PICK k \in Key, v \in Value :
          k = old[next].key /\ v = old[next].value /\ old[next] = Entry(k, v)
    BY <2>1 DEF Entry
  <2>3. Place(k, v)
    BY <1>5, <2>2 DEF Reinsert
  <2>4. {m_slots'[i] : i \in Used'}
           = {e \in {m_slots[i] : i \in Used} : e.key # k} \cup {Entry(k, v)}
    BY <1>1, <2>3, PlaceEntries
  <2>5. next \in Uncopied /\ Uncopied' = Uncopied \ {next}
    BY <1>1, <1>3, <1>5 DEF Uncopied
  <2>6. \A i \in Used : m_slots[i].key # k
    BY <2>2, <2>5 DEF IInv, Distinct
  <2>7. Entries' = Entries
    BY ZenonT(60), <1>1, <2>2, <2>4, <2>5, <2>6 DEF Entries
  <2> QED
    BY <2>7, ContentKept
<1> QED
  BY <1>4, <1>5

LEMMA ShiftKeepsContent ==
  ASSUME IInv, Shift
  PROVE  Content' = Content
<1>1. phase = "shift" /\ m_slots[next].used /\ UNCHANGED <<m_mask, old>>
  BY DEF Shift
<1>2. /\ m_slots \in [0 .. m_mask -> Slot] /\ hole \in 0 .. m_mask /\ next \in Used
      /\ next \in 0 .. m_mask /\ hole \notin Used /\ hole # next /\ old = << >>
  BY <1>1 DEF IInv, Shape, Used, Shifting
<1>3. Uncopied' = {} /\ Uncopied = {}
  BY <1>1, <1>2 DEF Uncopied
<1>4. CASE movable
  <2>1. m_slots' = [m_slots EXCEPT ![hole] = m_slots[next], ![next] = Unused]
    BY <1>4 DEF Shift
  <2>2. /\ ~ m_slots'[next].used /\ m_slots'[hole] = m_slots[next]
        /\ \A i \in 0 .. m_mask : i # hole /\ i # next => m_slots'[i] = m_slots[i]
    BY <1>2, <2>1 DEF Unused
  <2>3. Used' = (Used \ {next}) \cup {hole} /\ Used \subseteq 0 .. m_mask
    BY <1>1, <1>2, <2>2 DEF Used
  <2>4. Entries' = Entries
    BY <1>2, <1>3, <2>2, <2>3 DEF Entries
  <2> QED
    BY <2>4, ContentKept
<1>5. CASE ~ movable
  <2>1. m_slots' = m_slots /\ Used' = Used
    BY <1>1, <1>5 DEF Shift, Used
  <2>2. Entries' = Entries
    BY <1>3, <2>1 DEF Entries
  <2> QED
    BY <2>2, ContentKept
<1> QED
  BY <1>4, <1>5

LEMMA FinishEraseKeepsContent ==
  ASSUME IInv, FinishErase
  PROVE  Content' = Content
<1>1. phase = "shift" /\ UNCHANGED <<m_slots, m_mask, old>>
  BY DEF FinishErase
<1>2. Used' = Used /\ Uncopied' = {} /\ Uncopied = {}
  BY <1>1 DEF Used, Uncopied, IInv, Shape
<1>3. Entries' = Entries
  BY <1>1, <1>2 DEF Entries
<1> QED
  BY <1>3, ContentKept

\* The hash table implements the map of OrderMap: insert and erase have the effect of
\* the map's operations, an insert that grows the table only when it places its entry,
\* and no copy of rehash and no move of remove_at changes what the table stands for.
THEOREM TableImplementsMap == Spec => ImplementsOrderMap
<1> DEFINE Step ==
       \/ \E k \in Key, v \in Value :
            /\ Insert(k, v) \/ (FinishInsert /\ pending = Entry(k, v))
            /\ Abstract!Insert(k, v)
       \/ \E k \in Key : Erase(k) /\ Abstract!Erase(k)
       \/ clear /\ Abstract!Clear
       \/ /\ \/ \E k \in Key, v \in Value : InsertGrows(k, v)
             \/ Reinsert \/ Shift \/ FinishErase
          /\ UNCHANGED Content
<1>1. Init => Abstract!Init
  <2> SUFFICES ASSUME Init
               PROVE  Abstract!Init
    OBVIOUS
  <2>1. /\ m_slots = EmptyTable(InitialCapacity) /\ m_mask = InitialCapacity - 1
        /\ old = << >>
    BY DEF Init
  <2>2. Used = {} /\ Uncopied = {}
    BY <2>1, CapacityAssumption DEF Used, Uncopied, EmptyTable, Unused
  <2>3. \A k \in Key : ValueIn(Entries, k) = NPOS
    BY <2>2 DEF Entries, ValueIn
  <2> QED
    BY <2>3, ContentIsValueIn DEF Abstract!Init
<1>2. IInv /\ [Next]_vars => [Step]_vars
  <2> SUFFICES ASSUME IInv, Next
               PROVE  [Step]_vars
    OBVIOUS
  <2>1. CASE \E k \in Key, v \in Value : Insert(k, v) \/ InsertGrows(k, v)
    BY <2>1, InsertImplements, GrowthKeepsContent
  <2>2. CASE \E k \in Key : Erase(k) \/ EraseAbsent(k)
    BY <2>2, EraseImplements DEF EraseAbsent
  <2>3. CASE clear
    BY <2>3, ClearImplements
  <2>4. CASE FinishInsert
    BY <2>4, FinishInsertImplements
  <2>5. CASE Reinsert \/ Shift \/ FinishErase
    BY <2>5, ReinsertKeepsContent, ShiftKeepsContent, FinishEraseKeepsContent
  <2> QED
    BY <2>1, <2>2, <2>3, <2>4, <2>5 DEF Next, Loop
<1> QED
  BY <1>1, <1>2, Invariance, PTL DEF Spec, ImplementsOrderMap
=============================================================================
