----------------------------- MODULE OrderIndex -----------------------------
(***************************************************************************)
(* The open-addressed hash table of include/itch/book/order_index.hpp:     *)
(* linear probing, deletion by backward shift, growth by rehashing.        *)
(*                                                                         *)
(* The two loops that rewrite the table (the shift of remove_at and the    *)
(* re-insertion of rehash) take one step per iteration, so that their loop *)
(* invariants are invariants of the specification; `phase` says which loop *)
(* is running, and the next operation starts when none is.  A probe loop   *)
(* only reads, and is the operator `probe`.                                *)
(*                                                                         *)
(* The splitmix64 mix is left open: `hash` is any function of a given set, *)
(* fixed at the start.  A slot that is not in use holds Slot {}: the stale *)
(* key and value the code leaves there are never read.                     *)
(***************************************************************************)
EXTENDS Integers, FiniteSets

CONSTANTS
  Key,              \* order reference numbers
  Value,            \* pool indices
  NPOS,             \* find's answer for an absent key
  Hashes,           \* the hash functions considered, each in [Key -> Nat]
  InitialCapacity   \* INITIAL_CAPACITY, a power of two (1024 in the code)

ASSUME NPOSAssumption     == NPOS \notin Value
ASSUME HashAssumption     == Hashes \subseteq [Key -> Nat]
ASSUME CapacityAssumption == InitialCapacity \in Nat \ {0, 1}

VARIABLES
  hash,      \* the hash function in use
  m_slots,   \* the table: [0 .. m_mask -> Slot]
  m_count,   \* number of stored keys
  m_mask,    \* capacity - 1
  phase,     \* "idle", "shift" (in remove_at) or "rehash" (in insert)
  hole,      \* remove_at: the slot to fill
  next,      \* remove_at: the slot to look at; rehash: the old slot to copy
  old,       \* rehash: the table being replaced
  pending    \* rehash: the entry the interrupted insert will place

vars == <<hash, m_slots, m_count, m_mask, phase, hole, next, old, pending>>

LOAD_FACTOR_NUM == 7
LOAD_FACTOR_DEN == 10

Unused == [used |-> FALSE]

Entry(k, v) == [used |-> TRUE, key |-> k, value |-> v]

Slot == {Unused} \cup [used : {TRUE}, key : Key, value : Value]

\* assign(capacity, Slot {})
EmptyTable(capacity) == [i \in 0 .. capacity - 1 |-> Unused]

\* x & m_mask, for a capacity that is a power of two
Wrap(x) == x % (m_mask + 1)

home(k) == Wrap(hash[k])

\* Mutant: the last slot is followed by itself.
After_Stays(i) == IF i = m_mask THEN i ELSE i + 1

\* The slot after i, around the end of the table.
After(i) == IF i = m_mask THEN 0 ELSE i + 1

-----------------------------------------------------------------------------
(***************************************************************************)
(* Probing.  The loop runs from the home slot to the first slot that is    *)
(* free or holds the key; it would not end on a table with neither.        *)
(***************************************************************************)

StopsAt(k, i) == ~ m_slots[i].used \/ m_slots[i].key = k

probe(k) ==
  LET distance == CHOOSE d \in 0 .. m_mask :
                    /\ StopsAt(k, Wrap(home(k) + d))
                    /\ \A e \in 0 .. d - 1 : ~ StopsAt(k, Wrap(home(k) + e))
  IN  Wrap(home(k) + distance)

find(k) == IF m_slots[probe(k)].used THEN m_slots[probe(k)].value ELSE NPOS

\* The end of insert: overwrite the key's slot, or take the free one.
Place(k, v) ==
  /\ m_slots' = [m_slots EXCEPT ![probe(k)] = Entry(k, v)]
  /\ m_count' = IF m_slots[probe(k)].used THEN m_count ELSE m_count + 1

\* insert's test: would one more key pass the load factor?
Overloaded ==
  (m_count + 1) * LOAD_FACTOR_DEN >= (m_mask + 1) * LOAD_FACTOR_NUM

-----------------------------------------------------------------------------

Init ==
  /\ hash \in Hashes
  /\ m_slots = EmptyTable(InitialCapacity)
  /\ m_count = 0
  /\ m_mask = InitialCapacity - 1
  /\ phase = "idle"
  /\ hole = 0
  /\ next = 0
  /\ old = << >>
  /\ pending = Unused

\* insert with room in the table.
Insert(k, v) ==
  /\ phase = "idle"
  /\ ~ Overloaded
  /\ Place(k, v)
  /\ UNCHANGED <<hash, m_mask, phase, hole, next, old, pending>>

\* insert at the load limit (even of a key that is already there): the table is
\* replaced by an empty one twice its size before anything is copied.
InsertGrows(k, v) ==
  /\ phase = "idle"
  /\ Overloaded
  /\ old' = m_slots
  /\ m_slots' = EmptyTable(2 * (m_mask + 1))
  /\ m_mask' = 2 * (m_mask + 1) - 1
  /\ m_count' = 0
  /\ next' = 0
  /\ pending' = Entry(k, v)
  /\ phase' = "rehash"
  /\ UNCHANGED <<hash, hole>>

\* One iteration of rehash.  Its call of insert would rehash again if the new table
\* were overloaded; RehashFits shows that it never is.
Reinsert ==
  /\ phase = "rehash"
  /\ next \in DOMAIN old
  /\ next' = next + 1
  /\ IF old[next].used
     THEN Place(old[next].key, old[next].value)
     ELSE UNCHANGED <<m_slots, m_count>>
  /\ UNCHANGED <<hash, m_mask, phase, hole, old, pending>>

\* rehash returns and the insert that called it goes on.
FinishInsert ==
  /\ phase = "rehash"
  /\ next \notin DOMAIN old
  /\ Place(pending.key, pending.value)
  /\ phase' = "idle"
  /\ next' = 0
  /\ old' = << >>
  /\ pending' = Unused
  /\ UNCHANGED <<hash, m_mask, hole>>

\* erase of a key that is there enters remove_at.
Erase(k) ==
  /\ phase = "idle"
  /\ m_slots[probe(k)].used
  /\ m_slots' = [m_slots EXCEPT ![probe(k)] = Unused]
  /\ m_count' = m_count - 1
  /\ hole' = probe(k)
  /\ next' = After(probe(k))
  /\ phase' = "shift"
  /\ UNCHANGED <<hash, m_mask, old, pending>>

EraseAbsent(k) ==
  /\ phase = "idle"
  /\ ~ m_slots[probe(k)].used
  /\ UNCHANGED vars

\* Mutant: the case of a hole after next is not told apart.
movable_NoWrap ==
  LET h == home(m_slots[next].key) IN h <= hole \/ h > next

\* Whether the hole lies between the home of next's entry and next.
movable ==
  LET h == home(m_slots[next].key)
  IN  IF hole <= next THEN h <= hole \/ h > next ELSE h <= hole /\ h > next

\* Mutant: the hole is not moved along with the entry.
Shift_KeepsHole ==
  /\ phase = "shift"
  /\ m_slots[next].used
  /\ m_slots' = IF movable
                THEN [m_slots EXCEPT ![hole] = m_slots[next], ![next] = Unused]
                ELSE m_slots
  /\ next' = After(next)
  /\ UNCHANGED <<hash, m_count, m_mask, phase, hole, old, pending>>

\* One iteration of remove_at's loop.
Shift ==
  /\ phase = "shift"
  /\ m_slots[next].used
  /\ IF movable
     THEN /\ m_slots' = [m_slots EXCEPT ![hole] = m_slots[next], ![next] = Unused]
          /\ hole' = next
     ELSE UNCHANGED <<m_slots, hole>>
  /\ next' = After(next)
  /\ UNCHANGED <<hash, m_count, m_mask, phase, old, pending>>

\* The loop ends at the first free slot.
FinishErase ==
  /\ phase = "shift"
  /\ ~ m_slots[next].used
  /\ phase' = "idle"
  /\ hole' = 0
  /\ next' = 0
  /\ UNCHANGED <<hash, m_slots, m_count, m_mask, old, pending>>

clear ==
  /\ phase = "idle"
  /\ m_slots' = EmptyTable(m_mask + 1)
  /\ m_count' = 0
  /\ UNCHANGED <<hash, m_mask, phase, hole, next, old, pending>>

\* The running operation goes on.
Loop == Reinsert \/ FinishInsert \/ Shift \/ FinishErase

Next ==
  \/ \E k \in Key, v \in Value : Insert(k, v) \/ InsertGrows(k, v)
  \/ \E k \in Key : Erase(k) \/ EraseAbsent(k)
  \/ clear
  \/ Loop

\* The code runs its loops to their end: a loop that can go on does.
Spec == Init /\ [][Next]_vars /\ WF_vars(Loop)
-----------------------------------------------------------------------------
(***************************************************************************)
(* Properties.                                                             *)
(***************************************************************************)

\* Type invariant: loop variables are slots of the table, entries are complete.
TypeOK ==
  /\ hash \in Hashes
  /\ m_mask \in Nat
  /\ m_slots \in [0 .. m_mask -> Slot]
  /\ m_count \in Nat
  /\ phase \in {"idle", "shift", "rehash"}
  /\ hole \in 0 .. m_mask
  /\ next \in 0 .. m_mask
  /\ pending \in Slot
  /\ phase = "rehash" => /\ 2 * Cardinality(DOMAIN old) = m_mask + 1
                         /\ old \in [DOMAIN old -> Slot]
                         /\ pending.used

Used == {i \in 0 .. m_mask : m_slots[i].used}

\* Old slots a running rehash has not copied yet.
Uncopied == {i \in DOMAIN old : i >= next /\ old[i].used}

\* Every entry the table stands for, in whichever table it is.
Entries == {m_slots[i] : i \in Used} \cup {old[i] : i \in Uncopied}

Content ==
  [k \in Key |-> IF \E e \in Entries : e.key = k
                 THEN (CHOOSE e \in Entries : e.key = k).value
                 ELSE NPOS]

\* Between operations a lookup finds exactly the stored keys, with their values: no
\* shift leaves a key behind a gap in its probe chain, whatever the keys' homes.
FindIsExact == phase = "idle" => \A k \in Key : find(k) = Content[k]

\* No key is stored twice, in one slot or in two tables, and the count is exact.
CountIsExact ==
  /\ Cardinality({e.key : e \in Entries}) = Cardinality(Used) + Cardinality(Uncopied)
  /\ m_count = Cardinality(Used)

\* The table is never full, so every probe loop meets a free slot and ends.
LoadStaysBelowLimit ==
  m_count * LOAD_FACTOR_DEN < (m_mask + 1) * LOAD_FACTOR_NUM

\* A rehash never starts another one from the insert calls it makes.
RehashFits == (phase = "rehash" /\ Uncopied # {}) => ~ Overloaded

\* Steps from slot i to slot j, around the end of the table.
Distance(i, j) == IF i <= j THEN j - i ELSE j + m_mask + 1 - i

\* The slots a probe passes before it reaches slot i from the home of its key.
PassedBefore(i) ==
  {j \in 0 .. m_mask :
     Distance(home(m_slots[i].key), j) < Distance(home(m_slots[i].key), i)}

\* The probe chains, also in the middle of a backward shift: a chain is broken only
\* at the hole, only for an entry the loop has still to look at, and everything
\* between the hole and that entry is in use.  The loop invariant of remove_at.
ProbeChains ==
  \A i \in Used :
    IF phase = "shift" /\ Distance(hole, next) <= Distance(hole, i)
    THEN \A j \in PassedBefore(i) : m_slots[j].used \/ j = hole
    ELSE \A j \in PassedBefore(i) : m_slots[j].used

\* The hash table is sound between and inside the operations of order_index.hpp: find
\* returns what was stored, size() is exact, an unused slot always ends a probe, a
\* rehash has room for every key, and a backward shift breaks no other key's chain.
TableIsSound ==
  /\ TypeOK
  /\ FindIsExact
  /\ CountIsExact
  /\ LoadStaysBelowLimit
  /\ RehashFits
  /\ ProbeChains

Abstract == INSTANCE OrderMap WITH map <- Content

\* Probing, shifting and rehashing implement the map: an insert or an erase has the
\* effect of the abstract one, at the step named here, and no other step (no iteration
\* of a loop, no growth of the table) changes what the table stands for.
ImplementsOrderMap ==
  /\ Abstract!Init
  /\ [][\/ \E k \in Key, v \in Value :
             /\ Insert(k, v) \/ (FinishInsert /\ pending = Entry(k, v))
             /\ Abstract!Insert(k, v)
        \/ \E k \in Key : Erase(k) /\ Abstract!Erase(k)
        \/ clear /\ Abstract!Clear
        \/ /\ \/ \E k \in Key, v \in Value : InsertGrows(k, v)
              \/ Reinsert \/ Shift \/ FinishErase
           /\ UNCHANGED Content]_vars

\* Every insert that grows the table and every erase returns.
OperationsReturn == phase # "idle" ~> phase = "idle"
=============================================================================
