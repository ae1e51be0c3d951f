------------------------- MODULE OrderedDict_proofs -------------------------
(***************************************************************************)
(* What the operations of an ordered dictionary return, for the proofs     *)
(* about the components that keep their tables in one.                     *)
(***************************************************************************)
EXTENDS OrderedDict, FiniteSetTheorems, WellFoundedInduction, TLAPS

\* A nonempty set of naturals has a least element: what Oldest of the callback
\* queues chooses exists.
LEMMA LeastNatural ==
  ASSUME NEW S \in SUBSET Nat, S # {}
  PROVE  \E x \in S : \A y \in S : x <= y
<1>1. \E x \in S : \A y \in S : ~ (<<y, x>> \in OpToRel(<, Nat))
  BY NatLessThanWellFounded, WFMin
<1>2. PICK x \in S : \A y \in S : ~ (<<y, x>> \in OpToRel(<, Nat))
  BY <1>1
<1>3. \A y \in S : ~ (y < x)
  BY <1>2 DEF OpToRel
<1> QED BY <1>3

\* Renumbering keeps every place within the number of possible keys.
LEMMA RenumberType ==
  ASSUME NEW K, IsFiniteSet(K), NEW p \in [K -> Nat]
  PROVE  Renumber(p) \in [K -> 0..Cardinality(K)]
<1> SUFFICES ASSUME NEW k \in K, p[k] # 0
             PROVE  Cardinality({j \in K : p[j] # 0 /\ p[j] <= p[k]})
                      \in 0..Cardinality(K)
  <2>1. Cardinality(K) \in Nat
    BY FS_CardinalityType
  <2> QED BY <2>1 DEF Renumber
<1> DEFINE below == {j \in K : p[j] # 0 /\ p[j] <= p[k]}
<1>1. IsFiniteSet(below) /\ Cardinality(below) <= Cardinality(K)
  BY FS_Subset, below \in SUBSET K
<1>2. Cardinality(below) \in Nat /\ Cardinality(K) \in Nat
  BY <1>1, FS_CardinalityType
<1> QED BY <1>1, <1>2

LEMMA AtEndType ==
  ASSUME NEW K, IsFiniteSet(K), NEW p \in [K -> 0..Cardinality(K)], NEW k \in K
  PROVE  AtEnd(p, k) \in [K -> 0..Cardinality(K)]
<1>1. Cardinality(K) \in Nat
  BY FS_CardinalityType
<1>2. [p EXCEPT ![k] = Cardinality(DOMAIN p) + 1] \in [K -> Nat]
  BY <1>1
<1> QED BY <1>2, RenumberType DEF AtEnd

\* The empty dictionary is one.
LEMMA EmptyType ==
  ASSUME NEW K, IsFiniteSet(K), NEW V, NEW none \in V
  PROVE  Empty(K, none) \in Dict(K, V)
<1>1. Cardinality(K) \in Nat
  BY FS_CardinalityType
<1> QED BY <1>1 DEF Empty, Dict

\* Writing a key gives a dictionary that holds the value and is otherwise as
\* it was.
LEMMA PutType ==
  ASSUME NEW K, IsFiniteSet(K), NEW V, NEW d \in Dict(K, V),
         NEW k \in K, NEW v \in V
  PROVE  /\ Put(d, k, v) \in Dict(K, V)
         /\ Put(d, k, v).val = [d.val EXCEPT ![k] = v]
<1>1. AtEnd(d.pos, k) \in [K -> 0..Cardinality(K)]
  BY AtEndType DEF Dict
<1> QED BY <1>1 DEF Put, Dict

LEMMA AssignType ==
  ASSUME NEW K, IsFiniteSet(K), NEW V, NEW d \in Dict(K, V),
         NEW k \in K, NEW v \in V
  PROVE  /\ Assign(d, k, v) \in Dict(K, V)
         /\ Assign(d, k, v).val = [d.val EXCEPT ![k] = v]
<1>1. AtEnd(d.pos, k) \in [K -> 0..Cardinality(K)]
  BY AtEndType DEF Dict
<1> QED BY <1>1 DEF Assign, Dict

\* Making a key recent changes no value.
LEMMA PromoteType ==
  ASSUME NEW K, IsFiniteSet(K), NEW V, NEW d \in Dict(K, V), NEW k \in K
  PROVE  /\ Promote(d, k) \in Dict(K, V)
         /\ Promote(d, k).val = d.val
<1>1. AtEnd(d.pos, k) \in [K -> 0..Cardinality(K)]
  BY AtEndType DEF Dict
<1> QED BY <1>1 DEF Promote, Dict

\* Dropping keys empties exactly them.
LEMMA DropType ==
  ASSUME NEW K, IsFiniteSet(K), NEW V, NEW none \in V, NEW d \in Dict(K, V),
         NEW gone
  PROVE  /\ Drop(d, gone, none) \in Dict(K, V)
         /\ \A k \in K : Drop(d, gone, none).val[k] =
                           IF k \in gone THEN none ELSE d.val[k]
<1> DEFINE p == [k \in DOMAIN d.pos |-> IF k \in gone THEN 0 ELSE d.pos[k]]
<1>1. Cardinality(K) \in Nat
  BY FS_CardinalityType
<1>2. p \in [K -> Nat]
  BY <1>1 DEF Dict
<1>3. Renumber(p) \in [K -> 0..Cardinality(K)]
  BY <1>2, RenumberType
<1> QED BY <1>3 DEF Drop, Dict

LEMMA TrimType ==
  ASSUME NEW K, IsFiniteSet(K), NEW V, NEW none \in V, NEW d \in Dict(K, V),
         NEW cap
  PROVE  Trim(d, cap, none) \in Dict(K, V)
BY DropType DEF Trim

\* Trimming keeps an entry or empties it.
LEMMA TrimValues ==
  ASSUME NEW K, IsFiniteSet(K), NEW V, NEW none \in V, NEW d \in Dict(K, V),
         NEW cap
  PROVE  \A k \in K : Trim(d, cap, none).val[k] \in {d.val[k], none}
BY DropType DEF Trim

\* The most recent of a nonempty set of keys is one of them.
LEMMA NewestExists ==
  ASSUME NEW K, IsFiniteSet(K), NEW V, NEW d \in Dict(K, V),
         NEW S \in SUBSET K, S # {}
  PROVE  Newest(d, S) \in S
<1> DEFINE age(k) == Cardinality(K) - d.pos[k]
           ages == {age(k) : k \in S}
<1>1. Cardinality(K) \in Nat
  BY FS_CardinalityType
<1>2. \A k \in S : d.pos[k] \in 0..Cardinality(K)
  BY DEF Dict
<1>3. ages \in SUBSET Nat /\ ages # {}
  BY <1>1, <1>2
<1>4. PICK a \in ages : \A b \in ages : a <= b
  BY <1>3, LeastNatural
<1>5. PICK k \in S : a = age(k)
  BY <1>4
<1>6. \A j \in S : age(k) <= age(j)
  BY <1>4, <1>5
<1>7. \A j \in S : d.pos[j] <= d.pos[k]
  BY <1>1, <1>2, <1>6
<1> QED BY <1>7 DEF Newest
-----------------------------------------------------------------------------
(* The order: places are 1, 2, ... without gaps, and survive renumbering.    *)

InOrder(d) ==
  /\ \A j, k \in Keys(d) : d.pos[j] = d.pos[k] => j = k
  /\ \A k \in Keys(d) : d.pos[k] <= Cardinality(Keys(d))
  /\ \A i \in 1..Cardinality(Keys(d)) : \E k \in Keys(d) : d.pos[k] = i

\* Different keys that are in use have different places.
Apart(p) == \A j, k \in DOMAIN p : p[j] # 0 /\ p[j] = p[k] => j = k

LEMMA RenumberOrder ==
  ASSUME NEW K, IsFiniteSet(K), NEW p \in [K -> Nat], Apart(p),
         NEW U, U = {k \in K : p[k] # 0}
  PROVE  /\ IsFiniteSet(U) /\ Cardinality(U) \in Nat
         /\ \A k \in K : Renumber(p)[k] = 0 <=> p[k] = 0
         /\ \A j, k \in U : Renumber(p)[j] <= Renumber(p)[k] <=> p[j] <= p[k]
         /\ \A k \in U : Renumber(p)[k] <= Cardinality(U)
         /\ \A i \in 1..Cardinality(U) : \E k \in U : Renumber(p)[k] = i
<1> DEFINE below(k) == {j \in K : p[j] # 0 /\ p[j] <= p[k]}
           rank == [k \in U |-> Cardinality(below(k))]
<1>1. IsFiniteSet(U) /\ Cardinality(U) \in Nat
  BY FS_Subset, FS_CardinalityType
<1>2. \A k \in K : Renumber(p)[k] = IF p[k] = 0 THEN 0 ELSE Cardinality(below(k))
  BY DEF Renumber
<1>3. ASSUME NEW k \in U
      PROVE  /\ IsFiniteSet(below(k)) /\ Cardinality(below(k)) \in Nat
             /\ Cardinality(below(k)) \in 1..Cardinality(U)
  <2>1. below(k) \in SUBSET U /\ k \in below(k)
    OBVIOUS
  <2>2. IsFiniteSet(below(k)) /\ Cardinality(below(k)) <= Cardinality(U)
    BY <1>1, <2>1, FS_Subset
  <2>3. Cardinality(below(k)) \in Nat /\ Cardinality(below(k)) # 0
    BY <2>1, <2>2, FS_CardinalityType, FS_EmptySet
  <2> QED BY <1>1, <2>2, <2>3
<1>4. ASSUME NEW j \in U, NEW k \in U, p[j] < p[k]
      PROVE  Cardinality(below(j)) < Cardinality(below(k))
  <2>1. below(j) \in SUBSET below(k) /\ below(j) # below(k)
    BY <1>4
  <2>2. /\ Cardinality(below(j)) <= Cardinality(below(k))
        /\ Cardinality(below(j)) # Cardinality(below(k))
    BY <1>3, <2>1, FS_Subset
  <2> QED BY <1>3, <2>2
<1>5. rank \in [U -> 1..Cardinality(U)]
  BY <1>3
<1>6. \A j, k \in U : p[j] < p[k] => rank[j] < rank[k]
  BY <1>4
<1>7. \A k \in K : Renumber(p)[k] = IF p[k] = 0 THEN 0 ELSE rank[k]
  BY <1>2
<1> HIDE DEF below, rank
<1>8. ASSUME NEW j \in U, NEW k \in U
      PROVE  /\ rank[j] <= rank[k] <=> p[j] <= p[k]
             /\ rank[j] = rank[k] => j = k
  <2>1. p[j] = p[k] => j = k
    BY DEF Apart
  <2>2. p[j] \in Nat /\ p[k] \in Nat /\ rank[j] \in Nat /\ rank[k] \in Nat
    BY <1>1, <1>5
  <2>3. p[j] < p[k] \/ p[k] < p[j] \/ p[j] = p[k]
    BY <2>2
  <2> QED BY <1>6, <2>1, <2>2, <2>3
<1>9. rank \in Injection(U, 1..Cardinality(U))
  BY <1>5, <1>8 DEF Injection, IsInjective
<1>10. rank \in Surjection(U, 1..Cardinality(U))
  <2>1. IsFiniteSet(1..Cardinality(U)) /\ Cardinality(1..Cardinality(U)) = Cardinality(U)
    BY <1>1, FS_Interval
  <2> QED BY <1>9, <2>1, FS_Injection
<1>11. \A i \in 1..Cardinality(U) : \E k \in U : rank[k] = i
  BY <1>10 DEF Surjection
<1>12. \A k \in U : rank[k] \in Nat \ {0} /\ rank[k] <= Cardinality(U)
  BY <1>1, <1>5
<1> QED BY <1>1, <1>7, <1>8, <1>11, <1>12

\* A dictionary whose places come from renumbering is in order, has the keys
\* that were in use, and keeps their order.
LEMMA RenumberedInOrder ==
  ASSUME NEW K, IsFiniteSet(K), NEW p \in [K -> Nat], Apart(p),
         NEW d, d.pos = Renumber(p)
  PROVE  /\ InOrder(d)
         /\ Keys(d) = {k \in K : p[k] # 0}
         /\ \A j, k \in Keys(d) : d.pos[j] <= d.pos[k] <=> p[j] <= p[k]
<1> DEFINE U == {k \in K : p[k] # 0}
<1>1. Renumber(p) \in [K -> 0..Cardinality(K)]
  BY RenumberType
<1>2. U = {k \in K : p[k] # 0}
  OBVIOUS
<1> HIDE DEF U
<1>3. \A k \in K : Renumber(p)[k] = 0 <=> p[k] = 0
  BY <1>2, RenumberOrder
<1>4. Keys(d) = U
  BY <1>1, <1>2, <1>3 DEF Keys
<1>5. /\ Cardinality(K) \in Nat
      /\ \A j, k \in U : Renumber(p)[j] <= Renumber(p)[k] <=> p[j] <= p[k]
      /\ \A k \in U : Renumber(p)[k] <= Cardinality(U)
      /\ \A i \in 1..Cardinality(U) : \E k \in U : Renumber(p)[k] = i
  BY SMTT(30), <1>2, RenumberOrder, FS_CardinalityType
<1>6. ASSUME NEW j \in U, NEW k \in U, d.pos[j] = d.pos[k] PROVE j = k
  <2>1. p[j] <= p[k] /\ p[k] <= p[j]
    BY <1>1, <1>5, <1>6, <1>2
  <2>2. p[j] \in Nat \ {0} /\ p[k] \in Nat
    BY <1>2
  <2> QED BY <1>2, <2>1, <2>2 DEF Apart
<1> QED BY <1>2, <1>4, <1>5, <1>6 DEF InOrder

LEMMA KeysFinite ==
  ASSUME NEW K, IsFiniteSet(K), NEW V, NEW d \in Dict(K, V)
  PROVE  /\ Keys(d) \in SUBSET K /\ IsFiniteSet(Keys(d))
         /\ Cardinality(Keys(d)) \in Nat
         /\ d.pos \in [K -> Nat] /\ d.val \in [K -> V]
<1>1. Keys(d) \in SUBSET K
  BY DEF Keys, Dict
<1>2. Cardinality(K) \in Nat
  BY FS_CardinalityType
<1> QED BY <1>1, <1>2, FS_Subset, FS_CardinalityType DEF Dict

LEMMA EmptyOrder ==
  ASSUME NEW K, NEW none
  PROVE  Keys(Empty(K, none)) = {} /\ InOrder(Empty(K, none))
<1>1. Keys(Empty(K, none)) = {}
  BY DEF Empty, Keys
<1> QED BY <1>1, FS_EmptySet DEF InOrder

\* The key that is written becomes the newest.
LEMMA PutOrder ==
  ASSUME NEW K, IsFiniteSet(K), NEW V, NEW d \in Dict(K, V), InOrder(d),
         NEW k \in K, NEW v \in V
  PROVE  /\ InOrder(Put(d, k, v))
         /\ Keys(Put(d, k, v)) = Keys(d) \cup {k}
         /\ \A j \in Keys(Put(d, k, v)) : Put(d, k, v).pos[j] <= Put(d, k, v).pos[k]
<1> DEFINE p == [d.pos EXCEPT ![k] = Cardinality(DOMAIN d.pos) + 1]
<1>1. Cardinality(K) \in Nat
  BY FS_CardinalityType
<1>2. d.pos \in [K -> 0..Cardinality(K)]
  BY DEF Dict
<1>3. p \in [K -> Nat] /\ p[k] = Cardinality(K) + 1 /\ \A j \in K \ {k} : p[j] = d.pos[j]
  BY <1>1, <1>2
<1>4. Apart(p)
  BY <1>1, <1>2, <1>3 DEF Apart, InOrder, Keys
<1>5. {j \in K : p[j] # 0} = Keys(d) \cup {k}
  BY <1>1, <1>2, <1>3 DEF Keys
<1>6. \A j \in K : p[j] <= p[k]
  BY <1>1, <1>2, <1>3
<1>7. Put(d, k, v).pos = Renumber(p)
  BY <1>2 DEF Put, AtEnd
<1> HIDE DEF p
<1> QED BY <1>3, <1>4, <1>5, <1>6, <1>7, RenumberedInOrder

\* Dropping keys keeps the others, in their order.
LEMMA DropOrder ==
  ASSUME NEW K, IsFiniteSet(K), NEW V, NEW d \in Dict(K, V), InOrder(d),
         NEW none, NEW gone
  PROVE  /\ InOrder(Drop(d, gone, none))
         /\ Keys(Drop(d, gone, none)) = Keys(d) \ gone
         /\ \A j, k \in Keys(d) \ gone :
              Drop(d, gone, none).pos[j] <= Drop(d, gone, none).pos[k]
                <=> d.pos[j] <= d.pos[k]
<1> DEFINE p == [k \in DOMAIN d.pos |-> IF k \in gone THEN 0 ELSE d.pos[k]]
<1>1. d.pos \in [K -> Nat]
  BY KeysFinite
<1>2. p \in [K -> Nat] /\ \A k \in K : p[k] = IF k \in gone THEN 0 ELSE d.pos[k]
  BY <1>1
<1>3. Apart(p)
  BY <1>1, <1>2 DEF Apart, InOrder, Keys
<1>4. {j \in K : p[j] # 0} = Keys(d) \ gone
  BY <1>1, <1>2 DEF Keys
<1>5. Drop(d, gone, none).pos = Renumber(p)
  BY DEF Drop
<1> HIDE DEF p
<1>6. /\ InOrder(Drop(d, gone, none))
      /\ Keys(Drop(d, gone, none)) = Keys(d) \ gone
      /\ \A j, k \in Keys(Drop(d, gone, none)) :
           Drop(d, gone, none).pos[j] <= Drop(d, gone, none).pos[k] <=> p[j] <= p[k]
  BY <1>2, <1>3, <1>4, <1>5, RenumberedInOrder
<1>7. \A k \in Keys(d) \ gone : p[k] = d.pos[k]
  BY <1>1, <1>2 DEF Keys
<1> QED BY <1>6, <1>7

\* A dictionary that is trimmed has at most cap keys, the newest ones.
LEMMA TrimOrder ==
  ASSUME NEW K, IsFiniteSet(K), NEW V, NEW d \in Dict(K, V), InOrder(d),
         NEW none, NEW cap \in Nat
  PROVE  /\ InOrder(Trim(d, cap, none))
         /\ Keys(Trim(d, cap, none)) \subseteq Keys(d)
         /\ Cardinality(Keys(Trim(d, cap, none))) <= cap
         /\ \A k \in Keys(d) : d.pos[k] > Cardinality(Keys(d)) - cap
                                 => k \in Keys(Trim(d, cap, none))
<1> DEFINE n == Cardinality(Keys(d))
           gone == {k \in Keys(d) : d.pos[k] <= n - cap}
           left == Keys(d) \ gone
           over == IF cap < n THEN n - cap ELSE 0
           place == [k \in left |-> d.pos[k]]
<1>1. /\ IsFiniteSet(Keys(d)) /\ n \in Nat /\ Keys(d) \in SUBSET K
      /\ d.pos \in [K -> Nat]
  BY KeysFinite
<1>2. InOrder(Trim(d, cap, none)) /\ Keys(Trim(d, cap, none)) = left
  BY DropOrder DEF Trim
<1>3. place \in Injection(left, (over + 1)..n)
  <2>1. \A k \in left : d.pos[k] \in (over + 1)..n
    BY <1>1 DEF InOrder, Keys
  <2>2. \A j, k \in left : d.pos[j] = d.pos[k] => j = k
    BY DEF InOrder
  <2> QED BY <2>1, <2>2 DEF Injection, IsInjective
<1>4. IsFiniteSet((over + 1)..n) /\ Cardinality((over + 1)..n) <= cap
  <2>1. over \in Nat /\ n - over <= cap /\ over <= n
    BY <1>1
  <2> HIDE DEF over, n
  <2>2. n \in Int /\ over + 1 \in Int
    BY <1>1, <2>1
  <2>3. /\ IsFiniteSet((over + 1)..n)
        /\ Cardinality((over + 1)..n) = IF over + 1 > n THEN 0 ELSE n - (over + 1) + 1
    BY <2>2, FS_Interval
  <2> QED BY <1>1, <2>1, <2>2, <2>3
<1>5. Cardinality(left) <= Cardinality((over + 1)..n)
  BY <1>3, <1>4, FS_Injection
<1>6. Cardinality(left) \in Nat /\ Cardinality((over + 1)..n) \in Nat
  BY <1>1, <1>4, FS_Subset, FS_CardinalityType
<1>7. Cardinality(left) <= cap
  BY <1>4, <1>5, <1>6
<1> QED BY <1>1, <1>2, <1>7

\* The newest key has the last place.
LEMMA NewestPlace ==
  ASSUME NEW K, IsFiniteSet(K), NEW V, NEW d \in Dict(K, V), InOrder(d),
         NEW k \in Keys(d), \A j \in Keys(d) : d.pos[j] <= d.pos[k]
  PROVE  d.pos[k] = Cardinality(Keys(d))
<1>1. /\ IsFiniteSet(Keys(d)) /\ Cardinality(Keys(d)) \in Nat
      /\ d.pos[k] \in Nat \ {0} /\ \A j \in Keys(d) : d.pos[j] \in Nat
  BY KeysFinite DEF Keys
<1>2. Cardinality(Keys(d)) \in 1..Cardinality(Keys(d))
  BY <1>1 DEF InOrder
<1>3. PICK j \in Keys(d) : d.pos[j] = Cardinality(Keys(d))
  BY <1>2 DEF InOrder
<1> QED BY <1>1, <1>3 DEF InOrder

\* A key that is assigned to keeps its place, or becomes the newest.
LEMMA AssignOrder ==
  ASSUME NEW K, IsFiniteSet(K), NEW V, NEW d \in Dict(K, V), InOrder(d),
         NEW k \in K, NEW v \in V
  PROVE  /\ InOrder(Assign(d, k, v))
         /\ Keys(Assign(d, k, v)) = Keys(d) \cup {k}
<1>1. CASE d.pos[k] = 0
  <2>1. Assign(d, k, v) = Put(d, k, v)
    BY <1>1 DEF Assign, Put
  <2> QED BY <2>1, PutOrder
<1>2. CASE d.pos[k] # 0
  <2>1. Assign(d, k, v).pos = d.pos
    BY <1>2 DEF Assign
  <2>2. Keys(Assign(d, k, v)) = Keys(d) /\ k \in Keys(d)
    BY <1>2, <2>1 DEF Keys, Dict
  <2> QED BY <2>1, <2>2 DEF InOrder
<1> QED BY <1>1, <1>2

\* A dictionary with room for every key is never trimmed.
LEMMA TrimRoom ==
  ASSUME NEW K, IsFiniteSet(K), NEW V, NEW d \in Dict(K, V), NEW none,
         NEW cap \in Nat, Cardinality(K) <= cap
  PROVE  \A k \in K : Trim(d, cap, none).val[k] = d.val[k]
<1>1. /\ Cardinality(K) \in Nat /\ Cardinality(Keys(d)) \in Nat
      /\ Cardinality(Keys(d)) <= Cardinality(K)
  BY KeysFinite, FS_Subset, FS_CardinalityType
<1>2. d.pos \in [K -> Nat]
  BY KeysFinite
<1> DEFINE n == Cardinality(Keys(d))
           gone == {k \in Keys(d) : d.pos[k] <= n - cap}
<1>3. n \in Nat /\ n <= cap
  BY <1>1
<1> HIDE DEF n
<1>4. \A k \in Keys(d) : d.pos[k] \in Nat /\ d.pos[k] # 0
  BY <1>2 DEF Keys
<1>5. gone = {}
  BY <1>3, <1>4
<1>6. Trim(d, cap, none) = Drop(d, {}, none)
  BY <1>5 DEF Trim, n
<1>7. DOMAIN d.val = K
  BY DEF Dict
<1> QED BY <1>6, <1>7 DEF Drop
=============================================================================
