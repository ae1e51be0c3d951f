---------------------------- MODULE OrderedDict ----------------------------
(***************************************************************************)
(* collections.OrderedDict, as the plugin's caches use it.  A dictionary   *)
(* is a record: val gives the value of every possible key, none for a key  *)
(* that is not in it, and pos its place in the order, oldest first, 0 for  *)
(* a key that is not in it.                                                *)
(***************************************************************************)
EXTENDS Integers, FiniteSets

Dict(K, V) == [val : [K -> V], pos : [K -> 0..Cardinality(K)]]

Empty(K, none) == [val |-> [k \in K |-> none], pos |-> [k \in K |-> 0]]

Keys(d) == {k \in DOMAIN d.pos : d.pos[k] # 0}

\* The same order, numbered 1, 2, ... without gaps.
Renumber(p) ==
  [k \in DOMAIN p |->
     IF p[k] = 0 THEN 0
     ELSE Cardinality({j \in DOMAIN p : p[j] # 0 /\ p[j] <= p[k]})]

AtEnd(p, k) == Renumber([p EXCEPT ![k] = Cardinality(DOMAIN p) + 1])

\* d[k] = v followed by move_to_end(k).
Put(d, k, v) ==
  [val |-> [d.val EXCEPT ![k] = v], pos |-> AtEnd(d.pos, k)]

\* d[k] = v alone: a key that is already there keeps its place.
Assign(d, k, v) ==
  [val |-> [d.val EXCEPT ![k] = v],
   pos |-> IF d.pos[k] = 0 THEN AtEnd(d.pos, k) ELSE d.pos]

Promote(d, k) == [val |-> d.val, pos |-> AtEnd(d.pos, k)]

Drop(d, gone, none) ==
  [val |-> [k \in DOMAIN d.val |-> IF k \in gone THEN none ELSE d.val[k]],
   pos |-> Renumber([k \in DOMAIN d.pos |->
                        IF k \in gone THEN 0 ELSE d.pos[k]])]

\* while len(d) > cap: d.popitem(last=False)
Trim(d, cap, none) ==
  Drop(d, {k \in Keys(d) : d.pos[k] <= Cardinality(Keys(d)) - cap}, none)

Newest(d, S) ==
  CHOOSE k \in S : \A j \in S : d.pos[j] <= d.pos[k]
=============================================================================
