------------------------- MODULE ReplyStreams_proofs -------------------------
(***************************************************************************)
(* Theorems about the reply streams, for any sessions, clients and tasks,  *)
(* any limits and any number of payloads, connections and restarts: first  *)
(* what the streams retain, then what their clients receive over           *)
(* reconnects, expiry, eviction and restarts.                              *)
(***************************************************************************)
EXTENDS ReplyStreams, OrderedDict_proofs, SequenceTheorems

-----------------------------------------------------------------------------
(* Sizes: what Bytes adds up.                                              *)

Adds(q, n, f) == \A i \in 0..n : f[i] = IF i = 0 THEN 0 ELSE f[i - 1] + q[i].size
SumUpTo(q, n, f) == f \in [0..n -> Nat] /\ Adds(q, n, f)

LEMMA SumExists ==
  ASSUME NEW q \in Seq(Entries), NEW m \in 0..Len(q)
  PROVE  \E f : SumUpTo(q, m, f)
<1> DEFINE T == {n \in 0..Len(q) : ~ \E f : SumUpTo(q, n, f)}
<1> SUFFICES ASSUME T # {} PROVE FALSE
  OBVIOUS
<1>1. PICK n \in T : \A k \in T : n <= k
  <2>1. T \in SUBSET Nat
    OBVIOUS
  <2> QED BY <2>1, LeastNatural
<1>2. CASE n = 0
  <2>1. SumUpTo(q, n, [i \in 0..0 |-> 0])
    BY <1>2 DEF SumUpTo, Adds
  <2> QED BY <1>1, <2>1
<1>3. CASE n # 0
  <2>1. n - 1 \in 0..Len(q) /\ n - 1 \notin T
    BY <1>1, <1>3
  <2>2. PICK g : SumUpTo(q, n - 1, g)
    BY <2>1
  <2> DEFINE f == [i \in 0..n |-> IF i = n THEN g[n - 1] + q[n].size ELSE g[i]]
  <2>3. n \in 1..Len(q) /\ n \in Nat
    BY <1>1, <1>3
  <2>4. q[n] \in Entries
    BY <2>3, ElementOfSeq
  <2>5. q[n].size \in Nat
    BY <2>4 DEF Entries
  <2>6. /\ g \in [0..(n - 1) -> Nat]
        /\ \A i \in 0..(n - 1) : g[i] = IF i = 0 THEN 0 ELSE g[i - 1] + q[i].size
    BY <2>2 DEF SumUpTo, Adds
  <2>7. f \in [0..n -> Nat]
    BY <2>3, <2>5, <2>6
  <2>8. ASSUME NEW i \in 0..n
        PROVE  f[i] = IF i = 0 THEN 0 ELSE f[i - 1] + q[i].size
    <3>1. CASE i = n
      BY <2>3, <2>6, <3>1
    <3>2. CASE i # n
      BY <2>3, <2>6, <3>2
    <3> QED BY <3>1, <3>2
  <2> QED BY <1>1, <2>7, <2>8 DEF SumUpTo, Adds
<1> QED BY <1>2, <1>3

\* The sums do not depend on what comes after.
LEMMA SumUnique ==
  ASSUME NEW q, NEW r, NEW n \in Nat, NEW f, NEW g,
         Adds(q, n, f), Adds(r, n, g), \A i \in 1..n : q[i] = r[i]
  PROVE  \A i \in 0..n : f[i] = g[i]
<1> DEFINE T == {i \in 0..n : f[i] # g[i]}
<1> SUFFICES ASSUME T # {} PROVE FALSE
  OBVIOUS
<1>1. PICK i \in T : \A k \in T : i <= k
  <2>1. T \in SUBSET Nat
    OBVIOUS
  <2> QED BY <2>1, LeastNatural
<1>2. CASE i = 0
  BY <1>1, <1>2 DEF Adds
<1>3. CASE i # 0
  <2>1. i \in 1..n /\ i - 1 \in 0..n /\ ~ (i <= i - 1)
    BY <1>1, <1>3
  <2>2. f[i - 1] = g[i - 1]
    BY <1>1, <2>1
  <2> QED BY <1>1, <2>1, <2>2 DEF Adds
<1> QED BY <1>2, <1>3

\* Any function that adds up the sizes gives the bytes of the sequence.
LEMMA BytesIsSum ==
  ASSUME NEW q \in Seq(Entries), NEW f, SumUpTo(q, Len(q), f)
  PROVE  Bytes(q) = f[Len(q)]
<1> DEFINE Sum(h) == h = [i \in 0..Len(q) |-> IF i = 0 THEN 0 ELSE h[i - 1] + q[i].size]
           g == CHOOSE h : Sum(h)
<1>1. Sum(f)
  BY DEF SumUpTo, Adds
<1>2. Bytes(q) = g[Len(q)]
  BY DEF Bytes
<1>3. Sum(g)
  BY <1>1
<1>4. Adds(q, Len(q), g)
  BY <1>3 DEF Adds
<1> HIDE DEF g
<1>5. Adds(q, Len(q), f)
  BY DEF SumUpTo
<1>6. Len(q) \in Nat /\ \A i \in 1..Len(q) : q[i] = q[i]
  OBVIOUS
<1>7. \A i \in 0..Len(q) : f[i] = g[i]
  BY <1>4, <1>5, <1>6, SumUnique
<1> QED BY <1>2, <1>6, <1>7

LEMMA BytesType == ASSUME NEW q \in Seq(Entries) PROVE Bytes(q) \in Nat
<1>1. Len(q) \in Nat /\ Len(q) \in 0..Len(q)
  OBVIOUS
<1>2. PICK f : SumUpTo(q, Len(q), f)
  BY <1>1, SumExists
<1>3. Bytes(q) = f[Len(q)]
  BY <1>2, BytesIsSum
<1> QED BY <1>1, <1>2, <1>3 DEF SumUpTo, Adds

LEMMA BytesEmpty == Bytes(<< >>) = 0
<1>1. << >> \in Seq(Entries) /\ Len(<< >>) = 0 /\ Len(<< >>) \in 0..Len(<< >>)
  OBVIOUS
<1> DEFINE q == << >>
<1> HIDE DEF q
<1>2. q \in Seq(Entries) /\ Len(q) = 0 /\ Len(q) \in 0..Len(q)
  BY <1>1 DEF q
<1>3. PICK f : SumUpTo(q, Len(q), f)
  BY <1>2, SumExists
<1>4. Bytes(q) = f[Len(q)]
  BY <1>2, <1>3, BytesIsSum
<1>5. f[0] = 0
  BY <1>2, <1>3 DEF SumUpTo, Adds
<1>6. Bytes(q) = 0
  BY <1>2, <1>4, <1>5
<1> QED BY <1>6 DEF q

LEMMA BytesAppend ==
  ASSUME NEW q \in Seq(Entries), NEW e \in Entries
  PROVE  Bytes(Append(q, e)) = Bytes(q) + e.size
<1> DEFINE r == Append(q, e)
<1>1. r \in Seq(Entries) /\ Len(r) = Len(q) + 1 /\ Len(q) \in Nat
      /\ r[Len(r)] = e /\ \A i \in 1..Len(q) : q[i] = r[i]
  OBVIOUS
<1> HIDE DEF r
<1>2. PICK g : SumUpTo(r, Len(r), g)
  BY <1>1, SumExists
<1>3. PICK f : SumUpTo(q, Len(q), f)
  BY <1>1, SumExists
<1>4. \A i \in 0..Len(q) : f[i] = g[i]
  <2>1. Adds(q, Len(q), f)
    BY <1>3 DEF SumUpTo
  <2>2. Adds(r, Len(q), g)
    BY <1>1, <1>2 DEF SumUpTo, Adds
  <2>3. Len(q) \in Nat /\ \A i \in 1..Len(q) : q[i] = r[i]
    BY <1>1
  <2> QED BY <2>1, <2>2, <2>3, SumUnique
<1>5. g[Len(r)] = g[Len(q)] + e.size
  BY <1>1, <1>2 DEF SumUpTo, Adds
<1>6. Bytes(r) = g[Len(r)] /\ Bytes(q) = f[Len(q)]
  BY <1>1, <1>2, <1>3, BytesIsSum
<1> QED BY <1>1, <1>4, <1>5, <1>6 DEF r

LEMMA BytesOne == ASSUME NEW e \in Entries PROVE Bytes(<<e>>) = e.size
<1>1. <<e>> = Append(<< >>, e) /\ << >> \in Seq(Entries)
  OBVIOUS
<1>2. Bytes(Append(<< >>, e)) = Bytes(<< >>) + e.size
  BY <1>1, BytesAppend
<1>3. e.size \in Nat
  BY DEF Entries
<1> QED BY <1>1, <1>2, <1>3, BytesEmpty
-----------------------------------------------------------------------------
(* The store: what a retained backlog looks like.                          *)

LEMMA MinOf ==
  ASSUME NEW S \in SUBSET Nat, S # {}
  PROVE  Min(S) \in S /\ \A y \in S : Min(S) <= y
BY LeastNatural DEF Min

LEMMA MaxOf ==
  ASSUME NEW n \in Nat, NEW S \in SUBSET (0..n), S # {}
  PROVE  Max(S) \in S /\ \A y \in S : y <= Max(S)
<1> DEFINE below == {n - x : x \in S}
<1>1. \A x \in S : x \in Nat /\ n - x \in Nat
  OBVIOUS
<1> HIDE DEF below
<1>6. below \in SUBSET Nat /\ below # {}
  BY <1>1 DEF below
<1>2. PICK a \in below : \A b \in below : a <= b
  BY <1>6, LeastNatural
<1>3. PICK x \in S : a = n - x
  BY <1>2 DEF below
<1>4. ASSUME NEW y \in S PROVE x >= y
  <2>1. a <= n - y
    BY <1>2 DEF below
  <2>2. x \in Nat /\ y \in Nat
    BY <1>1
  <2> QED BY <1>3, <2>1, <2>2
<1>5. Max(S) \in S /\ \A y \in S : Max(S) >= y
  BY <1>4 DEF Max
<1> QED BY <1>5

LEMMA EntryType ==
  ASSUME NEW q \in Seq(Entries), NEW i \in 1..Len(q)
  PROVE  /\ q[i] \in Entries /\ q[i].token \in Nat \X Nat /\ q[i].seq \in Nat
         /\ q[i].task \in Tasks /\ q[i].stamp \in Nat /\ q[i].durable = TRUE
<1>1. q[i] \in Entries
  OBVIOUS
<1> QED BY <1>1 DEF Entries

LEMMA TailOf ==
  ASSUME NEW S, NEW q \in Seq(S), NEW m \in 0..Len(q)
  PROVE  /\ SubSeq(q, m + 1, Len(q)) \in Seq(S)
         /\ Len(SubSeq(q, m + 1, Len(q))) = Len(q) - m
         /\ \A i \in 1..(Len(q) - m) : SubSeq(q, m + 1, Len(q))[i] = q[m + i]
OBVIOUS

LEMMA Shifted ==
  ASSUME NEW n \in Nat, NEW m \in 0..n, NEW i \in 1..(n + 1 - m)
  PROVE  /\ m + i \in 1..(n + 1)
         /\ m + i # n + 1 => m + i \in 1..n
         /\ n + 1 - m \in Nat \ {0} /\ n + 1 - m \in 1..(n + 1 - m)
         /\ m + (n + 1 - m) = n + 1
OBVIOUS

\* r is q with e added, without some of the first entries.
GrownBy(q, e, r) ==
  \E m \in 0..Len(q) :
    /\ Len(r) = Len(q) + 1 - m
    /\ \A i \in 1..(Len(q) + 1 - m) : r[i] = IF m + i = Len(q) + 1 THEN e ELSE q[m + i]

LEMMA GrownTail ==
  ASSUME NEW q \in Seq(Entries), NEW n \in Nat, Len(q) = n, NEW m \in 0..n,
         NEW e \in Entries, NEW r, r = SubSeq(Append(q, e), m + 1, n + 1)
  PROVE  /\ r \in Seq(Entries) /\ Len(r) = n + 1 - m
         /\ \A i \in 1..(n + 1 - m) : r[i] = IF m + i = n + 1 THEN e ELSE q[m + i]
<1> DEFINE s == Append(q, e)
<1>1. /\ s \in Seq(Entries) /\ Len(s) = n + 1
      /\ \A j \in 1..(n + 1) : s[j] = IF j = n + 1 THEN e ELSE q[j]
  <2>1. s \in Seq(Entries) /\ Len(s) = n + 1
    OBVIOUS
  <2>2. \A j \in 1..n : s[j] = q[j]
    OBVIOUS
  <2>3. s[n + 1] = e
    OBVIOUS
  <2> HIDE DEF s
  <2> QED BY <2>1, <2>2, <2>3
<1> HIDE DEF s
<1>2. r = SubSeq(s, m + 1, n + 1)
  BY DEF s
<1>3. /\ r \in Seq(Entries) /\ Len(r) = n + 1 - m
      /\ \A i \in 1..(n + 1 - m) : r[i] = s[m + i]
  <2>1. m \in 0..Len(s) /\ Len(s) - m = n + 1 - m
    BY <1>1
  <2>2. r = SubSeq(s, m + 1, Len(s))
    BY <1>1, <1>2
  <2>3. /\ SubSeq(s, m + 1, Len(s)) \in Seq(Entries)
        /\ Len(SubSeq(s, m + 1, Len(s))) = Len(s) - m
        /\ \A i \in 1..(Len(s) - m) : SubSeq(s, m + 1, Len(s))[i] = s[m + i]
    BY <1>1, <2>1, TailOf
  <2> QED BY <2>1, <2>2, <2>3, Zenon
<1>4. \A i \in 1..(n + 1 - m) : m + i \in 1..(n + 1)
  OBVIOUS
<1> QED BY <1>1, <1>3, <1>4

\* What is kept is a tail of the entries, within both limits, and none is
\* dropped that would fit.
LEMMA WithinTail ==
  ASSUME NEW q \in Seq(Entries)
  PROVE  \E m \in 0..Len(q) :
           /\ Within(q) = SubSeq(q, m + 1, Len(q))
           /\ Len(Within(q)) <= BacklogEvents
           /\ Bytes(Within(q)) <= BacklogBytes
           /\ \A k \in 0..Len(q) :
                /\ Len(SubSeq(q, k + 1, Len(q))) <= BacklogEvents
                /\ Bytes(SubSeq(q, k + 1, Len(q))) <= BacklogBytes
                => m <= k
<1> DEFINE tail(k) == SubSeq(q, k + 1, Len(q))
           fits == {k \in 0..Len(q) : /\ Len(tail(k)) <= BacklogEvents
                                      /\ Bytes(tail(k)) <= BacklogBytes}
<1>1. BacklogEvents \in Nat /\ BacklogBytes \in Nat
  BY StreamAssumption
<1>2. Len(q) \in Nat /\ Len(q) \in 0..Len(q) /\ tail(Len(q)) = << >>
  BY TailOf
<1>3. Len(q) \in fits
  <2>1. Len(tail(Len(q))) = 0 /\ Bytes(tail(Len(q))) = 0
    BY <1>2, BytesEmpty
  <2> QED BY <1>1, <1>2, <2>1
<1>4. fits \in SUBSET Nat /\ fits # {}
  BY <1>3
<1>5. Min(fits) \in fits /\ \A y \in fits : Min(fits) <= y
  BY <1>4, MinOf
<1>6. Within(q) = tail(Min(fits))
  BY DEF Within
<1> QED BY <1>5, <1>6

\* The last entry is kept if it fits by itself.
LEMMA WithinKeepsLast ==
  ASSUME NEW q \in Seq(Entries), NEW e \in Entries, e.size <= BacklogBytes
  PROVE  \E m \in 0..Len(q) :
           Within(Append(q, e)) = SubSeq(Append(q, e), m + 1, Len(q) + 1)
<1> DEFINE r == Append(q, e)
<1>1. r \in Seq(Entries) /\ Len(r) = Len(q) + 1 /\ Len(q) \in Nat /\ r[Len(r)] = e
  OBVIOUS
<1> HIDE DEF r
<1>2. PICK m \in 0..Len(r) :
        /\ Within(r) = SubSeq(r, m + 1, Len(r))
        /\ \A k \in 0..Len(r) :
             /\ Len(SubSeq(r, k + 1, Len(r))) <= BacklogEvents
             /\ Bytes(SubSeq(r, k + 1, Len(r))) <= BacklogBytes
             => m <= k
  BY <1>1, WithinTail
<1>3. Len(q) \in 0..Len(r)
  BY <1>1
<1> DEFINE one == SubSeq(r, Len(q) + 1, Len(r))
<1>4. one \in Seq(Entries) /\ Len(one) = 1 /\ one[1] = e
  BY <1>1, <1>3, TailOf
<1> HIDE DEF one
<1>5. one = <<e>>
  BY <1>4
<1>6. Bytes(one) <= BacklogBytes
  BY <1>5, BytesOne
<1>7. Len(one) <= BacklogEvents
  BY <1>4, StreamAssumption
<1>8. m <= Len(q)
  BY <1>2, <1>3, <1>6, <1>7 DEF one
<1>9. m \in 0..Len(q) /\ Within(r) = SubSeq(r, m + 1, Len(q) + 1)
  BY <1>1, <1>2, <1>8
<1> QED BY <1>9 DEF r

\* A token was given out: by an earlier process, or by this one.
Drawn(token, ep, ser) == token[1] < ep \/ (token[1] = ep /\ token[2] < ser)

\* A backlog is a run of events under one token, ending in the newest one.
Run(b, n) ==
  /\ \A i \in 1..Len(b.entries) :
       /\ b.entries[i].token = b.token
       /\ b.entries[i].seq < b.next
       /\ b.entries[i].stamp <= n
  /\ \A i, j \in 1..Len(b.entries) : i < j =>
       /\ b.entries[i].seq < b.entries[j].seq
       /\ b.entries[i].stamp < b.entries[j].stamp
Sound(b, n, ep, ser) ==
  /\ b.bytes = Bytes(b.entries)
  /\ b.token \in Nat \X Nat
  /\ Drawn(b.token, ep, ser)
  /\ b.entries # << >>
  /\ b.entries[Len(b.entries)].seq = b.next - 1
  /\ Run(b, n)

SoundStore(d, n, ep, ser) ==
  /\ InOrder(d)
  /\ \A s \in Sessions : IF s \in Keys(d) THEN Sound(d.val[s], n, ep, ser)
                         ELSE d.val[s] = NoBacklog
Stores == SoundStore(backlogs, captured, epoch, serial)

LEMMA NoBacklogType == NoBacklog \in Backlogs
BY DEF NoBacklog, Backlogs

LEMMA SoundLater ==
  ASSUME NEW b \in Backlogs, NEW n \in Nat, NEW m \in Nat, n <= m,
         NEW ep, NEW ser \in Nat, NEW r \in Nat, ser <= r,
         Sound(b, n, ep, ser)
  PROVE  Sound(b, m, ep, r)
<1>1. Drawn(b.token, ep, r)
  BY DEF Sound, Drawn
<1>2. \A i \in 1..Len(b.entries) : b.entries[i].stamp \in Nat
  <2>1. b.entries \in Seq(Entries)
    BY DEF Backlogs
  <2> QED BY <2>1, EntryType
<1>3. Run(b, m)
  BY <1>2 DEF Sound, Run
<1> QED BY <1>1, <1>3 DEF Sound

LEMMA SoundDrop ==
  ASSUME NEW d \in Dict(Sessions, Backlogs), NEW n, NEW ep, NEW ser, NEW gone,
         SoundStore(d, n, ep, ser)
  PROVE  LET left == Drop(d, gone, NoBacklog)
         IN  /\ left \in Dict(Sessions, Backlogs)
             /\ SoundStore(left, n, ep, ser)
             /\ Keys(left) = Keys(d) \ gone
             /\ \A s \in Sessions : left.val[s] = IF s \in Keys(left) THEN d.val[s]
                                                  ELSE NoBacklog
<1> DEFINE left == Drop(d, gone, NoBacklog)
<1>1. IsFiniteSet(Sessions)
  BY StreamAssumption
<1>2. /\ left \in Dict(Sessions, Backlogs)
      /\ \A s \in Sessions : left.val[s] = IF s \in gone THEN NoBacklog ELSE d.val[s]
  BY <1>1, DropType, NoBacklogType
<1>3. InOrder(left) /\ Keys(left) = Keys(d) \ gone
  BY <1>1, DropOrder DEF SoundStore
<1> HIDE DEF left
<1>4. \A s \in Sessions : left.val[s] = IF s \in Keys(left) THEN d.val[s] ELSE NoBacklog
  BY <1>2, <1>3 DEF SoundStore
<1>5. SoundStore(left, n, ep, ser)
  BY <1>3, <1>4 DEF SoundStore
<1> QED BY <1>2, <1>3, <1>4, <1>5 DEF left

LEMMA PrunedStore ==
  ASSUME TypeOK, Stores
  PROVE  /\ Pruned \in Dict(Sessions, Backlogs)
         /\ SoundStore(Pruned, captured, epoch, serial)
         /\ Keys(Pruned) = Keys(backlogs) \ old
         /\ \A s \in Sessions : /\ s \in Keys(Pruned) <=> Pruned.pos[s] # 0
                                /\ Pruned.val[s] = IF s \in Keys(Pruned)
                                                   THEN backlogs.val[s] ELSE NoBacklog
<1>1. /\ Pruned \in Dict(Sessions, Backlogs)
      /\ SoundStore(Pruned, captured, epoch, serial)
      /\ Keys(Pruned) = Keys(backlogs) \ old
      /\ \A s \in Sessions : Pruned.val[s] = IF s \in Keys(Pruned)
                                             THEN backlogs.val[s] ELSE NoBacklog
  BY SoundDrop DEF TypeOK, Stores, Pruned
<1>2. \A s \in Sessions : s \in Keys(Pruned) <=> Pruned.pos[s] # 0
  BY <1>1 DEF Keys, Dict
<1> QED BY <1>1, <1>2

\* The backlog a capture extends, and the event it adds.
Before(s) ==
  IF Pruned.pos[s] # 0 THEN Pruned.val[s] ELSE [NoBacklog EXCEPT !.token = NewToken(s)]
Event(s, t, size) ==
  [token |-> Before(s).token, seq |-> Before(s).next, task |-> t, size |-> size,
   stamp |-> captured + 1, durable |-> TRUE]
NextSerial(s) == IF Pruned.pos[s] # 0 THEN serial ELSE serial + 1

LEMMA BeforeIs ==
  ASSUME TypeOK, Stores, NEW s \in Sessions
  PROVE  /\ Before(s) \in Backlogs
         /\ Before(s).token \in Nat \X Nat
         /\ Drawn(Before(s).token, epoch, NextSerial(s))
         /\ Run(Before(s), captured)
         /\ NextSerial(s) \in Nat /\ serial <= NextSerial(s)
<1>1. serial \in Nat /\ epoch \in Nat
  BY DEF TypeOK
<1>2. CASE Pruned.pos[s] # 0
  <2>1. Sound(Pruned.val[s], captured, epoch, serial) /\ Pruned.val[s] \in Backlogs
    BY <1>2, PrunedStore DEF SoundStore, Dict
  <2> QED BY <1>1, <1>2, <2>1 DEF Before, NextSerial, Sound
<1>3. CASE Pruned.pos[s] = 0
  <2>1. Before(s) = [token |-> NewToken(s), next |-> 0, entries |-> << >>, bytes |-> 0]
    BY <1>3 DEF Before, NoBacklog
  <2>2. NewToken(s) \in Nat \X Nat /\ Drawn(NewToken(s), epoch, serial + 1)
    BY <1>1 DEF NewToken, Drawn
  <2>3. Run(Before(s), captured)
    BY <2>1 DEF Run
  <2> QED BY <1>1, <1>3, <2>1, <2>2, <2>3 DEF NextSerial, Backlogs
<1> QED BY <1>2, <1>3

LEMMA EventIs ==
  ASSUME TypeOK, Stores, NEW s \in Sessions, NEW t \in Tasks,
         NEW size \in Nat
  PROVE  Event(s, t, size) \in Entries
<1>1. Before(s) \in Backlogs /\ Before(s).token \in Nat \X Nat /\ captured \in Nat
  BY BeforeIs DEF TypeOK
<1> QED BY <1>1 DEF Event, Entries, Backlogs
\* A run stays one when an event is added and old ones are cut off.
LEMMA RunGrows ==
  ASSUME NEW b \in Backlogs, NEW n \in Nat, Run(b, n),
         NEW e \in Entries, e.token = b.token, e.seq = b.next, e.stamp = n + 1,
         NEW c \in Backlogs, c.token = b.token, c.next = b.next + 1,
         GrownBy(b.entries, e, c.entries)
  PROVE  Run(c, n + 1)
<1>0. PICK m \in 0..Len(b.entries) :
        /\ Len(c.entries) = Len(b.entries) + 1 - m
        /\ \A i \in 1..(Len(b.entries) + 1 - m) :
             c.entries[i] = IF m + i = Len(b.entries) + 1 THEN e ELSE b.entries[m + i]
  BY DEF GrownBy
<1> DEFINE len == Len(b.entries)
<1>1. b.entries \in Seq(Entries) /\ len \in Nat /\ b.next \in Nat
  BY DEF Backlogs
<1>2. \A i \in 1..len : /\ b.entries[i].token = b.token
                        /\ b.entries[i].seq \in Nat /\ b.entries[i].stamp \in Nat
                        /\ b.entries[i].seq < b.next /\ b.entries[i].stamp <= n
  BY <1>1, EntryType DEF Run
<1>3. \A i, j \in 1..len : i < j => /\ b.entries[i].seq < b.entries[j].seq
                                    /\ b.entries[i].stamp < b.entries[j].stamp
  BY DEF Run
<1> HIDE DEF len
<1>4. m \in 0..len /\ Len(c.entries) = len + 1 - m
  BY <1>0 DEF len
<1>5. \A i \in 1..(len + 1 - m) :
        c.entries[i] = IF m + i = len + 1 THEN e ELSE b.entries[m + i]
  BY <1>0 DEF len
<1>6. ASSUME NEW i \in 1..(len + 1 - m)
      PROVE  /\ c.entries[i].token = c.token
             /\ c.entries[i].seq < c.next /\ c.entries[i].stamp <= n + 1
  <2>1. CASE m + i = len + 1
    BY SMTT(30), <1>1, <1>4, <1>5, <2>1
  <2>2. CASE m + i # len + 1
    <3>1. m + i \in 1..len
      BY <1>1, <1>4, <2>2
    <3>2. c.entries[i] = b.entries[m + i]
      BY <1>5, <2>2
    <3> QED BY SMTT(30), <1>1, <1>2, <3>1, <3>2
  <2> QED BY <2>1, <2>2
<1>7. ASSUME NEW i \in 1..(len + 1 - m), NEW j \in 1..(len + 1 - m), i < j
      PROVE  /\ c.entries[i].seq < c.entries[j].seq
             /\ c.entries[i].stamp < c.entries[j].stamp
  <2>1. m + i \in 1..len /\ c.entries[i] = b.entries[m + i]
    BY <1>1, <1>4, <1>5, <1>7
  <2>2. CASE m + j = len + 1
    <3>1. c.entries[j] = e
      BY <1>5, <2>2
    <3> QED BY <1>1, <1>2, <2>1, <3>1
  <2>3. CASE m + j # len + 1
    <3>1. m + j \in 1..len
      BY <1>1, <1>4, <2>3, Shifted
    <3>3. m + i < m + j
      BY <1>4, <1>7
    <3>2. c.entries[j] = b.entries[m + j]
      BY <1>5, <2>3
    <3> QED BY <1>3, <2>1, <3>1, <3>2, <3>3
  <2> QED BY <2>2, <2>3
<1> QED BY <1>4, <1>6, <1>7 DEF Run
AddedTo(b, q, e, c) ==
  LET kept == Within(Append(q, e))
  IN  c = [b EXCEPT !.next = @ + 1, !.entries = kept, !.bytes = Bytes(kept)]

LEMMA Grown ==
  ASSUME NEW b \in Backlogs, NEW q \in Seq(Entries),
         NEW e \in Entries, e.size <= BacklogBytes,
         NEW c, AddedTo(b, q, e, c)
  PROVE  /\ c \in Backlogs /\ c.token = b.token /\ c.next = b.next + 1
         /\ c.bytes = Bytes(c.entries)
         /\ c.entries[Len(c.entries)] = e /\ c.entries # << >>
         /\ GrownBy(q, e, c.entries)
<1> DEFINE n == Len(q)
<1>10. n \in Nat /\ n = Len(q)
  OBVIOUS
<1> HIDE DEF n
<1>0. PICK kept : kept = Within(Append(q, e))
  OBVIOUS
<1>1. PICK m \in 0..n : kept = SubSeq(Append(q, e), m + 1, n + 1)
  BY <1>0, WithinKeepsLast DEF n
<1>2. c = [b EXCEPT !.next = @ + 1, !.entries = kept, !.bytes = Bytes(kept)]
  BY <1>0 DEF AddedTo
<1>3. /\ kept \in Seq(Entries) /\ Len(kept) = n + 1 - m
      /\ \A i \in 1..(n + 1 - m) :
           kept[i] = IF m + i = n + 1 THEN e ELSE q[m + i]
  BY <1>1, <1>10
<1>4. Bytes(kept) \in Nat
  BY <1>3, BytesType
<1>5. c = [token |-> b.token, next |-> b.next + 1, entries |-> kept, bytes |-> Bytes(kept)]
  BY <1>2 DEF Backlogs
<1>6. c \in Backlogs
  BY <1>3, <1>4, <1>5 DEF Backlogs
<1>7. /\ c.token = b.token /\ c.next = b.next + 1 /\ c.entries = kept
      /\ c.bytes = Bytes(kept)
  BY <1>5
<1>8. kept[Len(kept)] = e /\ kept # << >>
  <2>2. /\ n + 1 - m \in Nat \ {0} /\ n + 1 - m \in 1..(n + 1 - m)
        /\ m + (n + 1 - m) = n + 1
    BY <1>10, Shifted
  <2> QED BY <1>3, <2>2
<1>9. GrownBy(q, e, kept)
  BY <1>3, <1>10 DEF GrownBy
<1> QED BY <1>6, <1>7, <1>8, <1>9

LEMMA ExtendedIs ==
  ASSUME TypeOK, Stores, NEW s \in Sessions, NEW t \in Tasks,
         NEW size \in Nat, size <= BacklogBytes
  PROVE  LET b == Extended(s, t, size)
             q == Before(s).entries
         IN  /\ b \in Backlogs
             /\ Sound(b, captured + 1, epoch, NextSerial(s))
             /\ b.token = Before(s).token /\ b.next = Before(s).next + 1
             /\ b.entries[Len(b.entries)] = Event(s, t, size)
             /\ GrownBy(q, Event(s, t, size), b.entries)
<1> DEFINE b == Extended(s, t, size)
           q == Before(s).entries
           e == Event(s, t, size)
<1>1. /\ Before(s) \in Backlogs /\ Before(s).token \in Nat \X Nat
      /\ Drawn(Before(s).token, epoch, NextSerial(s)) /\ Run(Before(s), captured)
  BY BeforeIs
<1>2. e \in Entries /\ e.size = size
  BY EventIs DEF Event
<1>3. /\ e.token = Before(s).token /\ e.seq = Before(s).next
      /\ e.stamp = captured + 1 /\ captured \in Nat
  BY DEF Event, TypeOK
<1>4. q \in Seq(Entries) /\ Before(s).next \in Nat
  BY <1>1 DEF Backlogs
<1>5. AddedTo(Before(s), q, e, b)
  BY DEF Extended, Before, Event, AddedTo
<1> HIDE DEF b, e
<1> HIDE DEF q
<1>6. /\ b \in Backlogs /\ b.token = Before(s).token /\ b.next = Before(s).next + 1
      /\ b.bytes = Bytes(b.entries)
      /\ b.entries[Len(b.entries)] = e /\ b.entries # << >>
      /\ GrownBy(q, e, b.entries)
  BY <1>1, <1>2, <1>4, <1>5, Grown
<1>7. Run(b, captured + 1)
  BY <1>1, <1>2, <1>3, <1>6, RunGrows DEF q
<1>9. e.seq = b.next - 1
  BY <1>3, <1>4, <1>6
<1>8. Sound(b, captured + 1, epoch, NextSerial(s))
  BY <1>9, <1>1, <1>3, <1>4, <1>6, <1>7 DEF Sound
<1> QED BY <1>6, <1>8 DEF b, e, q
-----------------------------------------------------------------------------
(* Connections: what the operations make of one.                           *)

Open3 == {"opening", "writing", "waiting"}
Steady(x) ==
  /\ InOrder(x.transient)
  /\ x.pc = "writing" <=> x.batch # << >>
  /\ x.pc \in Open3 => x.bytes = Bytes(x.pending)
  /\ x.pc \notin Open3 => ~ x.live /\ x.pending = << >>
  /\ x.dropped => x.pending = << >> /\ Keys(x.transient) = {}

\* What an operation leaves of a connection that it only offers something.
SameReader(x, y) ==
  y.client = x.client /\ y.live = x.live /\ y.pc = x.pc /\ y.batch = x.batch

LEMMA ConnectionType ==
  ASSUME NEW x \in Connections
  PROVE  /\ x.client \in Clients /\ x.live \in BOOLEAN /\ x.pc \in Phases
         /\ x.pending \in Seq(Entries) /\ x.bytes \in Nat
         /\ x.transient \in Dict(Tasks, Nat) /\ x.dropped \in BOOLEAN
         /\ x.wakeup \in BOOLEAN /\ x.batch \in Seq(Frames)
BY DEF Connections

LEMMA NoTransient ==
  /\ Empty(Tasks, 0) \in Dict(Tasks, Nat) /\ InOrder(Empty(Tasks, 0))
  /\ Keys(Empty(Tasks, 0)) = {}
<1>1. IsFiniteSet(Tasks)
  BY StreamAssumption
<1> QED BY <1>1, EmptyType, EmptyOrder

LEMMA DroppedIs ==
  ASSUME NEW x \in Connections, Steady(x)
  PROVE  /\ Dropped(x) \in Connections /\ Steady(Dropped(x))
         /\ SameReader(x, Dropped(x)) /\ Dropped(x).dropped
         /\ Dropped(x).pending = << >> /\ Dropped(x).transient = Empty(Tasks, 0)
<1> DEFINE y == Dropped(x)
           none == Empty(Tasks, 0)
<1>7. y = [x EXCEPT !.dropped = TRUE, !.pending = << >>, !.bytes = 0,
                    !.transient = none, !.wakeup = TRUE]
  BY DEF Dropped
<1> HIDE DEF y, none
<1>1. y = [client |-> x.client, live |-> x.live, pc |-> x.pc, pending |-> << >>,
           bytes |-> 0, transient |-> none, dropped |-> TRUE, wakeup |-> TRUE,
           batch |-> x.batch]
  BY <1>7 DEF Connections
<1>2. none \in Dict(Tasks, Nat) /\ InOrder(none) /\ Keys(none) = {}
  BY NoTransient DEF none
<1>3. << >> \in Seq(Entries)
  OBVIOUS
<1>4. y \in Connections
  BY <1>1, <1>2, <1>3, ConnectionType DEF Connections
<1>5. Steady(y) /\ SameReader(x, y)
  BY <1>1, <1>2, BytesEmpty DEF Steady, SameReader
<1>6. y.dropped /\ y.pending = << >> /\ y.transient = none
  BY <1>1
<1> QED BY <1>4, <1>5, <1>6 DEF y, none

LEMMA QueuedIs ==
  ASSUME NEW x \in Connections, Steady(x), NEW e \in Entries, ~ x.dropped,
         x.pc \in Open3
  PROVE  /\ Queued(x, e) \in Connections /\ Steady(Queued(x, e))
         /\ SameReader(x, Queued(x, e)) /\ ~ Queued(x, e).dropped
         /\ Queued(x, e).pending = Append(x.pending, e)
         /\ Queued(x, e).transient = Drop(x.transient, {e.task}, 0)
<1> DEFINE y == Queued(x, e)
           left == Drop(x.transient, {e.task}, 0)
           queue == Append(x.pending, e)
<1>8. y = [x EXCEPT !.pending = queue, !.bytes = x.bytes + e.size, !.wakeup = TRUE,
                    !.transient = left]
  BY DEF Queued
<1>2. queue \in Seq(Entries) /\ x.bytes + e.size \in Nat
  <2>1. x.pending \in Seq(Entries) /\ x.bytes \in Nat
    BY ConnectionType
  <2>2. e.size \in Nat
    BY DEF Entries
  <2> QED BY <2>1, <2>2
<1>3. Bytes(queue) = Bytes(x.pending) + e.size
  BY ConnectionType, BytesAppend
<1>4. left \in Dict(Tasks, Nat) /\ InOrder(left)
  <2>1. IsFiniteSet(Tasks) /\ x.transient \in Dict(Tasks, Nat) /\ InOrder(x.transient)
    BY ConnectionType, StreamAssumption DEF Steady
  <2> QED BY <2>1, DropType, DropOrder
<1> HIDE DEF y, left, queue
<1>1. y = [client |-> x.client, live |-> x.live, pc |-> x.pc, pending |-> queue,
           bytes |-> x.bytes + e.size, transient |-> left, dropped |-> x.dropped,
           wakeup |-> TRUE, batch |-> x.batch]
  BY <1>8 DEF Connections
<1>5. y \in Connections
  BY <1>1, <1>2, <1>4, ConnectionType DEF Connections
<1>6. Steady(y) /\ SameReader(x, y)
  BY <1>1, <1>3, <1>4 DEF Steady, SameReader
<1>7. ~ y.dropped /\ y.pending = queue /\ y.transient = left
  BY <1>1
<1> QED BY <1>5, <1>6, <1>7 DEF y, left, queue

LEMMA OfferedIs ==
  ASSUME NEW x \in Connections, Steady(x), NEW e \in Entries, x.pc \in Open3
  PROVE  LET y == Offered(x, e)
         IN  /\ y \in Connections /\ Steady(y) /\ SameReader(x, y)
             /\ \/ x.dropped /\ y = x
                \/ y.dropped /\ y.pending = << >> /\ Keys(y.transient) = {}
                \/ /\ ~ x.dropped /\ ~ y.dropped
                   /\ y.pending = Append(x.pending, e)
                   /\ y.transient = Drop(x.transient, {e.task}, 0)
<1>1. CASE x.dropped
  <2>1. Offered(x, e) = x
    BY <1>1 DEF Offered
  <2> QED BY <1>1, <2>1 DEF SameReader
<1>2. CASE ~ x.dropped
  <2>1. /\ Queued(x, e) \in Connections /\ Steady(Queued(x, e))
        /\ SameReader(x, Queued(x, e)) /\ ~ Queued(x, e).dropped
        /\ Queued(x, e).pending = Append(x.pending, e)
        /\ Queued(x, e).transient = Drop(x.transient, {e.task}, 0)
    BY <1>2, QueuedIs
  <2>2. Offered(x, e) = Queued(x, e) \/ Offered(x, e) = Dropped(Queued(x, e))
    BY <1>2 DEF Offered
  <2>3. CASE Offered(x, e) = Queued(x, e)
    BY <1>2, <2>1, <2>3
  <2>4. CASE Offered(x, e) = Dropped(Queued(x, e))
    <3> DEFINE z == Queued(x, e)
    <3>1. /\ Dropped(z) \in Connections /\ Steady(Dropped(z))
          /\ SameReader(z, Dropped(z)) /\ Dropped(z).dropped
          /\ Dropped(z).pending = << >> /\ Dropped(z).transient = Empty(Tasks, 0)
      BY <2>1, DroppedIs
    <3>2. SameReader(x, Dropped(z))
      BY <2>1, <3>1 DEF SameReader
    <3> QED BY <2>4, <3>1, <3>2, NoTransient
  <2> QED BY <2>2, <2>3, <2>4
<1> QED BY <1>1, <1>2

Reported(x, t, n) ==
  LET y == [x EXCEPT !.transient = Put(@, t, n), !.wakeup = TRUE]
  IN  IF Cardinality(Keys(y.transient)) > BacklogEvents THEN Dropped(y) ELSE y

LEMMA ReportedIs ==
  ASSUME NEW x \in Connections, Steady(x), ~ x.dropped,
         NEW t \in Tasks, NEW n \in Nat
  PROVE  LET y == Reported(x, t, n)
         IN  /\ y \in Connections /\ Steady(y) /\ SameReader(x, y)
             /\ \/ y.dropped /\ y.pending = << >> /\ Keys(y.transient) = {}
                \/ /\ ~ y.dropped /\ y.pending = x.pending
                   /\ y.transient = Put(x.transient, t, n)
<1> DEFINE more == Put(x.transient, t, n)
           z == [x EXCEPT !.transient = more, !.wakeup = TRUE]
<1>1. more \in Dict(Tasks, Nat) /\ InOrder(more)
  <2>1. IsFiniteSet(Tasks) /\ x.transient \in Dict(Tasks, Nat) /\ InOrder(x.transient)
    BY ConnectionType, StreamAssumption DEF Steady
  <2> QED BY <2>1, PutType, PutOrder
<1>2. z = [x EXCEPT !.transient = more, !.wakeup = TRUE]
  OBVIOUS
<1>3. Reported(x, t, n) = z \/ Reported(x, t, n) = Dropped(z)
  BY DEF Reported
<1> HIDE DEF more, z
<1>4. z = [client |-> x.client, live |-> x.live, pc |-> x.pc, pending |-> x.pending,
           bytes |-> x.bytes, transient |-> more, dropped |-> x.dropped,
           wakeup |-> TRUE, batch |-> x.batch]
  BY <1>2 DEF Connections
<1>5. z \in Connections
  BY <1>1, <1>4, ConnectionType DEF Connections
<1>6. Steady(z) /\ SameReader(x, z) /\ ~ z.dropped /\ z.pending = x.pending
      /\ z.transient = more
  BY <1>1, <1>4 DEF Steady, SameReader
<1>7. CASE Reported(x, t, n) = z
  BY <1>5, <1>6, <1>7 DEF more
<1>8. CASE Reported(x, t, n) = Dropped(z)
  <2>1. /\ Dropped(z) \in Connections /\ Steady(Dropped(z))
        /\ SameReader(z, Dropped(z)) /\ Dropped(z).dropped
        /\ Dropped(z).pending = << >> /\ Dropped(z).transient = Empty(Tasks, 0)
    BY <1>5, <1>6, DroppedIs
  <2>2. SameReader(x, Dropped(z))
    BY <1>6, <2>1 DEF SameReader
  <2> QED BY <1>8, <2>1, <2>2, NoTransient
<1> QED BY <1>3, <1>7, <1>8

LEMMA FreshIs ==
  ASSUME NEW cl \in Clients, NEW q \in Seq(Entries), NEW y, y = Fresh(cl, q, Bytes(q))
  PROVE  /\ y \in Connections /\ Steady(y)
         /\ y.client = cl /\ y.live /\ y.pc = "opening" /\ y.pending = q
         /\ ~ y.dropped /\ y.batch = << >> /\ Keys(y.transient) = {}
<1>1. Bytes(q) \in Nat
  BY BytesType
<1>2. y = [client |-> cl, live |-> TRUE, pc |-> "opening", pending |-> q,
           bytes |-> Bytes(q), transient |-> Empty(Tasks, 0), dropped |-> FALSE,
           wakeup |-> FALSE, batch |-> << >>]
  BY DEF Fresh
<1>3. << >> \in Seq(Frames) /\ "opening" \in Phases
  BY DEF Phases
<1>4. y \in Connections
  BY <1>1, <1>2, <1>3, NoTransient DEF Connections
<1>5. Steady(y)
  BY <1>2, NoTransient DEF Steady, Open3
<1> QED BY <1>2, <1>4, <1>5, NoTransient

\* A connection that is not served.
Off(pc, y) == /\ y \in Connections /\ Steady(y) /\ y.pc = pc /\ ~ y.live
              /\ y.pending = << >> /\ y.batch = << >>

LEMMA UnusedIs ==
  Off("unused", Unused) /\ Off("closed", [Unused EXCEPT !.pc = "closed"])
<1> DEFINE cl == CHOOSE cl \in Clients : TRUE
           fresh == Fresh(cl, << >>, 0)
           closed == [Unused EXCEPT !.pc = "closed"]
           as(pc) == [client |-> cl, live |-> FALSE, pc |-> pc, pending |-> << >>,
                      bytes |-> 0, transient |-> Empty(Tasks, 0), dropped |-> FALSE,
                      wakeup |-> FALSE, batch |-> << >>]
<1>1. cl \in Clients
  BY StreamAssumption
<1>2. ASSUME NEW pc \in {"unused", "closed"} PROVE Off(pc, as(pc))
  <2>1. << >> \in Seq(Frames) /\ << >> \in Seq(Entries) /\ pc \in Phases
    BY DEF Phases
  <2> HIDE DEF cl
  <2>2. as(pc) \in Connections
    BY <1>1, <2>1, NoTransient DEF Connections
  <2>3. Steady(as(pc))
    BY NoTransient DEF Steady, Open3
  <2> QED BY <2>2, <2>3 DEF Off
<1> HIDE DEF cl
<1> DEFINE open == [client |-> cl, live |-> TRUE, pc |-> "opening", pending |-> << >>,
                      bytes |-> 0, transient |-> Empty(Tasks, 0), dropped |-> FALSE,
                      wakeup |-> FALSE, batch |-> << >>]
           unused == Unused
<1>3. unused = as("unused")
  <2>1. fresh = open
    BY DEF Fresh
  <2>2. unused = [fresh EXCEPT !.pc = "unused", !.live = FALSE]
    BY DEF Unused, cl
  <2> HIDE DEF fresh, unused
  <2> QED BY <2>1, <2>2
<1>4. closed = as("closed")
  <2>1. closed = [unused EXCEPT !.pc = "closed"]
    OBVIOUS
  <2> HIDE DEF closed, unused
  <2> QED BY <1>3, <2>1
<1> HIDE DEF as
<1> QED BY <1>2, <1>3, <1>4

Shut(x) ==
  [x EXCEPT !.pc = "closed", !.live = FALSE, !.pending = << >>,
            !.transient = Empty(Tasks, 0), !.batch = << >>]

LEMMA ShutIs ==
  ASSUME NEW x \in Connections
  PROVE  Off("closed", Shut(x)) /\ Shut(x).client = x.client
<1> DEFINE y == Shut(x)
<1>1. y = [x EXCEPT !.pc = "closed", !.live = FALSE, !.pending = << >>,
                    !.transient = Empty(Tasks, 0), !.batch = << >>]
  BY DEF Shut
<1> HIDE DEF y
<1>2. y = [client |-> x.client, live |-> FALSE, pc |-> "closed", pending |-> << >>,
           bytes |-> x.bytes, transient |-> Empty(Tasks, 0), dropped |-> x.dropped,
           wakeup |-> x.wakeup, batch |-> << >>]
  BY <1>1 DEF Connections
<1>3. << >> \in Seq(Frames) /\ << >> \in Seq(Entries) /\ "closed" \in Phases
  BY DEF Phases
<1>4. y \in Connections
  BY <1>2, <1>3, NoTransient, ConnectionType DEF Connections
<1>5. Steady(y)
  BY <1>2, NoTransient DEF Steady, Open3
<1> QED BY <1>2, <1>4, <1>5 DEF Off, y

Taken(x, frames) ==
  [Drained(x, frames) EXCEPT !.pc = IF frames = << >> THEN "waiting" ELSE "writing"]

LEMMA TakenIs ==
  ASSUME NEW x \in Connections, NEW q \in Seq(Frames)
  PROVE  LET y == Taken(x, q)
         IN  /\ y \in Connections /\ Steady(y) /\ y.pc \in {"waiting", "writing"}
             /\ y.client = x.client /\ y.live = x.live /\ y.dropped = x.dropped
             /\ y.pending = << >> /\ y.batch = q /\ Keys(y.transient) = {}
<1> DEFINE y == Taken(x, q)
           z == Drained(x, q)
           pc == IF q = << >> THEN "waiting" ELSE "writing"
<1>1. z = [x EXCEPT !.wakeup = FALSE, !.pending = << >>, !.bytes = 0,
                    !.transient = Empty(Tasks, 0), !.batch = q]
  BY DEF Drained
<1>2. y = [z EXCEPT !.pc = pc]
  BY DEF Taken
<1> HIDE DEF y, z
<1>3. z = [client |-> x.client, live |-> x.live, pc |-> x.pc, pending |-> << >>,
           bytes |-> 0, transient |-> Empty(Tasks, 0), dropped |-> x.dropped,
           wakeup |-> FALSE, batch |-> q]
  BY <1>1 DEF Connections
<1>4. y = [client |-> x.client, live |-> x.live, pc |-> pc, pending |-> << >>,
           bytes |-> 0, transient |-> Empty(Tasks, 0), dropped |-> x.dropped,
           wakeup |-> FALSE, batch |-> q]
  BY <1>2, <1>3
<1>5. << >> \in Seq(Entries) /\ pc \in Phases
  BY DEF Phases
<1>6. y \in Connections
  BY <1>4, <1>5, NoTransient, ConnectionType DEF Connections
<1>7. Steady(y)
  BY <1>4, NoTransient, BytesEmpty DEF Steady, Open3
<1>8. /\ y.pc \in {"waiting", "writing"} /\ y.client = x.client /\ y.live = x.live
      /\ y.dropped = x.dropped /\ y.pending = << >> /\ y.batch = q
      /\ Keys(y.transient) = {}
  BY <1>4, NoTransient
<1> QED BY <1>6, <1>7, <1>8 DEF y

\* The frames that report progress: one for each task that waits.
LEMMA ProgressIs ==
  ASSUME NEW c \in Conns, sub[c] \in Connections, Steady(sub[c])
  PROVE  /\ Progress(c) \in Seq(Frames)
         /\ \A i \in 1..Len(Progress(c)) : \E t \in Keys(sub[c].transient) :
              Progress(c)[i] = [task |-> t, stamp |-> sub[c].transient.val[t],
                                durable |-> FALSE]
<1> DEFINE w == sub[c].transient
           n == Cardinality(Keys(w))
           t(i) == CHOOSE u \in Keys(w) : w.pos[u] = i
           p == Progress(c)
           frame(i) == [task |-> t(i), stamp |-> w.val[t(i)], durable |-> FALSE]
<1>1. w \in Dict(Tasks, Nat) /\ InOrder(w)
  BY ConnectionType DEF Steady
<1>2. /\ Keys(w) \in SUBSET Tasks /\ n \in Nat /\ w.val \in [Tasks -> Nat]
  BY <1>1, KeysFinite, StreamAssumption
<1>3. \A i \in 1..n : t(i) \in Keys(w)
  BY <1>1 DEF InOrder
<1>4. p = [i \in 1..n |-> frame(i)]
  BY DEF Progress
<1> HIDE DEF w, n, t, p
<1>5. \A i \in 1..n : frame(i) \in Frames
  BY <1>2, <1>3 DEF Frames
<1>6. p \in Seq(Frames) /\ Len(p) = n
  BY <1>2, <1>4, <1>5
<1>7. \A i \in 1..n : p[i] = frame(i)
  BY <1>4
<1>8. \A i \in 1..Len(p) : \E u \in Keys(w) :
        p[i] = [task |-> u, stamp |-> w.val[u], durable |-> FALSE]
  BY <1>3, <1>6, <1>7
<1> QED BY <1>6, <1>8 DEF p, w

\* r is q without the entries up to the floor.
TailAbove(q, floor, r) ==
  \E m \in 0..Len(q) :
    /\ Len(r) = Len(q) - m
    /\ \A i \in 1..(Len(q) - m) : r[i] = q[m + i]
    /\ \A i \in 1..Len(q) : q[i].seq <= floor <=> i <= m

LEMMA ReplayedIs ==
  ASSUME NEW b \in Backlogs, NEW n, Run(b, n), NEW floor \in Int
  PROVE  /\ Replayed(b, floor) \in Seq(Entries)
         /\ TailAbove(b.entries, floor, Replayed(b, floor))
<1> DEFINE q == b.entries
           len == Len(q)
           skipped == {i \in DOMAIN q : q[i].seq <= floor}
           m == Max(skipped \cup {0})
           r == Replayed(b, floor)
<1>1. q \in Seq(Entries) /\ len \in Nat /\ DOMAIN q = 1..len
  BY DEF Backlogs
<1>2. \A i \in 1..len : q[i].seq \in Nat
  BY <1>1, EntryType
<1>3. \A i, j \in 1..len : i < j => q[i].seq < q[j].seq
  BY DEF Run
<1>4. r = SubSeq(q, m + 1, len)
  BY DEF Replayed
<1>5. len = Len(q)
  OBVIOUS
<1>6. \A i \in skipped : i \in 1..len /\ q[i].seq <= floor
  BY <1>1
<1>7. \A i \in 1..len : q[i].seq <= floor => i \in skipped
  BY <1>1
<1> HIDE DEF q, len, skipped
<1>8. skipped \cup {0} \in SUBSET (0..len)
  BY <1>1, <1>6
<1>9. m \in skipped \cup {0} /\ \A y \in skipped \cup {0} : y <= m
  BY <1>1, <1>8, MaxOf
<1> HIDE DEF m, r
<1>10. m \in 0..len
  BY <1>8, <1>9
<1>11. r \in Seq(Entries) /\ Len(r) = len - m /\ \A i \in 1..(len - m) : r[i] = q[m + i]
  BY <1>1, <1>4, <1>5, <1>10, TailOf
<1>12. ASSUME NEW i \in 1..len PROVE q[i].seq <= floor <=> i <= m
  <2>1. CASE m = 0
    BY <1>7, <1>9, <2>1
  <2>2. CASE m # 0
    <3>1. m \in 1..len /\ q[m].seq <= floor
      BY <1>6, <1>9, <2>2
    <3>2. i < m => q[i].seq < q[m].seq
      BY <1>3, <3>1
    <3>3. q[i].seq \in Nat /\ q[m].seq \in Nat
      BY <1>2, <3>1
    <3>4. i <= m => q[i].seq <= floor
      BY <3>1, <3>2, <3>3
    <3>5. q[i].seq <= floor => i <= m
      BY <1>7, <1>9
    <3> QED BY <3>4, <3>5
  <2> QED BY <2>1, <2>2
<1>13. TailAbove(q, floor, r)
  BY <1>5, <1>10, <1>11, <1>12 DEF TailAbove
<1> QED BY <1>11, <1>13 DEF q, r
-----------------------------------------------------------------------------
(* The first part of the inductive invariant: types, store, connections.   *)

OneReader ==
  \A c, d \in Conns :
    sub[c].live /\ sub[d].live /\ sub[c].client = sub[d].client => c = d
Readers ==
  /\ \A c \in Conns : Steady(sub[c])
  /\ OneReader
  /\ slots = Cardinality(Subscribed)
Shape == TypeOK /\ Stores /\ Readers

LEMMA ConnsFinite ==
  /\ IsFiniteSet(Conns) /\ MaxConns \in Nat
  /\ IsFiniteSet(Subscribed) /\ Cardinality(Subscribed) \in Nat
<1>1. MaxConns \in Nat
  BY StreamAssumption
<1>2. IsFiniteSet(Conns)
  BY <1>1, FS_Interval DEF Conns
<1>3. Subscribed \in SUBSET Conns
  BY DEF Subscribed
<1> QED BY <1>1, <1>2, <1>3, FS_Subset, FS_CardinalityType

\* One connection changes.
LEMMA OneChanges ==
  ASSUME TypeOK, Readers, NEW c \in Conns, NEW y \in Connections, Steady(y),
         sub' = [sub EXCEPT ![c] = y],
         \/ ~ y.live
         \/ sub[c].live /\ y.client = sub[c].client
         \/ \A d \in Conns : sub[d].live => sub[d].client # y.client
  PROVE  /\ sub' \in [Conns -> Connections]
         /\ \A d \in Conns : sub'[d] = IF d = c THEN y ELSE sub[d]
         /\ \A d \in Conns : Steady(sub'[d])
         /\ OneReader'
         /\ y.pc \in Open3 => Subscribed' = Subscribed \cup {c}
         /\ y.pc \notin Open3 => Subscribed' = Subscribed \ {c}
<1>1. sub \in [Conns -> Connections]
  BY DEF TypeOK
<1>2. sub' \in [Conns -> Connections] /\ \A d \in Conns : sub'[d] = IF d = c THEN y ELSE sub[d]
  BY <1>1
<1>3. \A d \in Conns : Steady(sub'[d])
  BY <1>2 DEF Readers
<1>4. OneReader'
  BY <1>2 DEF OneReader, Readers
<1>5. \A d \in Conns : d \in Subscribed' <=> sub'[d].pc \in Open3
  BY DEF Subscribed, Open3
<1>6. \A d \in Conns : d \in Subscribed <=> sub[d].pc \in Open3
  BY DEF Subscribed, Open3
<1>7. Subscribed \in SUBSET Conns /\ Subscribed' \in SUBSET Conns
  BY DEF Subscribed
<1>8. y.pc \in Open3 => Subscribed' = Subscribed \cup {c}
  BY <1>2, <1>5, <1>6, <1>7
<1>9. y.pc \notin Open3 => Subscribed' = Subscribed \ {c}
  BY <1>2, <1>5, <1>6, <1>7
<1> QED BY <1>2, <1>3, <1>4, <1>8, <1>9

\* Connections change, but neither their client nor where they are.
LEMMA AllChange ==
  ASSUME TypeOK, Readers, UNCHANGED slots,
         sub' = [c \in Conns |-> sub'[c]],
         \A c \in Conns : /\ sub'[c] \in Connections /\ Steady(sub'[c])
                          /\ SameReader(sub[c], sub'[c])
  PROVE  sub' \in [Conns -> Connections] /\ Readers' /\ Subscribed' = Subscribed
<1>1. sub' \in [Conns -> Connections]
  OBVIOUS
<1>2. OneReader'
  BY DEF OneReader, Readers, SameReader
<1>3. Subscribed' = Subscribed
  BY DEF Subscribed, SameReader
<1> QED BY <1>1, <1>2, <1>3 DEF Readers

LEMMA ClosedStep ==
  ASSUME TypeOK, Readers, NEW c \in Subscribed, Closed(c)
  PROVE  /\ sub' \in [Conns -> Connections] /\ Readers' /\ slots' \in Nat
         /\ \A d \in Conns : sub'[d] = IF d = c THEN Shut(sub[c]) ELSE sub[d]
<1>1. c \in Conns /\ sub \in [Conns -> Connections]
  BY DEF Subscribed, TypeOK
<1>2. sub' = [sub EXCEPT ![c] = Shut(sub[c])]
  BY <1>1 DEF Closed, Shut
<1>3. sub[c] \in Connections
  BY <1>1
<1>4. /\ Shut(sub[c]) \in Connections /\ Steady(Shut(sub[c]))
      /\ Shut(sub[c]).pc \notin Open3 /\ ~ Shut(sub[c]).live
  BY <1>3, ShutIs DEF Off, Open3
<1>5. /\ sub' \in [Conns -> Connections]
      /\ \A d \in Conns : sub'[d] = IF d = c THEN Shut(sub[c]) ELSE sub[d]
      /\ \A d \in Conns : Steady(sub'[d])
      /\ OneReader' /\ Subscribed' = Subscribed \ {c}
  BY <1>1, <1>2, <1>4, OneChanges
<1>6. Cardinality(Subscribed \ {c}) = Cardinality(Subscribed) - 1
  BY ConnsFinite, FS_RemoveElement
<1>7. slots' = slots - 1
  BY DEF Closed, SlotFreed
<1>8. slots' = Cardinality(Subscribed')
  BY <1>5, <1>6, <1>7 DEF Readers
<1>9. Cardinality(Subscribed \ {c}) \in Nat
  BY ConnsFinite, FS_RemoveElement, FS_CardinalityType
<1> QED BY <1>5, <1>6, <1>7, <1>8, <1>9 DEF Readers

LEMMA StoredIs ==
  ASSUME NEW size \in Sizes
  PROVE  Stored(size) \in Nat /\ Stored(size) <= BacklogBytes
<1> DEFINE S == {MaxEventBytes, BacklogBytes}
<1>1. /\ MaxEventBytes \in Nat \ {0} /\ BacklogBytes \in Nat \ {0}
      /\ size \in Nat \ {0}
  BY StreamAssumption
<1>2. EventCap = Min(S)
  BY DEF EventCap
<1>3. S \in SUBSET Nat /\ S # {}
  BY <1>1
<1>4. Min(S) \in S /\ \A y \in S : Min(S) <= y
  BY <1>3, MinOf
<1>5. EventCap \in Nat /\ EventCap <= BacklogBytes
  BY <1>1, <1>2, <1>4
<1> QED BY <1>1, <1>5 DEF Stored

\* The store after a capture for a task of session s.
LEMMA CaptureStore ==
  ASSUME Shape, NEW t \in Tasks, NEW size \in Sizes, Capture(t, size)
  PROVE  LET s == SessionOf[t]
             b == Extended(s, t, Stored(size))
         IN  /\ s \in Sessions /\ Stored(size) \in Nat /\ Stored(size) <= BacklogBytes
             /\ backlogs' \in Dict(Sessions, Backlogs)
             /\ Stores' /\ s \in Keys(backlogs')
             /\ backlogs'.val[s] = b
             /\ \A r \in Sessions \ {s} :
                  backlogs'.val[r] = backlogs.val[r] \/ backlogs'.val[r] = NoBacklog
             /\ Cardinality(Keys(backlogs')) <= MaxSessions
             /\ captured' = captured + 1 /\ captured' \in Nat
             /\ serial' = NextSerial(s) /\ serial' \in Nat /\ epoch' = epoch
<1> DEFINE s == SessionOf[t]
           b == Extended(s, t, Stored(size))
           placed == Put(Pruned, s, b)
           after == Trim(placed, MaxSessions, NoBacklog)
           gone == {k \in Keys(placed) : placed.pos[k] <= Cardinality(Keys(placed)) - MaxSessions}
<1>1. s \in Sessions /\ IsFiniteSet(Sessions) /\ MaxSessions \in Nat \ {0}
  BY StreamAssumption
<1>2. Stored(size) \in Nat /\ Stored(size) <= BacklogBytes
  BY StoredIs
<1>3. TypeOK /\ Stores
  BY DEF Shape
<1>4. /\ captured' = captured + 1 /\ captured' \in Nat /\ captured \in Nat
      /\ serial' = NextSerial(s) /\ backlogs' = after /\ epoch' = epoch
      /\ serial \in Nat
  BY <1>3 DEF Capture, NextSerial, TypeOK
<1>5. b \in Backlogs /\ Sound(b, captured + 1, epoch, NextSerial(s))
  BY <1>1, <1>2, <1>3, ExtendedIs
<1>6. serial <= NextSerial(s) /\ NextSerial(s) \in Nat
  BY <1>1, <1>3, BeforeIs
<1>7. /\ Pruned \in Dict(Sessions, Backlogs)
      /\ SoundStore(Pruned, captured, epoch, serial)
      /\ \A r \in Sessions : Pruned.val[r] = IF r \in Keys(Pruned)
                                             THEN backlogs.val[r] ELSE NoBacklog
  BY <1>3, PrunedStore
<1> HIDE DEF s, b
<1>8. /\ placed \in Dict(Sessions, Backlogs)
      /\ placed.val = [Pruned.val EXCEPT ![s] = b]
  BY <1>1, <1>5, <1>7, PutType
<1>9. /\ InOrder(placed) /\ Keys(placed) = Keys(Pruned) \cup {s}
      /\ \A j \in Keys(placed) : placed.pos[j] <= placed.pos[s]
  BY <1>1, <1>5, <1>7, PutOrder DEF SoundStore
<1>10. after = Drop(placed, gone, NoBacklog)
  BY DEF Trim
<1> HIDE DEF placed, after, gone
<1>11. \A r \in Sessions : placed.val[r] = IF r = s THEN b ELSE Pruned.val[r]
  BY <1>1, <1>7, <1>8 DEF Dict
<1>12. ASSUME NEW r \in Sessions
       PROVE  IF r \in Keys(placed) THEN Sound(placed.val[r], captured + 1, epoch, NextSerial(s))
              ELSE placed.val[r] = NoBacklog
  <2>1. CASE r = s
    BY <1>5, <1>9, <1>11, <2>1
  <2>2. CASE r # s /\ r \in Keys(Pruned)
    <3>1. Sound(Pruned.val[r], captured, epoch, serial) /\ Pruned.val[r] \in Backlogs
      BY <1>7, <2>2 DEF SoundStore, Dict
    <3>2. Sound(Pruned.val[r], captured + 1, epoch, NextSerial(s))
      BY <1>4, <1>6, <3>1, SoundLater
    <3> QED BY <1>9, <1>11, <2>2, <3>2
  <2>3. CASE r # s /\ r \notin Keys(Pruned)
    BY <1>7, <1>9, <1>11, <2>3
  <2> QED BY <2>1, <2>2, <2>3
<1>13. SoundStore(placed, captured + 1, epoch, NextSerial(s))
  BY <1>9, <1>12 DEF SoundStore
<1>14. /\ after \in Dict(Sessions, Backlogs)
       /\ SoundStore(after, captured + 1, epoch, NextSerial(s))
       /\ \A r \in Sessions : after.val[r] = IF r \in Keys(after) THEN placed.val[r]
                                             ELSE NoBacklog
  BY <1>8, <1>10, <1>13, SoundDrop
<1>15. placed.pos[s] = Cardinality(Keys(placed))
  BY <1>1, <1>8, <1>9, NewestPlace
<1>16. /\ Cardinality(Keys(after)) <= MaxSessions
       /\ \A k \in Keys(placed) : placed.pos[k] > Cardinality(Keys(placed)) - MaxSessions
                                    => k \in Keys(after)
  BY <1>1, <1>8, <1>9, TrimOrder DEF after
<1>17. Cardinality(Keys(placed)) \in Nat
  BY <1>1, <1>8, KeysFinite
<1>18. s \in Keys(after)
  <2> DEFINE n == Cardinality(Keys(placed))
  <2>1. n \in Nat /\ n > n - MaxSessions
    BY <1>1, <1>17
  <2>2. s \in Keys(placed) /\ placed.pos[s] > n - MaxSessions
    BY <1>9, <1>15, <2>1
  <2> QED BY <1>16, <2>2
<1>19. after.val[s] = b
  BY <1>1, <1>11, <1>14, <1>18
<1>20. \A r \in Sessions \ {s} : after.val[r] = backlogs.val[r] \/ after.val[r] = NoBacklog
  BY <1>7, <1>11, <1>14
<1>21. Stores'
  BY <1>4, <1>14 DEF Stores
<1> QED BY <1>1, <1>2, <1>4, <1>6, <1>14, <1>16, <1>18, <1>19, <1>20, <1>21 DEF s, b

LEMMA ExtendedLast ==
  ASSUME Shape, NEW s \in Sessions, NEW t \in Tasks, NEW size \in Nat,
         size <= BacklogBytes
  PROVE  LET b == Extended(s, t, size)
         IN  /\ Last(b.entries) = Event(s, t, size) /\ b.entries # << >>
             /\ Event(s, t, size) \in Entries
             /\ Event(s, t, size).stamp = captured + 1
             /\ Event(s, t, size).task = t
<1>1. /\ Extended(s, t, size).entries[Len(Extended(s, t, size).entries)] = Event(s, t, size)
      /\ Sound(Extended(s, t, size), captured + 1, epoch, NextSerial(s))
  BY ExtendedIs DEF Shape
<1>2. Event(s, t, size) \in Entries
  BY EventIs DEF Shape
<1>3. Event(s, t, size).stamp = captured + 1 /\ Event(s, t, size).task = t
  BY DEF Event
<1> QED BY <1>1, <1>2, <1>3 DEF Last, Sound

\* What a capture makes of each connection.
LEMMA CaptureReaders ==
  ASSUME Shape, NEW t \in Tasks, NEW size \in Sizes, Capture(t, size)
  PROVE  LET s == SessionOf[t]
             e == Event(s, t, Stored(size))
         IN  /\ e \in Entries /\ e.stamp = captured + 1 /\ e.task = t
             /\ \A c \in Conns :
                  sub'[c] = IF c \in Subscribed /\ Session(c) = s
                            THEN Offered(sub[c], e) ELSE sub[c]
             /\ sub' \in [Conns -> Connections] /\ Readers' /\ Subscribed' = Subscribed
             /\ got' = got
<1> DEFINE s == SessionOf[t]
           e == Event(s, t, Stored(size))
           b == Extended(s, t, Stored(size))
<1>1. s \in Sessions /\ Stored(size) \in Nat /\ Stored(size) <= BacklogBytes
  BY CaptureStore
<1>2. Last(b.entries) = e /\ e \in Entries /\ e.stamp = captured + 1 /\ e.task = t
  BY <1>1, ExtendedLast
<1>3. /\ sub' = [c \in Conns |-> IF c \in Subscribed /\ Session(c) = s
                                 THEN Offered(sub[c], Last(b.entries)) ELSE sub[c]]
      /\ UNCHANGED slots /\ got' = got
  BY DEF Capture
<1> HIDE DEF s, e, b
<1>4. \A c \in Conns : sub'[c] = IF c \in Subscribed /\ Session(c) = s
                                 THEN Offered(sub[c], e) ELSE sub[c]
  BY <1>2, <1>3
<1>5. ASSUME NEW c \in Conns
      PROVE  sub'[c] \in Connections /\ Steady(sub'[c]) /\ SameReader(sub[c], sub'[c])
  <2>1. sub[c] \in Connections /\ Steady(sub[c])
    BY DEF Shape, TypeOK, Readers
  <2>2. CASE c \in Subscribed /\ Session(c) = s
    <3>1. sub'[c] = Offered(sub[c], e) /\ sub[c].pc \in Open3
      BY <1>4, <2>2 DEF Subscribed, Open3
    <3> QED BY <1>2, <2>1, <3>1, OfferedIs
  <2>3. CASE ~ (c \in Subscribed /\ Session(c) = s)
    BY <1>4, <2>1, <2>3 DEF SameReader
  <2> QED BY <2>2, <2>3
<1>6. sub' = [c \in Conns |-> sub'[c]]
  BY <1>3
<1>7. sub' \in [Conns -> Connections] /\ Readers' /\ Subscribed' = Subscribed
  BY <1>3, <1>5, <1>6, AllChange DEF Shape
<1> QED BY <1>2, <1>3, <1>4, <1>7 DEF s, e

LEMMA CaptureShape ==
  ASSUME Shape, NEW t \in Tasks, NEW size \in Sizes, Capture(t, size)
  PROVE  Shape'
<1>1. /\ backlogs' \in Dict(Sessions, Backlogs) /\ Stores'
      /\ captured' \in Nat /\ serial' \in Nat /\ epoch' = epoch
  BY CaptureStore
<1>2. sub' \in [Conns -> Connections] /\ Readers' /\ got' = got
  BY CaptureReaders
<1>3. old' = {} /\ UNCHANGED <<slots, published>>
  BY DEF Capture
<1>4. TypeOK'
  BY <1>1, <1>2, <1>3 DEF Shape, TypeOK
<1> QED BY <1>1, <1>2, <1>4 DEF Shape

\* What a report makes of each connection.
LEMMA PublishReaders ==
  ASSUME Shape, NEW t \in Tasks, Publish(t)
  PROVE  /\ \A c \in Conns :
              sub'[c] = IF c \notin Subscribed \/ Session(c) # SessionOf[t] \/ sub[c].dropped
                        THEN sub[c] ELSE Reported(sub[c], t, captured)
         /\ sub' \in [Conns -> Connections] /\ Readers' /\ Subscribed' = Subscribed
         /\ UNCHANGED <<storeVars, slots, got>> /\ published' = published + 1
         /\ captured \in Nat
<1>1. /\ sub' = [c \in Conns |->
                   IF c \notin Subscribed \/ Session(c) # SessionOf[t] \/ sub[c].dropped
                   THEN sub[c] ELSE Reported(sub[c], t, captured)]
      /\ UNCHANGED <<storeVars, slots, got>> /\ published' = published + 1
  BY DEF Publish, Reported
<1>2. \A c \in Conns :
        sub'[c] = IF c \notin Subscribed \/ Session(c) # SessionOf[t] \/ sub[c].dropped
                  THEN sub[c] ELSE Reported(sub[c], t, captured)
  BY <1>1
<1>3. ASSUME NEW c \in Conns
      PROVE  sub'[c] \in Connections /\ Steady(sub'[c]) /\ SameReader(sub[c], sub'[c])
  <2>1. sub[c] \in Connections /\ Steady(sub[c]) /\ captured \in Nat
    BY DEF Shape, TypeOK, Readers
  <2>2. CASE sub'[c] = sub[c]
    BY <2>1, <2>2 DEF SameReader
  <2>3. CASE ~ sub[c].dropped /\ sub'[c] = Reported(sub[c], t, captured)
    BY <2>1, <2>3, ReportedIs
  <2> QED BY <1>2, <2>2, <2>3
<1>4. sub' = [c \in Conns |-> sub'[c]] /\ UNCHANGED slots
  BY <1>1
<1>5. sub' \in [Conns -> Connections] /\ Readers' /\ Subscribed' = Subscribed
  BY <1>3, <1>4, AllChange DEF Shape
<1> QED BY <1>1, <1>2, <1>5 DEF Shape, TypeOK

LEMMA PublishShape ==
  ASSUME Shape, NEW t \in Tasks, Publish(t)
  PROVE  Shape'
<1>1. /\ sub' \in [Conns -> Connections] /\ Readers'
      /\ UNCHANGED <<storeVars, slots, got>> /\ published' = published + 1
  BY PublishReaders
<1>2. TypeOK' /\ Stores'
  BY <1>1 DEF Shape, TypeOK, Stores, storeVars
<1> QED BY <1>1, <1>2 DEF Shape

LEMMA FrameType ==
  ASSUME NEW q \in Seq(Frames), NEW i \in 1..Len(q)
  PROVE  /\ q[i] \in Frames /\ q[i].task \in Tasks /\ q[i].stamp \in Nat
         /\ q[i].durable \in BOOLEAN
         /\ q[i].durable => q[i] \in Entries
<1>1. q[i] \in Frames
  OBVIOUS
<1>2. CASE q[i] \in Entries
  BY <1>1, <1>2 DEF Entries
<1>3. CASE q[i] \in [task : Tasks, stamp : Nat, durable : {FALSE}]
  BY <1>1, <1>3
<1> QED BY <1>1, <1>2, <1>3 DEF Frames

\* The last event is the last durable frame, if there is one.
LEMMA LastEventIs ==
  ASSUME NEW cl \in Clients, got[cl] \in Seq(Frames)
  PROVE  \/ /\ LastEvent(cl) = NoEvent
            /\ \A i \in 1..Len(got[cl]) : ~ got[cl][i].durable
         \/ \E i \in 1..Len(got[cl]) :
              /\ LastEvent(cl) = got[cl][i] /\ got[cl][i].durable
              /\ \A j \in 1..Len(got[cl]) : got[cl][j].durable => j <= i
<1> DEFINE q == got[cl]
           events == {i \in DOMAIN q : q[i].durable}
<1>1. q \in Seq(Frames) /\ Len(q) \in Nat /\ DOMAIN q = 1..Len(q)
  OBVIOUS
<1>2. LastEvent(cl) = IF events = {} THEN NoEvent ELSE q[Max(events)]
  BY DEF LastEvent
<1>3. \A i \in 1..Len(q) : q[i].durable <=> i \in events
  BY <1>1
<1>4. \A i \in events : i \in 1..Len(q) /\ q[i].durable
  BY <1>1
<1> HIDE DEF q, events
<1>5. CASE events = {}
  BY <1>2, <1>3, <1>5 DEF q
<1>6. CASE events # {}
  <2>1. events \in SUBSET (0..Len(q))
    BY <1>1, <1>4
  <2>2. Max(events) \in events /\ \A y \in events : y <= Max(events)
    BY <1>1, <1>6, <2>1, MaxOf
  <2>3. /\ LastEvent(cl) = q[Max(events)] /\ Max(events) \in 1..Len(q)
        /\ q[Max(events)].durable
    BY <1>2, <1>4, <1>6, <2>2
  <2>4. \A j \in 1..Len(q) : q[j].durable => j <= Max(events)
    BY <1>3, <2>2
  <2> QED BY <2>3, <2>4 DEF q
<1> QED BY <1>5, <1>6

Seen(cl) == IF cl \in Resuming THEN LastEvent(cl) ELSE NoEvent

LEMMA SeenType ==
  ASSUME NEW cl \in Clients, got[cl] \in Seq(Frames)
  PROVE  Seen(cl).seq \in Nat
<1>1. NoEvent.seq \in Nat
  BY DEF NoEvent
<1>2. LastEvent(cl).seq \in Nat
  <2>1. CASE LastEvent(cl) = NoEvent
    BY <1>1, <2>1
  <2>2. CASE \E i \in 1..Len(got[cl]) : LastEvent(cl) = got[cl][i] /\ got[cl][i].durable
    BY <2>2, FrameType DEF Entries
  <2> QED BY <2>1, <2>2, LastEventIs
<1> QED BY <1>1, <1>2 DEF Seen

\* What a client is sent when it subscribes.
Replay(cl) ==
  LET b == Pruned.val[SessionOf[cl]]
  IN  Replayed(b, Floor(b, Seen(cl)))

LEMMA ReplayIs ==
  ASSUME Shape, NEW cl \in Clients
  PROVE  LET b == Pruned.val[SessionOf[cl]]
             floor == Floor(b, Seen(cl))
         IN  /\ SessionOf[cl] \in Sessions
             /\ b \in Backlogs /\ Run(b, captured) /\ floor \in Int
             /\ Replay(cl) \in Seq(Entries)
             /\ TailAbove(b.entries, floor, Replay(cl))
<1> DEFINE s == SessionOf[cl]
           b == Pruned.val[s]
           floor == Floor(b, Seen(cl))
<1>1. s \in Sessions
  BY StreamAssumption
<1>2. /\ Pruned \in Dict(Sessions, Backlogs)
      /\ SoundStore(Pruned, captured, epoch, serial)
  BY PrunedStore DEF Shape
<1>3. b \in Backlogs
  BY <1>1, <1>2 DEF Dict
<1>4. Run(b, captured)
  <2>1. CASE s \in Keys(Pruned)
    <3>1. Sound(b, captured, epoch, serial)
      BY <1>1, <1>2, <2>1 DEF SoundStore
    <3> QED BY <3>1 DEF Sound
  <2>2. CASE s \notin Keys(Pruned)
    <3>1. b = NoBacklog
      BY <1>1, <1>2, <2>2 DEF SoundStore
    <3>2. Run(NoBacklog, captured)
      BY DEF Run, NoBacklog
    <3> QED BY <3>1, <3>2
  <2> QED BY <2>1, <2>2
<1>5. got[cl] \in Seq(Frames)
  BY DEF Shape, TypeOK
<1>6. floor \in Int
  BY <1>5, SeenType DEF Floor
<1>7. Replay(cl) = Replayed(b, floor)
  BY DEF Replay
<1> HIDE DEF b, floor
<1>8. Replayed(b, floor) \in Seq(Entries) /\ TailAbove(b.entries, floor, Replayed(b, floor))
  BY <1>3, <1>4, <1>6, ReplayedIs
<1> QED BY <1>1, <1>3, <1>4, <1>6, <1>7, <1>8 DEF b, floor

\* A client subscribes, or is refused.
Joins(cl, c, y) ==
  /\ c \in Conns /\ sub[c].pc = "unused"
  /\ y \in Connections /\ Steady(y)
  /\ y.client = cl /\ y.live /\ y.pc = "opening" /\ y.pending = Replay(cl)
  /\ ~ y.dropped /\ y.batch = << >> /\ Keys(y.transient) = {}
  /\ \A d \in Conns : sub'[d] = IF d = c THEN y ELSE sub[d]

LEMMA SubscribeIs ==
  ASSUME Shape, NEW cl \in Clients, Subscribe(cl)
  PROVE  /\ backlogs' = Pruned /\ UNCHANGED <<serial, epoch, captured, published, got>>
         /\ Shape'
         /\ \A c \in Conns : sub[c].live => sub[c].client # cl
         /\ UNCHANGED sub \/ \E c, y : Joins(cl, c, y)
<1>1. /\ backlogs' = Pruned /\ old' = {}
      /\ UNCHANGED <<serial, epoch, captured, published, got>>
  BY DEF Subscribe
<1>2. \A c \in Conns : sub[c].live => sub[c].client # cl
  <2>1. \A c \in Conns : c \notin Subscribed => ~ sub[c].live
    BY DEF Shape, Readers, Steady, Subscribed, Open3
  <2> QED BY <2>1 DEF Subscribe
<1>3. backlogs' \in Dict(Sessions, Backlogs) /\ Stores'
  BY <1>1, PrunedStore DEF Shape, Stores
<1>4. CASE UNCHANGED <<sub, slots>>
  <2>1. TypeOK' /\ Readers'
    BY <1>1, <1>3, <1>4 DEF Shape, TypeOK, Readers, OneReader, Subscribed
  <2> QED BY <1>1, <1>2, <1>3, <1>4, <2>1 DEF Shape
<1>5. CASE ~ UNCHANGED <<sub, slots>>
  <2>1. PICK c \in Conns :
          /\ sub[c].pc = "unused" /\ slots' = slots + 1
          /\ sub' = [sub EXCEPT ![c] = Fresh(cl, Replay(cl), Bytes(Replay(cl)))]
    BY <1>5 DEF Subscribe, Replay, Seen
  <2>2. PICK y : y = Fresh(cl, Replay(cl), Bytes(Replay(cl)))
    OBVIOUS
  <2>3. /\ y \in Connections /\ Steady(y)
        /\ y.client = cl /\ y.live /\ y.pc = "opening" /\ y.pending = Replay(cl)
        /\ ~ y.dropped /\ y.batch = << >> /\ Keys(y.transient) = {}
    <3>1. Replay(cl) \in Seq(Entries)
      BY ReplayIs
    <3> QED BY <2>2, <3>1, FreshIs
  <2>4. sub' = [sub EXCEPT ![c] = y]
    BY <2>1, <2>2
  <2>5. /\ sub' \in [Conns -> Connections]
        /\ \A d \in Conns : sub'[d] = IF d = c THEN y ELSE sub[d]
        /\ \A d \in Conns : Steady(sub'[d])
        /\ OneReader' /\ (y.pc \in Open3 => Subscribed' = Subscribed \cup {c})
    BY <1>2, <2>3, <2>4, OneChanges DEF Shape
  <2>6. c \notin Subscribed /\ y.pc \in Open3
    BY <2>1, <2>3 DEF Subscribed, Open3
  <2>7. Cardinality(Subscribed') = Cardinality(Subscribed) + 1
    BY <2>5, <2>6, ConnsFinite, FS_AddElement
  <2>8. Readers' /\ slots' \in Nat
    BY <2>1, <2>5, <2>7 DEF Shape, Readers, TypeOK
  <2>9. TypeOK'
    BY <1>1, <1>3, <2>5, <2>8 DEF Shape, TypeOK
  <2>10. Joins(cl, c, y)
    BY <2>1, <2>3, <2>5 DEF Joins
  <2> QED BY <1>1, <1>2, <1>3, <2>8, <2>9, <2>10 DEF Shape
<1> QED BY <1>4, <1>5

StoreSame == UNCHANGED <<storeVars, published>>

LEMMA StoreSameShape ==
  ASSUME Shape, StoreSame, sub' \in [Conns -> Connections], Readers', slots' \in Nat,
         got' \in [Clients -> Seq(Frames)]
  PROVE  Shape'
<1>1. TypeOK' /\ Stores'
  BY DEF Shape, TypeOK, Stores, StoreSame, storeVars
<1> QED BY <1>1 DEF Shape

LEMMA EntriesAreFrames == Seq(Entries) \subseteq Seq(Frames)
<1> SUFFICES ASSUME NEW q \in Seq(Entries) PROVE q \in Seq(Frames)
  OBVIOUS
<1>1. Entries \subseteq Frames
  BY DEF Frames
<1>2. \A i \in 1..Len(q) : q[i] \in Frames
  BY <1>1
<1> QED BY <1>2

LEMMA ConcatIs ==
  ASSUME NEW S, NEW q \in Seq(S), NEW r \in Seq(S)
  PROVE  /\ q \o r \in Seq(S) /\ Len(q \o r) = Len(q) + Len(r)
         /\ \A i \in 1..Len(q) : (q \o r)[i] = q[i]
         /\ \A i \in 1..Len(r) : (q \o r)[Len(q) + i] = r[i]
         /\ \A i \in (Len(q) + 1)..(Len(q) + Len(r)) : (q \o r)[i] = r[i - Len(q)]
OBVIOUS

Frames1(c) == sub[c].pending \o Progress(c)

LEMMA TurnIs ==
  ASSUME Shape, NEW c \in Conns, sub[c].pc \in {"opening", "waiting"}, Turn(c),
         StoreSame, got' = got
  PROVE  /\ Shape' /\ Frames1(c) \in Seq(Frames) /\ sub[c].batch = << >>
         /\ \/ \A d \in Conns : sub'[d] = IF d = c THEN Shut(sub[c]) ELSE sub[d]
            \/ \A d \in Conns : sub'[d] = IF d = c THEN Taken(sub[c], Frames1(c)) ELSE sub[d]
<1>1. sub[c] \in Connections /\ Steady(sub[c]) /\ TypeOK /\ Readers
  BY DEF Shape, TypeOK, Readers
<1>2. Frames1(c) \in Seq(Frames)
  <2>1. sub[c].pending \in Seq(Frames)
    BY <1>1, ConnectionType, EntriesAreFrames
  <2>2. Progress(c) \in Seq(Frames)
    BY <1>1, ProgressIs
  <2> QED BY <2>1, <2>2, ConcatIs DEF Frames1
<1>3. sub[c].batch = << >> /\ c \in Subscribed
  BY <1>1 DEF Steady, Subscribed
<1>4. got' \in [Clients -> Seq(Frames)] /\ slots \in Nat
  BY <1>1 DEF TypeOK
<1>5. CASE Closed(c)
  <2>1. /\ sub' \in [Conns -> Connections] /\ Readers' /\ slots' \in Nat
        /\ \A d \in Conns : sub'[d] = IF d = c THEN Shut(sub[c]) ELSE sub[d]
    BY <1>1, <1>3, <1>5, ClosedStep
  <2> QED BY <1>2, <1>3, <1>4, <2>1, StoreSameShape
<1>6. CASE ~ Closed(c)
  <2>1. PICK y : y = Taken(sub[c], Frames1(c))
    OBVIOUS
  <2>2. sub' = [sub EXCEPT ![c] = y] /\ UNCHANGED slots
    BY <1>6, <2>1 DEF Turn, Taken, Frames1
  <2>3. /\ y \in Connections /\ Steady(y) /\ y.pc \in Open3
        /\ y.client = sub[c].client /\ y.live = sub[c].live
    BY <1>1, <1>2, <2>1, TakenIs DEF Open3
  <2>4. /\ sub' \in [Conns -> Connections]
        /\ \A d \in Conns : sub'[d] = IF d = c THEN y ELSE sub[d]
        /\ \A d \in Conns : Steady(sub'[d])
        /\ OneReader' /\ Subscribed' = Subscribed \cup {c}
    BY <1>1, <2>2, <2>3, OneChanges DEF Connections
  <2>5. Readers' /\ slots' \in Nat
    BY <1>1, <1>3, <1>4, <2>2, <2>4 DEF Readers
  <2> QED BY <1>2, <1>3, <1>4, <2>1, <2>4, <2>5, StoreSameShape
<1> QED BY <1>5, <1>6

\* A frame reaches the client, if it still reads.
LEMMA ReachesIs ==
  ASSUME Shape, NEW c \in Conns, sub[c].pc = "writing", Reaches(c) \/ UNCHANGED got
  PROVE  /\ sub[c].batch # << >> /\ sub[c].batch \in Seq(Frames)
         /\ Head(sub[c].batch) \in Frames /\ Tail(sub[c].batch) \in Seq(Frames)
         /\ got' \in [Clients -> Seq(Frames)]
         /\ \A cl \in Clients :
              \/ got'[cl] = got[cl]
              \/ /\ sub[c].live /\ cl = sub[c].client
                 /\ got'[cl] = Append(got[cl], Head(sub[c].batch))
         /\ Reaches(c) /\ sub[c].live =>
              got'[sub[c].client] = Append(got[sub[c].client], Head(sub[c].batch))
<1>1. /\ sub[c] \in Connections /\ Steady(sub[c])
      /\ got \in [Clients -> Seq(Frames)]
  BY DEF Shape, TypeOK, Readers
<1>2. sub[c].batch # << >> /\ sub[c].batch \in Seq(Frames) /\ sub[c].client \in Clients
  BY <1>1, ConnectionType DEF Steady
<1>3. Head(sub[c].batch) \in Frames /\ Tail(sub[c].batch) \in Seq(Frames)
  BY <1>2
<1>4. \/ got' = got
      \/ /\ sub[c].live
         /\ got' = [got EXCEPT ![sub[c].client] = Append(@, Head(sub[c].batch))]
  BY DEF Reaches
<1>5. got[sub[c].client] \in Seq(Frames)
  BY <1>1, <1>2
<1>6. Append(got[sub[c].client], Head(sub[c].batch)) \in Seq(Frames)
  BY <1>3, <1>5
<1>7. got' \in [Clients -> Seq(Frames)]
  BY <1>1, <1>2, <1>4, <1>6
<1>8. Reaches(c) /\ sub[c].live =>
        got'[sub[c].client] = Append(got[sub[c].client], Head(sub[c].batch))
  BY <1>1, <1>2 DEF Reaches
<1> QED BY <1>1, <1>2, <1>3, <1>4, <1>7, <1>8

Wrote(x) ==
  [x EXCEPT !.batch = Tail(x.batch),
            !.pc = IF Tail(x.batch) = << >> THEN "waiting" ELSE "writing"]

LEMMA WroteIs ==
  ASSUME NEW x \in Connections, Steady(x), x.pc = "writing"
  PROVE  LET y == Wrote(x)
         IN  /\ y \in Connections /\ Steady(y) /\ y.pc \in Open3
             /\ y.client = x.client /\ y.live = x.live /\ y.dropped = x.dropped
             /\ y.pending = x.pending /\ y.batch = Tail(x.batch)
             /\ y.transient = x.transient
<1> DEFINE y == Wrote(x)
           rest == Tail(x.batch)
           pc == IF rest = << >> THEN "waiting" ELSE "writing"
<1>1. y = [x EXCEPT !.batch = rest, !.pc = pc]
  BY DEF Wrote
<1>2. rest \in Seq(Frames)
  BY ConnectionType DEF Steady
<1>3. pc \in Phases /\ pc \in Open3 /\ (pc = "writing" <=> rest # << >>)
  BY DEF Phases, Open3
<1> HIDE DEF y, rest, pc
<1>4. y = [client |-> x.client, live |-> x.live, pc |-> pc, pending |-> x.pending,
           bytes |-> x.bytes, transient |-> x.transient, dropped |-> x.dropped,
           wakeup |-> x.wakeup, batch |-> rest]
  BY <1>1 DEF Connections
<1>5. y \in Connections
  BY <1>2, <1>3, <1>4, ConnectionType DEF Connections
<1>6. Steady(y)
  BY <1>3, <1>4 DEF Steady, Open3
<1> QED BY <1>3, <1>4, <1>5, <1>6 DEF y, rest

LEMMA WriteIs ==
  ASSUME Shape, NEW c \in Conns, Write(c)
  PROVE  /\ Shape' /\ StoreSame /\ Reaches(c) /\ sub[c].pc = "writing"
         /\ \/ \A d \in Conns : sub'[d] = IF d = c THEN Shut(sub[c]) ELSE sub[d]
            \/ \A d \in Conns : sub'[d] = IF d = c THEN Wrote(sub[c]) ELSE sub[d]
<1>1. sub[c] \in Connections /\ Steady(sub[c]) /\ TypeOK /\ Readers
  BY DEF Shape, TypeOK, Readers
<1>2. sub[c].pc = "writing" /\ Reaches(c) /\ StoreSame
  BY DEF Write, StoreSame
<1>3. c \in Subscribed /\ slots \in Nat
  BY <1>1, <1>2 DEF Subscribed, TypeOK
<1>4. got' \in [Clients -> Seq(Frames)]
  BY <1>2, ReachesIs
<1>5. CASE Closed(c)
  <2>1. /\ sub' \in [Conns -> Connections] /\ Readers' /\ slots' \in Nat
        /\ \A d \in Conns : sub'[d] = IF d = c THEN Shut(sub[c]) ELSE sub[d]
    BY <1>1, <1>3, <1>5, ClosedStep
  <2> QED BY <1>2, <1>4, <2>1, StoreSameShape
<1>6. CASE ~ Closed(c)
  <2>1. PICK y : y = Wrote(sub[c])
    OBVIOUS
  <2>2. sub' = [sub EXCEPT ![c] = y] /\ UNCHANGED slots
    BY <1>1, <1>6, <2>1 DEF Write, Wrote, TypeOK
  <2>3. /\ y \in Connections /\ Steady(y) /\ y.pc \in Open3
        /\ y.client = sub[c].client /\ y.live = sub[c].live
    BY <1>1, <1>2, <2>1, WroteIs
  <2>4. /\ sub' \in [Conns -> Connections]
        /\ \A d \in Conns : sub'[d] = IF d = c THEN y ELSE sub[d]
        /\ \A d \in Conns : Steady(sub'[d])
        /\ OneReader' /\ Subscribed' = Subscribed \cup {c}
    BY <1>1, <2>2, <2>3, OneChanges DEF Connections
  <2>5. Readers' /\ slots' \in Nat
    BY <1>1, <1>3, <2>2, <2>4 DEF Readers
  <2> QED BY <1>2, <1>4, <2>1, <2>4, <2>5, StoreSameShape
<1> QED BY <1>5, <1>6

LEMMA LeaveIs ==
  ASSUME Shape, NEW c \in Conns, Leave(c)
  PROVE  /\ Shape' /\ StoreSame /\ got' = got
         /\ \A d \in Conns : sub'[d] = IF d = c THEN [sub[c] EXCEPT !.live = FALSE]
                                       ELSE sub[d]
         /\ ~ sub'[c].live
<1>1. sub[c] \in Connections /\ Steady(sub[c]) /\ TypeOK /\ Readers
  BY DEF Shape, TypeOK, Readers
<1>2. c \in Subscribed /\ StoreSame /\ got' = got /\ UNCHANGED slots
  BY DEF Leave, StoreSame
<1>3. PICK y : y = [sub[c] EXCEPT !.live = FALSE]
  OBVIOUS
<1>4. sub' = [sub EXCEPT ![c] = y]
  BY <1>3 DEF Leave
<1>5. PICK x : x = sub[c]
  OBVIOUS
<1>6. y = [client |-> x.client, live |-> FALSE, pc |-> x.pc, pending |-> x.pending,
           bytes |-> x.bytes, transient |-> x.transient, dropped |-> x.dropped,
           wakeup |-> x.wakeup, batch |-> x.batch]
  BY <1>1, <1>3, <1>5 DEF Connections
<1>7. x.pc \in Open3
  BY <1>2, <1>5 DEF Subscribed, Open3
<1>8. y \in Connections /\ Steady(y) /\ ~ y.live /\ y.pc \in Open3
  <2>1. x \in Connections /\ Steady(x)
    BY <1>1, <1>5
  <2>2. y \in Connections
    BY <1>6, <2>1, ConnectionType DEF Connections
  <2>3. Steady(y)
    BY <1>6, <1>7, <2>1 DEF Steady
  <2> QED BY <1>6, <1>7, <2>2, <2>3
<1>9. /\ sub' \in [Conns -> Connections]
      /\ \A d \in Conns : sub'[d] = IF d = c THEN y ELSE sub[d]
      /\ \A d \in Conns : Steady(sub'[d])
      /\ OneReader' /\ Subscribed' = Subscribed \cup {c}
  BY <1>1, <1>4, <1>8, OneChanges
<1>10. Readers' /\ slots' \in Nat /\ got' \in [Clients -> Seq(Frames)]
  BY <1>1, <1>2, <1>9 DEF Readers, TypeOK
<1>11. Shape'
  BY <1>2, <1>9, <1>10, StoreSameShape
<1> QED BY <1>2, <1>3, <1>8, <1>9, <1>11

LEMMA WriteFailsIs ==
  ASSUME Shape, NEW c \in Conns, WriteFails(c)
  PROVE  /\ Shape' /\ StoreSame /\ sub[c].pc = "writing"
         /\ Reaches(c) \/ UNCHANGED got
         /\ \A d \in Conns : sub'[d] = IF d = c THEN Shut(sub[c]) ELSE sub[d]
<1>1. TypeOK /\ Readers
  BY DEF Shape
<1>2. /\ sub[c].pc = "writing" /\ Closed(c) /\ StoreSame
      /\ Reaches(c) \/ UNCHANGED got
  BY DEF WriteFails, StoreSame
<1>3. c \in Subscribed
  BY <1>2 DEF Subscribed
<1>4. got' \in [Clients -> Seq(Frames)]
  BY <1>2, ReachesIs
<1>5. /\ sub' \in [Conns -> Connections] /\ Readers' /\ slots' \in Nat
      /\ \A d \in Conns : sub'[d] = IF d = c THEN Shut(sub[c]) ELSE sub[d]
  BY <1>1, <1>2, <1>3, ClosedStep
<1> QED BY <1>2, <1>4, <1>5, StoreSameShape

LEMMA LostIs ==
  ASSUME Shape, NEW c \in Conns, ConnectionLost(c)
  PROVE  /\ Shape' /\ StoreSame /\ got' = got
         /\ \A d \in Conns : sub'[d] = IF d = c THEN Shut(sub[c]) ELSE sub[d]
<1>1. TypeOK /\ Readers
  BY DEF Shape
<1>2. /\ Closed(c) /\ StoreSame /\ got' = got /\ c \in Subscribed
  BY DEF ConnectionLost, StoreSame, Subscribed
<1>3. got' \in [Clients -> Seq(Frames)]
  BY <1>1, <1>2 DEF TypeOK
<1>4. /\ sub' \in [Conns -> Connections] /\ Readers' /\ slots' \in Nat
      /\ \A d \in Conns : sub'[d] = IF d = c THEN Shut(sub[c]) ELSE sub[d]
  BY <1>1, <1>2, ClosedStep
<1> QED BY <1>2, <1>3, <1>4, StoreSameShape

LEMMA AgeIs ==
  ASSUME Shape, Age
  PROVE  /\ Shape'
         /\ UNCHANGED <<backlogs, serial, epoch, captured, sub, slots, published, got>>
<1>1. UNCHANGED <<backlogs, serial, epoch, captured, sub, slots, published, got>>
  BY DEF Age
<1>2. PICK s \in Keys(backlogs) : old' = old \cup {s}
  BY DEF Age
<1>3. old' \subseteq Keys(backlogs')
  BY <1>1, <1>2 DEF Shape, TypeOK
<1>4. TypeOK' /\ Stores' /\ Readers'
  BY <1>1, <1>3 DEF Shape, TypeOK, Stores, Readers, OneReader, Subscribed
<1> QED BY <1>1, <1>4 DEF Shape

LEMMA NoBacklogs ==
  ASSUME NEW n, NEW ep, NEW ser
  PROVE  /\ Empty(Sessions, NoBacklog) \in Dict(Sessions, Backlogs)
         /\ SoundStore(Empty(Sessions, NoBacklog), n, ep, ser)
         /\ \A s \in Sessions : Empty(Sessions, NoBacklog).val[s] = NoBacklog
<1>1. IsFiniteSet(Sessions)
  BY StreamAssumption
<1>2. Empty(Sessions, NoBacklog) \in Dict(Sessions, Backlogs)
  BY <1>1, NoBacklogType, EmptyType
<1>3. /\ Keys(Empty(Sessions, NoBacklog)) = {} /\ InOrder(Empty(Sessions, NoBacklog))
  BY EmptyOrder
<1>4. \A s \in Sessions : Empty(Sessions, NoBacklog).val[s] = NoBacklog
  BY DEF Empty
<1> QED BY <1>2, <1>3, <1>4 DEF SoundStore

LEMMA RestartIs ==
  ASSUME Shape, Restart
  PROVE  /\ Shape' /\ UNCHANGED <<captured, got>>
         /\ epoch' = epoch + 1 /\ serial' = 0
         /\ \A s \in Sessions : backlogs'.val[s] = NoBacklog
         /\ \A c \in Conns : ~ sub'[c].live
<1>1. /\ backlogs' = Empty(Sessions, NoBacklog) /\ old' = {} /\ serial' = 0
      /\ epoch' = epoch + 1 /\ slots' = 0
      /\ UNCHANGED <<captured, published, got>>
      /\ sub' = [c \in Conns |-> IF c \in Subscribed THEN [Unused EXCEPT !.pc = "closed"]
                                 ELSE sub[c]]
  BY DEF Restart
<1>2. ASSUME NEW c \in Conns
      PROVE  /\ sub'[c] \in Connections /\ Steady(sub'[c]) /\ ~ sub'[c].live
             /\ sub'[c].pc \notin Open3
  <2>1. CASE c \in Subscribed
    <3>1. sub'[c] = [Unused EXCEPT !.pc = "closed"]
      BY <1>1, <2>1
    <3> QED BY <3>1, UnusedIs DEF Off, Open3
  <2>2. CASE c \notin Subscribed
    <3>1. sub'[c] = sub[c] /\ sub[c].pc \notin Open3
      BY <1>1, <2>2 DEF Subscribed, Open3
    <3>2. sub[c] \in Connections /\ Steady(sub[c])
      BY DEF Shape, TypeOK, Readers
    <3> QED BY <3>1, <3>2 DEF Steady
  <2> QED BY <2>1, <2>2
<1>3. sub' \in [Conns -> Connections]
  BY <1>1, <1>2
<1>4. Subscribed' = {}
  BY <1>2 DEF Subscribed, Open3
<1>5. Readers'
  BY <1>1, <1>2, <1>4, FS_EmptySet DEF Readers, OneReader
<1>6. /\ backlogs' \in Dict(Sessions, Backlogs) /\ Stores'
      /\ \A s \in Sessions : backlogs'.val[s] = NoBacklog
  BY <1>1, NoBacklogs DEF Stores
<1>7. TypeOK'
  BY SMTT(30), <1>1, <1>3, <1>6 DEF Shape, TypeOK
<1> QED BY <1>1, <1>2, <1>5, <1>6, <1>7 DEF Shape

LEMMA InitShape == ASSUME Init PROVE Shape
<1>1. \A c \in Conns : sub[c] = Unused
  BY DEF Init
<1>2. \A c \in Conns : /\ sub[c] \in Connections /\ Steady(sub[c])
                       /\ ~ sub[c].live /\ sub[c].pc = "unused"
  BY <1>1, UnusedIs DEF Off
<1>3. Subscribed = {}
  BY <1>2 DEF Subscribed
<1>4. Readers
  BY <1>2, <1>3, FS_EmptySet DEF Init, Readers, OneReader
<1>5. backlogs \in Dict(Sessions, Backlogs) /\ Stores
  BY NoBacklogs DEF Init, Stores
<1>6. sub \in [Conns -> Connections]
  BY <1>2 DEF Init
<1>7. got \in [Clients -> Seq(Frames)]
  BY DEF Init
<1>8. TypeOK
  BY <1>5, <1>6, <1>7 DEF Init, TypeOK
<1> QED BY <1>4, <1>5, <1>8 DEF Shape

LEMMA NextShape == ASSUME Shape, [Next]_vars PROVE Shape'
<1>1. ASSUME NEW t \in Tasks, Publish(t) PROVE Shape'
  BY <1>1, PublishShape
<1>2. ASSUME NEW t \in Tasks, NEW size \in Sizes, Capture(t, size) PROVE Shape'
  BY <1>2, CaptureShape
<1>3. ASSUME NEW cl \in Clients, Subscribe(cl) PROVE Shape'
  BY <1>3, SubscribeIs
<1>4. ASSUME NEW c \in Conns, Open(c) \/ Wake(c) PROVE Shape'
  <2>1. /\ sub[c].pc \in {"opening", "waiting"} /\ Turn(c) /\ StoreSame /\ got' = got
    BY <1>4 DEF Open, Wake, StoreSame
  <2> QED BY <2>1, TurnIs
<1>5. ASSUME NEW c \in Conns, Write(c) PROVE Shape'
  BY <1>5, WriteIs
<1>6. ASSUME NEW c \in Conns, WriteFails(c) PROVE Shape'
  BY <1>6, WriteFailsIs
<1>7. ASSUME NEW c \in Conns, Leave(c) PROVE Shape'
  BY <1>7, LeaveIs
<1>8. ASSUME NEW c \in Conns, ConnectionLost(c) PROVE Shape'
  BY <1>8, LostIs
<1>9. ASSUME Age PROVE Shape'
  BY <1>9, AgeIs
<1>10. ASSUME Restart PROVE Shape'
  BY <1>10, RestartIs
<1>11. ASSUME UNCHANGED vars PROVE Shape'
  BY <1>11 DEF Shape, TypeOK, Stores, Readers, OneReader, Subscribed, vars, storeVars
<1> QED BY <1>1, <1>2, <1>3, <1>4, <1>5, <1>6, <1>7, <1>8, <1>9, <1>10, <1>11
        DEF Next, Serve

\* The tables of the store and of the connections keep the shape that every
\* lookup of streaming.py relies on, whatever is captured, trimmed, evicted,
\* expired, dropped or restarted.
THEOREM StreamShape == Spec => []Shape
<1>1. Init => Shape
  BY InitShape
<1>2. Shape /\ [Next]_vars => Shape'
  BY NextShape
<1> QED BY <1>1, <1>2, PTL DEF Spec

\* Every table of the store and of the connections holds what its Python type
\* says.
THEOREM StreamTypes == Spec => []TypeOK
<1>1. Shape => TypeOK
  BY DEF Shape
<1> QED BY <1>1, StreamShape, PTL

\* The running counters of the store agree with what they count: subscribers
\* (_subscriber_count), queued bytes and retained bytes.
THEOREM StreamCounters == Spec => []CountersAccurate
<1>1. Shape => CountersAccurate
  BY DEF Shape, Stores, SoundStore, Sound, Readers, Steady, CountersAccurate,
         Subscribed, Open3, TypeOK, Dict, Keys
<1> QED BY <1>1, StreamShape, PTL

\* The step property of CaptureIsRetained.
Retained ==
  captured' # captured =>
    /\ \E s \in Keys(backlogs') :
         /\ backlogs'.val[s].entries # << >>
         /\ Last(backlogs'.val[s].entries).stamp = captured'
    /\ Cardinality(Keys(backlogs')) <= MaxSessions

LEMMA CaptureRetains ==
  ASSUME Shape, NEW t \in Tasks, NEW size \in Sizes, Capture(t, size)
  PROVE  Retained
<1> DEFINE s == SessionOf[t]
           b == Extended(s, t, Stored(size))
<1>1. /\ s \in Sessions /\ Stored(size) \in Nat /\ Stored(size) <= BacklogBytes
      /\ s \in Keys(backlogs') /\ backlogs'.val[s] = b
      /\ Cardinality(Keys(backlogs')) <= MaxSessions /\ captured' = captured + 1
  BY CaptureStore
<1>2. b.entries # << >> /\ Last(b.entries).stamp = captured + 1
  BY <1>1, ExtendedLast
<1> QED BY <1>1, <1>2 DEF Retained

\* A payload that is captured is the last one of a retained backlog, whatever
\* had to be evicted for it, and the store keeps to its limit of sessions.
THEOREM StreamRetains == Spec => CaptureIsRetained
<1>1. Shape /\ [Next]_vars => [Retained]_vars
  <2> SUFFICES ASSUME Shape, [Next]_vars, captured' # captured PROVE Retained
    BY DEF Retained
  <2>1. \A t \in Tasks, size \in Sizes : Capture(t, size) => Retained
    BY CaptureRetains
  <2>2. \E t \in Tasks, size \in Sizes : Capture(t, size)
    BY SubscribeIs, AgeIs, RestartIs DEF Next, Serve, Open, Wake, Write, WriteFails,
       Leave, ConnectionLost, Publish, vars, storeVars
  <2> QED BY <2>1, <2>2
<1> QED BY <1>1, StreamShape, PTL DEF Spec, CaptureIsRetained, Retained

-----------------------------------------------------------------------------
(* Lines: what a client has received and what is on its way to it.         *)

\* The frames a connection has brought, or will bring, to its client.
LineOf(q, x) == q \o x.batch \o x.pending
Line(c) == LineOf(got[sub[c].client], sub[c])

Ascending(q) ==
  \A i, j \in 1..Len(q) :
    i < j /\ q[i].durable /\ q[j].durable => q[i].stamp < q[j].stamp
FreshIn(q) ==
  \A i, j \in 1..Len(q) :
    i < j /\ q[i].durable /\ ~ q[j].durable /\ q[i].task = q[j].task
      => q[i].stamp <= q[j].stamp

\* What the store knows of an event that left it: it is older than n and has a
\* token that was given out; it is not newer than its backlog, is in one order
\* with its entries by seq and by stamp, and older than those of another one.
Recorded(f, b, n, ep, ser) ==
  /\ f.stamp <= n
  /\ Drawn(f.token, ep, ser)
  /\ f.token = b.token =>
       /\ f.seq < b.next
       /\ \A i \in 1..Len(b.entries) :
            f.seq < b.entries[i].seq <=> f.stamp < b.entries[i].stamp
  /\ f.token # b.token => \A i \in 1..Len(b.entries) : f.stamp < b.entries[i].stamp
Traced(q, b, n, ep, ser) ==
  \A i \in 1..Len(q) : q[i].durable => Recorded(q[i], b, n, ep, ser)

\* A retained event that is not newer than one in the line is in it, before it.
Complete(q, b) ==
  \A k \in 1..Len(b.entries) : \A i \in 1..Len(q) :
    q[i].durable /\ b.entries[k].stamp <= q[i].stamp => \E j \in 1..i : q[j] = b.entries[k]
Whole(q, b) ==
  \A k \in 1..Len(b.entries) : \E j \in 1..Len(q) : q[j] = b.entries[k]

Regular(q, b, n, ep, ser, resumes) ==
  /\ FreshIn(q)
  /\ Traced(q, b, n, ep, ser)
  /\ resumes => Ascending(q) /\ Complete(q, b)

\* Progress of a task with stamp n may follow the line.
Precedes(q, t, n) == \A i \in 1..Len(q) : q[i].durable /\ q[i].task = t => q[i].stamp <= n

Prefix(p, q) == Len(p) <= Len(q) /\ \A i \in 1..Len(p) : p[i] = q[i]
Joined(p, q, r) ==
  /\ Len(p) = Len(q) + Len(r)
  /\ \A i \in 1..Len(q) : p[i] = q[i]
  /\ \A i \in 1..Len(r) : p[Len(q) + i] = r[i]

Longer(p, q, e) ==
  Len(p) = Len(q) + 1 /\ p[Len(q) + 1] = e /\ \A i \in 1..Len(q) : p[i] = q[i]

LEMMA LenType == ASSUME NEW S, NEW q \in Seq(S) PROVE Len(q) \in Nat
OBVIOUS

LEMMA JoinedIndex ==
  ASSUME NEW p, NEW q, NEW r, Len(q) \in Nat, Len(r) \in Nat, Joined(p, q, r),
         NEW i \in 1..Len(p)
  PROVE  \/ i \in 1..Len(q) /\ p[i] = q[i]
         \/ \E j \in 1..Len(r) : i = Len(q) + j /\ p[i] = r[j]
<1>1. CASE i <= Len(q)
  BY <1>1 DEF Joined
<1>2. CASE ~ (i <= Len(q))
  <2>1. i - Len(q) \in 1..Len(r) /\ i = Len(q) + (i - Len(q))
    BY <1>2 DEF Joined
  <2> QED BY <2>1 DEF Joined
<1> QED BY <1>1, <1>2

LEMMA PrefixRegular ==
  ASSUME NEW p \in Seq(Frames), NEW q \in Seq(Frames), Prefix(p, q),
         NEW b, NEW n, NEW ep, NEW ser, NEW resumes,
         Regular(q, b, n, ep, ser, resumes)
  PROVE  Regular(p, b, n, ep, ser, resumes)
<1>1. \A i \in 1..Len(p) : i \in 1..Len(q) /\ p[i] = q[i] /\ 1..i \subseteq 1..Len(p)
  <2>1. Len(p) \in Nat /\ Len(q) \in Nat
    BY LenType
  <2> QED BY <2>1 DEF Prefix
<1>2. FreshIn(p)
  BY <1>1 DEF Regular, FreshIn
<1>3. Traced(p, b, n, ep, ser)
  BY <1>1 DEF Regular, Traced
<1>4. ASSUME resumes PROVE Ascending(p)
  BY <1>1, <1>4 DEF Regular, Ascending
<1>5. ASSUME resumes PROVE Complete(p, b)
  <2> SUFFICES ASSUME NEW k \in 1..Len(b.entries), NEW i \in 1..Len(p),
                      p[i].durable, b.entries[k].stamp <= p[i].stamp
               PROVE  \E j \in 1..i : p[j] = b.entries[k]
    BY DEF Complete
  <2>1. PICK j \in 1..i : q[j] = b.entries[k]
    BY <1>1, <1>5 DEF Regular, Complete
  <2> QED BY <1>1, <2>1
<1> QED BY <1>2, <1>3, <1>4, <1>5 DEF Regular

LEMMA PrefixPrecedes ==
  ASSUME NEW p \in Seq(Frames), NEW q \in Seq(Frames), Prefix(p, q),
         NEW t, NEW n, Precedes(q, t, n)
  PROVE  Precedes(p, t, n)
<1>1. Len(p) \in Nat /\ Len(q) \in Nat
  BY LenType
<1> QED BY <1>1 DEF Prefix, Precedes

LEMMA TokenIsNotEmpty == ASSUME NEW t \in Nat \X Nat PROVE t # << >>
OBVIOUS

\* The store forgets the backlog, or nothing happens to it while time goes on.
LEMMA RegularLater ==
  ASSUME NEW q \in Seq(Frames), NEW b \in Backlogs, NEW n \in Nat, NEW m \in Nat, n <= m,
         NEW ep \in Nat, NEW ep2 \in Nat, NEW ser \in Nat, NEW ser2 \in Nat,
         ep < ep2 \/ (ep = ep2 /\ ser <= ser2),
         NEW resumes, NEW c, c = b \/ c = NoBacklog,
         Regular(q, b, n, ep, ser, resumes)
  PROVE  Regular(q, c, m, ep2, ser2, resumes)
<1>1. NoBacklog.entries = << >> /\ NoBacklog.token = << >>
  BY DEF NoBacklog
<1>2. FreshIn(q)
  BY DEF Regular
<1>3. ASSUME NEW i \in 1..Len(q), q[i].durable
      PROVE  Recorded(q[i], c, m, ep2, ser2)
  <2> DEFINE f == q[i]
  <2>1. f.token \in Nat \X Nat /\ f.stamp \in Nat /\ f.token # << >>
    <3>1. f \in Entries
      BY <1>3, FrameType
    <3>2. f.token \in Nat \X Nat /\ f.stamp \in Nat
      BY <3>1 DEF Entries
    <3> QED BY <3>2, TokenIsNotEmpty
  <2>2. Recorded(f, b, n, ep, ser)
    BY <1>3 DEF Regular, Traced
  <2> HIDE DEF f
  <2>3. f.stamp <= m
    BY <2>1, <2>2 DEF Recorded
  <2>4. f.token[1] \in Nat /\ f.token[2] \in Nat
    BY <2>1
  <2>5. Drawn(f.token, ep2, ser2)
    <3>1. Drawn(f.token, ep, ser)
      BY <2>2 DEF Recorded
    <3> QED BY <2>4, <3>1 DEF Drawn
  <2>6. Recorded(f, c, m, ep2, ser2)
    <3>1. CASE c = b
      BY <2>2, <2>3, <2>5, <3>1 DEF Recorded
    <3>2. CASE c = NoBacklog
      <4>1. Len(c.entries) = 0 /\ c.token = << >>
        BY <1>1, <3>2
      <4> QED BY <2>1, <2>3, <2>5, <4>1 DEF Recorded
    <3> QED BY <3>1, <3>2
  <2> QED BY <2>6 DEF f
<1>4. Traced(q, c, m, ep2, ser2)
  BY <1>3 DEF Traced
<1>5. resumes => Ascending(q) /\ Complete(q, c)
  BY <1>1 DEF Regular, Complete
<1> QED BY <1>2, <1>4, <1>5 DEF Regular

LEMMA RegularSameEpoch ==
  ASSUME NEW q \in Seq(Frames), NEW b \in Backlogs, NEW n \in Nat, NEW m \in Nat, n <= m,
         NEW ep \in Nat, NEW ser \in Nat, NEW ser2 \in Nat, ser <= ser2,
         NEW resumes, NEW c, c = b \/ c = NoBacklog,
         Regular(q, b, n, ep, ser, resumes)
  PROVE  Regular(q, c, m, ep, ser2, resumes)
BY RegularLater

\* An event of a backlog is recorded by it.
LEMMA MemberRecorded ==
  ASSUME NEW b \in Backlogs, NEW n \in Nat, NEW ep, NEW ser, Run(b, n),
         Drawn(b.token, ep, ser), NEW k \in 1..Len(b.entries)
  PROVE  Recorded(b.entries[k], b, n, ep, ser)
<1> DEFINE f == b.entries[k]
           len == Len(b.entries)
<1>1. b.entries \in Seq(Entries)
  BY DEF Backlogs
<1>2. /\ len \in Nat
      /\ \A i \in 1..len : b.entries[i].seq \in Nat /\ b.entries[i].stamp \in Nat
  <2>1. len \in Nat
    BY <1>1
  <2> QED BY <1>1, <2>1, EntryType
<1>3. f.stamp <= n /\ f.seq < b.next /\ f.token = b.token
  BY DEF Run
<1>4. \A i, j \in 1..len : i < j => /\ b.entries[i].seq < b.entries[j].seq
                                    /\ b.entries[i].stamp < b.entries[j].stamp
  BY DEF Run
<1>5. ASSUME NEW i \in 1..len
      PROVE  f.seq < b.entries[i].seq <=> f.stamp < b.entries[i].stamp
  <2>1. i < k \/ i = k \/ k < i
    OBVIOUS
  <2> QED BY <1>2, <1>4, <2>1
<1> QED BY <1>3, <1>5 DEF Recorded

\* A backlog b grows by the event e, into c.
Grows(b, e, c, n, ep, ser) ==
  /\ b \in Backlogs /\ c \in Backlogs /\ e \in Entries
  /\ Run(b, n) /\ Run(c, n + 1) /\ Drawn(c.token, ep, ser)
  /\ c.token = b.token /\ c.next = b.next + 1
  /\ e.token = b.token /\ e.seq = b.next /\ e.stamp = n + 1
  /\ c.entries[Len(c.entries)] = e /\ Len(c.entries) \in Nat \ {0}
  /\ GrownBy(b.entries, e, c.entries)

LEMMA GrownIndex ==
  ASSUME NEW q \in Seq(Entries), NEW e, NEW r, GrownBy(q, e, r), NEW i \in 1..Len(r)
  PROVE  r[i] = e \/ \E k \in 1..Len(q) : r[i] = q[k]
<1> DEFINE n == Len(q)
<1>1. PICK m \in 0..n : /\ Len(r) = n + 1 - m
                        /\ \A j \in 1..(n + 1 - m) :
                             r[j] = IF m + j = n + 1 THEN e ELSE q[m + j]
  BY DEF GrownBy
<1>2. n \in Nat
  OBVIOUS
<1> HIDE DEF n
<1>3. i \in 1..(n + 1 - m)
  BY <1>1
<1>4. m + i # n + 1 => m + i \in 1..n
  BY <1>2, <1>3, Shifted
<1> QED BY <1>1, <1>3, <1>4 DEF n

LEMMA GrowsIndex ==
  ASSUME NEW b, NEW e, NEW c, NEW n, NEW ep, NEW ser, Grows(b, e, c, n, ep, ser),
         NEW i \in 1..Len(c.entries)
  PROVE  c.entries[i] = e \/ \E k \in 1..Len(b.entries) : c.entries[i] = b.entries[k]
<1>1. b.entries \in Seq(Entries) /\ GrownBy(b.entries, e, c.entries)
  BY DEF Grows, Backlogs
<1> QED BY <1>1, GrownIndex

\* A line stays regular when its backlog grows, whether the event joins it ...
LEMMA RegularGrows ==
  ASSUME NEW q \in Seq(Frames), NEW b, NEW e, NEW c, NEW n \in Nat, NEW ep, NEW ser,
         NEW resumes, Grows(b, e, c, n, ep, ser), Regular(q, b, n, ep, ser, resumes)
  PROVE  Regular(q, c, n + 1, ep, ser, resumes)
<1>1. b \in Backlogs /\ b.entries \in Seq(Entries) /\ b.next \in Nat
  BY DEF Grows, Backlogs
<1>2. \A i \in 1..Len(c.entries) :
        c.entries[i] = e \/ \E k \in 1..Len(b.entries) : c.entries[i] = b.entries[k]
  BY GrowsIndex
<1>3. /\ e.seq = b.next /\ e.stamp = n + 1 /\ c.token = b.token /\ c.next = b.next + 1
  BY DEF Grows
<1>4. ASSUME NEW i \in 1..Len(q), q[i].durable
      PROVE  Recorded(q[i], c, n + 1, ep, ser) /\ q[i].stamp < n + 1
  <2> DEFINE f == q[i]
  <2>1. f.stamp \in Nat /\ f.seq \in Nat
    <3>1. f \in Entries
      BY <1>4, FrameType
    <3> QED BY <3>1 DEF Entries
  <2>2. Recorded(f, b, n, ep, ser)
    BY <1>4 DEF Regular, Traced
  <2> HIDE DEF f
  <2>3. f.stamp < n + 1
    BY <2>1, <2>2 DEF Recorded
  <2>4. f.token = b.token =>
          /\ f.seq < c.next
          /\ \A j \in 1..Len(c.entries) :
               f.seq < c.entries[j].seq <=> f.stamp < c.entries[j].stamp
    <3> SUFFICES ASSUME f.token = b.token, NEW j \in 1..Len(c.entries)
                 PROVE  /\ f.seq < c.next
                        /\ f.seq < c.entries[j].seq <=> f.stamp < c.entries[j].stamp
      <4>1. f.token = b.token => f.seq < c.next
        BY <1>1, <1>3, <2>1, <2>2 DEF Recorded
      <4> QED BY <4>1
    <3>1. f.seq < b.next
      BY <2>2 DEF Recorded
    <3>2. f.seq < c.next
      BY <1>1, <1>3, <2>1, <3>1
    <3>3. CASE c.entries[j] = e
      BY <1>3, <2>3, <3>1, <3>2, <3>3
    <3>4. CASE c.entries[j] # e
      <4>1. PICK k \in 1..Len(b.entries) : c.entries[j] = b.entries[k]
        BY <1>2, <3>4
      <4> QED BY <2>2, <3>2, <4>1 DEF Recorded
    <3> QED BY <3>2, <3>3, <3>4
  <2>5. f.token # b.token => \A j \in 1..Len(c.entries) : f.stamp < c.entries[j].stamp
    BY <1>2, <1>3, <2>2, <2>3 DEF Recorded
  <2>6. Recorded(f, c, n + 1, ep, ser)
    BY <1>3, <2>1, <2>2, <2>3, <2>4, <2>5 DEF Recorded
  <2> QED BY <2>3, <2>6 DEF f
<1>5. FreshIn(q) /\ Traced(q, c, n + 1, ep, ser)
  BY <1>4 DEF Regular, Traced
<1>6. ASSUME resumes PROVE Ascending(q) /\ Complete(q, c)
  <2>1. Ascending(q) /\ Complete(q, b)
    BY <1>6 DEF Regular
  <2> SUFFICES ASSUME NEW k \in 1..Len(c.entries), NEW i \in 1..Len(q),
                      q[i].durable, c.entries[k].stamp <= q[i].stamp
               PROVE  \E j \in 1..i : q[j] = c.entries[k]
    BY <2>1 DEF Complete
  <2>2. q[i].stamp < n + 1 /\ q[i].stamp \in Nat
    BY <1>4, FrameType
  <2>3. c.entries[k] # e
    BY <1>3, <2>2
  <2>4. PICK l \in 1..Len(b.entries) : c.entries[k] = b.entries[l]
    BY <1>2, <2>3
  <2> QED BY <2>1, <2>4 DEF Complete
<1> QED BY <1>5, <1>6 DEF Regular

\* ... or it is appended to a line that has everything.
LEMMA RegularAppend ==
  ASSUME NEW q \in Seq(Frames), NEW p \in Seq(Frames), NEW b, NEW e, NEW c,
         NEW n \in Nat, NEW ep, NEW ser, NEW resumes,
         Grows(b, e, c, n, ep, ser), Regular(q, b, n, ep, ser, resumes),
         Whole(q, b), Longer(p, q, e)
  PROVE  Regular(p, c, n + 1, ep, ser, resumes) /\ Whole(p, c)
<1> DEFINE len == Len(q)
<1>1. /\ b \in Backlogs /\ b.entries \in Seq(Entries) /\ c \in Backlogs
      /\ e \in Entries /\ e.durable = TRUE /\ e.stamp = n + 1
  BY DEF Grows, Backlogs, Entries
<1>2. \A i \in 1..Len(c.entries) :
        c.entries[i] = e \/ \E k \in 1..Len(b.entries) : c.entries[i] = b.entries[k]
  BY GrowsIndex
<1>3. len \in Nat
  OBVIOUS
<1>4. Len(p) = len + 1 /\ p[len + 1] = e /\ \A i \in 1..len : p[i] = q[i]
  BY <1>3 DEF Longer
<1>5. Regular(q, c, n + 1, ep, ser, resumes)
  BY RegularGrows
<1>6. \A i \in 1..len : q[i].durable => q[i].stamp < n + 1
  <2> SUFFICES ASSUME NEW i \in 1..len, q[i].durable PROVE q[i].stamp < n + 1
    OBVIOUS
  <2>1. Recorded(q[i], b, n, ep, ser)
    BY DEF Regular, Traced
  <2>2. q[i].stamp \in Nat
    BY FrameType
  <2> QED BY <2>1, <2>2 DEF Recorded
<1>7. PICK k \in 1..Len(c.entries) : e = c.entries[k]
  BY DEF Grows
<1>8. Recorded(e, c, n + 1, ep, ser)
  <2>1. c \in Backlogs /\ Run(c, n + 1) /\ Drawn(c.token, ep, ser) /\ n + 1 \in Nat
    BY DEF Grows
  <2> QED BY <1>7, <2>1, MemberRecorded
<1> HIDE DEF len
<1>9. Traced(p, c, n + 1, ep, ser)
  <2> SUFFICES ASSUME NEW i \in 1..(len + 1), p[i].durable
               PROVE  Recorded(p[i], c, n + 1, ep, ser)
    BY <1>4 DEF Traced
  <2>1. CASE i = len + 1
    BY <1>4, <1>8, <2>1
  <2>2. CASE i # len + 1
    BY <1>3, <1>4, <1>5, <2>2 DEF Regular, Traced, len
  <2> QED BY <2>1, <2>2
<1>10. FreshIn(p)
  <2> SUFFICES ASSUME NEW i \in 1..(len + 1), NEW j \in 1..(len + 1), i < j,
                      p[i].durable, ~ p[j].durable, p[i].task = p[j].task
               PROVE  p[i].stamp <= p[j].stamp
    BY <1>4 DEF FreshIn
  <2>1. j # len + 1
    BY <1>1, <1>4
  <2>2. i \in 1..len /\ j \in 1..len
    BY <1>3, <2>1
  <2> QED BY <1>4, <1>5, <2>2 DEF Regular, FreshIn, len
<1>11. Whole(p, c)
  <2> SUFFICES ASSUME NEW l \in 1..Len(c.entries)
               PROVE  \E j \in 1..(len + 1) : p[j] = c.entries[l]
    BY <1>4 DEF Whole
  <2>1. CASE c.entries[l] = e
    BY <1>3, <1>4, <2>1
  <2>2. CASE c.entries[l] # e
    <3>1. PICK m \in 1..Len(b.entries) : c.entries[l] = b.entries[m]
      BY <1>2, <2>2
    <3>2. PICK j \in 1..len : q[j] = b.entries[m]
      BY DEF Whole, len
    <3> QED BY <1>3, <1>4, <3>1, <3>2
  <2> QED BY <2>1, <2>2
<1>12. ASSUME resumes PROVE Ascending(p)
  <2> SUFFICES ASSUME NEW i \in 1..(len + 1), NEW j \in 1..(len + 1), i < j,
                      p[i].durable, p[j].durable
               PROVE  p[i].stamp < p[j].stamp
    BY <1>4 DEF Ascending
  <2>1. i \in 1..len
    BY <1>3
  <2>2. CASE j = len + 1
    BY <1>1, <1>4, <1>6, <2>1, <2>2
  <2>3. CASE j # len + 1
    <3>1. j \in 1..len
      BY <1>3, <2>3
    <3> QED BY <1>4, <1>5, <1>12, <2>1, <3>1 DEF Regular, Ascending, len
  <2> QED BY <2>2, <2>3
<1>13. ASSUME resumes PROVE Complete(p, c)
  <2> SUFFICES ASSUME NEW l \in 1..Len(c.entries), NEW i \in 1..(len + 1),
                      p[i].durable, c.entries[l].stamp <= p[i].stamp
               PROVE  \E j \in 1..i : p[j] = c.entries[l]
    BY <1>4 DEF Complete
  <2>1. CASE i = len + 1
    BY <1>4, <1>11, <2>1 DEF Whole
  <2>2. CASE i # len + 1
    <3>1. i \in 1..len
      BY <1>3, <2>2
    <3>2. PICK j \in 1..i : q[j] = c.entries[l]
      BY <1>4, <1>5, <1>13, <3>1 DEF Regular, Complete, len
    <3>3. j \in 1..len
      BY <1>3, <3>1
    <3> QED BY <1>4, <3>2, <3>3
  <2> QED BY <2>1, <2>2
<1> QED BY <1>9, <1>10, <1>11, <1>12, <1>13 DEF Regular

\* Progress follows a line that it may follow.
LEMMA RegularProgress ==
  ASSUME NEW q \in Seq(Frames), NEW p \in Seq(Frames), NEW r \in Seq(Frames),
         NEW b, NEW n, NEW ep, NEW ser, NEW resumes,
         Regular(q, b, n, ep, ser, resumes), Joined(p, q, r),
         \A i \in 1..Len(r) : ~ r[i].durable /\ Precedes(q, r[i].task, r[i].stamp)
  PROVE  /\ Regular(p, b, n, ep, ser, resumes)
         /\ Whole(q, b) => Whole(p, b)
<1>1. Len(q) \in Nat /\ Len(r) \in Nat
  BY LenType
<1>2. \A i \in 1..Len(q) : i \in 1..Len(p) /\ p[i] = q[i]
  BY <1>1 DEF Joined
<1>3. \A i \in 1..Len(p) :
        \/ i \in 1..Len(q) /\ p[i] = q[i]
        \/ \E j \in 1..Len(r) : i = Len(q) + j /\ p[i] = r[j]
  BY <1>1, JoinedIndex
<1>4. \A i \in 1..Len(p) : p[i].durable => i \in 1..Len(q) /\ p[i] = q[i]
  BY <1>3
<1>5. FreshIn(p)
  <2> SUFFICES ASSUME NEW i \in 1..Len(p), NEW j \in 1..Len(p), i < j,
                      p[i].durable, ~ p[j].durable, p[i].task = p[j].task
               PROVE  p[i].stamp <= p[j].stamp
    BY DEF FreshIn
  <2>1. i \in 1..Len(q) /\ p[i] = q[i]
    BY <1>4
  <2>2. CASE j \in 1..Len(q) /\ p[j] = q[j]
    BY <2>1, <2>2 DEF Regular, FreshIn
  <2>3. CASE \E k \in 1..Len(r) : p[j] = r[k]
    BY <2>1, <2>3 DEF Precedes
  <2> QED BY <1>3, <2>2, <2>3
<1>6. Traced(p, b, n, ep, ser)
  BY <1>4 DEF Regular, Traced
<1>7. resumes => Ascending(p)
  BY <1>4 DEF Regular, Ascending
<1>8. ASSUME resumes PROVE Complete(p, b)
  <2> SUFFICES ASSUME NEW k \in 1..Len(b.entries), NEW i \in 1..Len(p),
                      p[i].durable, b.entries[k].stamp <= p[i].stamp
               PROVE  \E j \in 1..i : p[j] = b.entries[k]
    BY DEF Complete
  <2>1. i \in 1..Len(q) /\ p[i] = q[i]
    BY <1>4
  <2>2. PICK j \in 1..i : q[j] = b.entries[k]
    BY <1>8, <2>1 DEF Regular, Complete
  <2>3. j \in 1..Len(q)
    BY <1>1, <2>1
  <2> QED BY <1>2, <2>2, <2>3
<1>9. Whole(q, b) => Whole(p, b)
  BY <1>2 DEF Whole
<1> QED BY <1>5, <1>6, <1>7, <1>8, <1>9 DEF Regular

\* Resuming: what is sent again comes after what was received, and what is not
\* sent again was received.
Resumes(q, b, r, m) ==
  /\ m \in 0..Len(b.entries) /\ Len(r) = Len(b.entries) - m
  /\ \A i \in 1..(Len(b.entries) - m) : r[i] = b.entries[m + i]
  /\ \A k \in 1..m : \E j \in 1..Len(q) : q[j] = b.entries[k]

\* Every event in q is older than every event in r.
Older(q, r) == \A i \in 1..Len(q) : \A k \in 1..Len(r) :
                 q[i].durable => q[i].stamp < r[k].stamp

LEMMA RegularResumes ==
  ASSUME NEW q \in Seq(Frames), NEW p \in Seq(Frames), NEW b \in Backlogs,
         NEW r \in Seq(Entries), NEW m, NEW n \in Nat, NEW ep, NEW ser, NEW resumes,
         Regular(q, b, n, ep, ser, resumes), Run(b, n), Drawn(b.token, ep, ser) \/ r = << >>,
         Resumes(q, b, r, m), Joined(p, q, r),
         resumes => Older(q, r)
  PROVE  Regular(p, b, n, ep, ser, resumes) /\ Whole(p, b)
<1> DEFINE len == Len(q)
           size == Len(b.entries)
           all == b.entries
<1>1. len \in Nat /\ Len(r) \in Nat /\ all \in Seq(Entries) /\ size \in Nat
  BY LenType DEF Backlogs
<1>2. \A i \in 1..len : i \in 1..Len(p) /\ p[i] = q[i]
  BY <1>1 DEF Joined
<1>3. \A i \in 1..Len(p) :
        \/ i \in 1..len /\ p[i] = q[i]
        \/ \E j \in 1..Len(r) : i = len + j /\ p[i] = r[j]
  BY <1>1, JoinedIndex
<1>4. \A j \in 1..Len(r) : len + j \in 1..Len(p) /\ p[len + j] = r[j]
  BY <1>1 DEF Joined
<1>5. \A i, j \in 1..size : i < j => all[i].stamp < all[j].stamp
  BY DEF Run
<1>6. \A i \in 1..size : all[i].durable = TRUE /\ all[i].stamp \in Nat
  BY <1>1, EntryType
<1>7. /\ m \in 0..size /\ Len(r) = size - m
      /\ \A i \in 1..(size - m) : r[i] = all[m + i]
      /\ \A k \in 1..m : \E j \in 1..len : q[j] = all[k]
  BY DEF Resumes
<1> HIDE DEF len, size, all
<1>8. \A i \in 1..Len(r) : m + i \in 1..size /\ r[i] = all[m + i] /\ r[i].durable = TRUE
  BY <1>1, <1>6, <1>7
<1>9. \A k \in 1..size : k <= m \/ \E i \in 1..Len(r) : k = m + i
  <2> SUFFICES ASSUME NEW k \in 1..size, ~ (k <= m) PROVE \E i \in 1..Len(r) : k = m + i
    OBVIOUS
  <2>1. k - m \in 1..Len(r) /\ k = m + (k - m)
    BY <1>1, <1>7
  <2> QED BY <2>1
<1>10. FreshIn(p)
  <2> SUFFICES ASSUME NEW i \in 1..Len(p), NEW j \in 1..Len(p), i < j,
                      p[i].durable, ~ p[j].durable, p[i].task = p[j].task
               PROVE  p[i].stamp <= p[j].stamp
    BY DEF FreshIn
  <2>1. j \in 1..len /\ p[j] = q[j]
    BY <1>3, <1>8
  <2>2. i \in 1..len /\ p[i] = q[i]
    BY <1>1, <1>2, <2>1
  <2> QED BY <2>1, <2>2 DEF Regular, FreshIn, len
<1>11. Traced(p, b, n, ep, ser)
  <2> SUFFICES ASSUME NEW i \in 1..Len(p), p[i].durable PROVE Recorded(p[i], b, n, ep, ser)
    BY DEF Traced
  <2>1. CASE i \in 1..len /\ p[i] = q[i]
    BY <2>1 DEF Regular, Traced, len
  <2>2. CASE \E j \in 1..Len(r) : p[i] = r[j]
    <3>1. PICK j \in 1..Len(r) : p[i] = r[j]
      BY <2>2
    <3>2. p[i] = b.entries[m + j] /\ m + j \in 1..Len(b.entries)
      BY <1>8, <3>1 DEF size, all
    <3>3. Drawn(b.token, ep, ser)
      BY <3>1
    <3> QED BY <3>2, <3>3, MemberRecorded
  <2> QED BY <1>3, <2>1, <2>2
<1>12. ASSUME NEW k \in 1..size PROVE \E j \in 1..Len(p) : p[j] = all[k]
  <2>1. CASE k <= m
    <3>1. k \in 1..m
      BY <1>7, <2>1
    <3> QED BY <1>2, <1>7, <3>1
  <2>2. CASE \E i \in 1..Len(r) : k = m + i
    BY <1>4, <1>8, <2>2
  <2> QED BY <1>9, <2>1, <2>2
<1>13. Whole(p, b)
  BY <1>12 DEF Whole, size, all
<1>14. ASSUME resumes PROVE Ascending(p)
  <2> SUFFICES ASSUME NEW i \in 1..Len(p), NEW j \in 1..Len(p), i < j,
                      p[i].durable, p[j].durable
               PROVE  p[i].stamp < p[j].stamp
    BY DEF Ascending
  <2>1. CASE j \in 1..len /\ p[j] = q[j]
    <3>1. i \in 1..len /\ p[i] = q[i]
      BY <1>1, <1>2, <2>1
    <3> QED BY <1>14, <2>1, <3>1 DEF Regular, Ascending, len
  <2>2. CASE \E k \in 1..Len(r) : j = len + k /\ p[j] = r[k]
    <3>1. PICK k \in 1..Len(r) : j = len + k /\ p[j] = r[k]
      BY <2>2
    <3>2. CASE i \in 1..len /\ p[i] = q[i]
      BY <1>14, <3>1, <3>2 DEF Older, len
    <3>3. CASE \E l \in 1..Len(r) : i = len + l /\ p[i] = r[l]
      <4>1. PICK l \in 1..Len(r) : i = len + l /\ p[i] = r[l]
        BY <3>3
      <4>2. m + l < m + k
        BY <1>1, <1>7, <3>1, <4>1
      <4> QED BY <1>5, <1>8, <3>1, <4>1, <4>2
    <3> QED BY <1>3, <3>2, <3>3
  <2> QED BY <1>3, <2>1, <2>2
<1>15. ASSUME resumes PROVE Complete(p, b)
  <2> SUFFICES ASSUME NEW k \in 1..size, NEW i \in 1..Len(p),
                      p[i].durable, all[k].stamp <= p[i].stamp
               PROVE  \E j \in 1..i : p[j] = all[k]
    BY DEF Complete, size, all
  <2>1. CASE i \in 1..len /\ p[i] = q[i]
    <3>1. PICK j \in 1..i : q[j] = all[k]
      BY <1>15, <2>1 DEF Regular, Complete, len, size, all
    <3>2. j \in 1..len
      BY <1>1, <2>1
    <3> QED BY <1>2, <3>1, <3>2
  <2>2. CASE \E l \in 1..Len(r) : i = len + l /\ p[i] = r[l]
    <3>1. PICK l \in 1..Len(r) : i = len + l /\ p[i] = r[l]
      BY <2>2
    <3>2. CASE k <= m
      <4>1. k \in 1..m
        BY <1>7, <3>2
      <4>2. PICK j \in 1..len : q[j] = all[k]
        BY <1>7, <4>1
      <4>3. j \in 1..i
        BY <1>1, <3>1
      <4> QED BY <1>2, <4>2, <4>3
    <3>3. CASE \E o \in 1..Len(r) : k = m + o
      <4>1. PICK o \in 1..Len(r) : k = m + o
        BY <3>3
      <4>2. p[i] = all[m + l] /\ m + l \in 1..size
        BY <1>8, <3>1
      <4>3. ~ (m + l < k)
        BY <1>5, <1>6, <4>2
      <4>4. len + o \in 1..i
        BY <1>1, <1>7, <3>1, <4>1, <4>3
      <4> QED BY <1>4, <1>8, <4>1, <4>4
    <3> QED BY <1>9, <3>2, <3>3
  <2> QED BY <1>3, <2>1, <2>2
<1> QED BY <1>10, <1>11, <1>13, <1>14, <1>15 DEF Regular
\* What seen says of the line of a client that resumes, or of one that does not.
LastSeen(q, seen, resumes) ==
  \/ seen = NoEvent /\ (resumes => \A i \in 1..Len(q) : ~ q[i].durable)
  \/ resumes /\ \E i \in 1..Len(q) :
       seen = q[i] /\ q[i].durable /\ \A j \in 1..Len(q) : q[j].durable => j <= i

\* The id of the last event of a line tells exactly what it misses: with a floor
\* of that id, or with none, the replay continues the line.
LEMMA FloorResumes ==
  ASSUME NEW q \in Seq(Frames), NEW b \in Backlogs, NEW r \in Seq(Entries),
         NEW n \in Nat, NEW ep, NEW ser, NEW resumes, Regular(q, b, n, ep, ser, resumes),
         Run(b, n), b.entries # << >> => b.entries[Len(b.entries)].seq = b.next - 1,
         NEW seen, seen.seq \in Nat, LastSeen(q, seen, resumes),
         NEW floor, floor = Floor(b, seen), TailAbove(b.entries, floor, r)
  PROVE  (\E m : Resumes(q, b, r, m)) /\ (resumes => Older(q, r))
<1> DEFINE all == b.entries
           size == Len(all)
<1>1. all \in Seq(Entries) /\ size \in Nat /\ b.next \in Nat /\ Len(q) \in Nat
  BY LenType DEF Backlogs
<1>2. \A k \in 1..size : all[k].seq \in Nat /\ all[k].stamp \in Nat
                         /\ all[k].token \in Nat \X Nat
  BY <1>1, EntryType
<1>3. \A k \in 1..size : all[k].token = b.token
  BY DEF Run
<1>4. PICK m \in 0..size : /\ Len(r) = size - m
                           /\ \A i \in 1..(size - m) : r[i] = all[m + i]
                           /\ \A i \in 1..size : all[i].seq <= floor <=> i <= m
  BY DEF TailAbove
<1>5. \A i \in 1..Len(q) : q[i].stamp \in Nat
  BY FrameType
<1>6. ASSUME NEW i \in 1..Len(q), q[i].durable
      PROVE  /\ q[i].seq \in Nat
             /\ q[i].token = b.token => /\ q[i].seq < b.next
                                        /\ \A k \in 1..size : q[i].seq < all[k].seq <=>
                                                              q[i].stamp < all[k].stamp
             /\ q[i].token # b.token => \A k \in 1..size : q[i].stamp < all[k].stamp
  <2>1. q[i] \in Entries
    BY <1>6, FrameType
  <2>2. Recorded(q[i], b, n, ep, ser)
    BY <1>6 DEF Regular, Traced
  <2> QED BY <2>1, <2>2 DEF Recorded, Entries
<1>7. ASSUME resumes, NEW i \in 1..Len(q), q[i].durable,
             \A j \in 1..Len(q) : q[j].durable => j <= i
      PROVE  \A j \in 1..Len(q) : q[j].durable => q[j].stamp <= q[i].stamp
  BY <1>1, <1>5, <1>7 DEF Regular, Ascending
<1>8. all = << >> <=> size = 0
  BY <1>1
<1>9. size # 0 => Last(all) = all[size] /\ all[size].seq = b.next - 1
  BY <1>1, <1>8 DEF Last
<1>10. NoEvent.token = << >>
  BY DEF NoEvent
<1>11. size # 0 => b.token # << >>
  <2>1. size # 0 => 1 \in 1..size
    BY <1>1
  <2> QED BY <1>2, <1>3, <2>1, TokenIsNotEmpty
<1> HIDE DEF size, all
<1>12. /\ size = 0 \/ seen.token # b.token \/ (size # 0 /\ seen.seq > all[size].seq) => floor = -1
       /\ size # 0 /\ seen.token = b.token /\ ~ (seen.seq > all[size].seq) => floor = seen.seq
  BY <1>8, <1>9 DEF Floor, all
<1>13. \A k \in 1..Len(r) : m + k \in 1..size /\ r[k] = all[m + k] /\ ~ (m + k <= m)
  BY <1>1, <1>4
<1>14. CASE floor = -1
  <2>1. m = 0
    <3>1. m # 0 => 1 \in 1..size /\ 1 <= m
      BY <1>1, <1>4
    <3>2. ASSUME NEW k \in 1..size PROVE ~ (all[k].seq <= -1)
      <4>1. all[k].seq \in Nat
        BY <1>2
      <4> QED BY <4>1
    <3> QED BY <1>4, <1>14, <3>1, <3>2
  <2>2. Resumes(q, b, r, m)
    BY <1>4, <2>1 DEF Resumes, size, all
  <2>3. ASSUME resumes, NEW i \in 1..Len(q), q[i].durable, NEW k \in 1..Len(r)
        PROVE  q[i].stamp < r[k].stamp
    <3>1. PICK l \in 1..Len(q) :
            seen = q[l] /\ q[l].durable /\ \A j \in 1..Len(q) : q[j].durable => j <= l
      BY <2>3 DEF LastSeen
    <3>2. size # 0
      BY <1>1, <1>13
    <3>3. ~ (seen.token = b.token /\ seen.seq > all[size].seq)
      BY <1>1, <1>6, <1>9, <3>1, <3>2
    <3>4. seen.token # b.token
      <4>1. floor # seen.seq
        BY <1>14
      <4> QED BY <1>12, <3>2, <3>3, <4>1
    <3>5. q[l].stamp < r[k].stamp
      BY <1>6, <1>13, <3>1, <3>4
    <3>6. q[i].stamp <= q[l].stamp
      BY <1>7, <2>3, <3>1
    <3>7. r[k].stamp \in Nat
      <4>1. m + k \in 1..size /\ r[k] = all[m + k]
        BY <1>13
      <4> QED BY <1>2, <4>1
    <3>8. q[i].stamp \in Nat /\ q[l].stamp \in Nat
      BY <1>5, <2>3, <3>1
    <3> QED BY ONLY <3>5, <3>6, <3>7, <3>8
  <2> QED BY <2>2, <2>3 DEF Older
<1>15. CASE floor # -1
  <2>1. size # 0 /\ seen.token = b.token /\ floor = seen.seq
    BY <1>12, <1>15
  <2>2. seen # NoEvent
    BY <1>10, <1>11, <2>1
  <2>3. PICK l \in 1..Len(q) :
          seen = q[l] /\ q[l].durable /\ \A j \in 1..Len(q) : q[j].durable => j <= l
    BY <2>2 DEF LastSeen
  <2>4. resumes
    BY <2>2 DEF LastSeen
  <2>5. \A k \in 1..size : q[l].seq < all[k].seq <=> q[l].stamp < all[k].stamp
    BY <1>6, <2>1, <2>3
  <2>6. q[l].seq \in Nat /\ q[l].stamp \in Nat
    BY <1>5, <1>6, <2>3
  <2>7. \A k \in 1..size : k <= m <=> ~ (q[l].stamp < all[k].stamp)
    BY SMTT(30), <1>2, <1>4, <2>1, <2>3, <2>5, <2>6
  <2>8. ASSUME NEW k \in 1..m PROVE \E j \in 1..Len(q) : q[j] = all[k]
    <3>1. k \in 1..size
      BY <1>1, <1>4
    <3>2. all[k].stamp <= q[l].stamp
      BY <1>2, <1>4, <2>6, <2>7, <3>1
    <3>3. \E j \in 1..l : q[j] = all[k]
      BY <2>3, <2>4, <3>1, <3>2 DEF Regular, Complete, size, all
    <3> QED BY <1>1, <3>3
  <2>9. Resumes(q, b, r, m)
    BY <1>4, <2>8 DEF Resumes, size, all
  <2>10. ASSUME NEW i \in 1..Len(q), q[i].durable, NEW k \in 1..Len(r)
         PROVE  q[i].stamp < r[k].stamp
    <3>1. q[l].stamp < all[m + k].stamp /\ r[k] = all[m + k] /\ all[m + k].stamp \in Nat
      BY <1>2, <1>4, <1>13, <2>7
    <3>2. q[i].stamp <= q[l].stamp
      BY <1>7, <2>3, <2>4, <2>10
    <3> QED BY SMTT(30), <1>5, <2>6, <3>1, <3>2
  <2> QED BY <2>9, <2>10 DEF Older
<1> QED BY <1>14, <1>15
\* How the line moves with its connection.
LEMMA LineType ==
  ASSUME NEW q \in Seq(Frames), NEW x \in Connections
  PROVE  /\ x.batch \in Seq(Frames) /\ x.pending \in Seq(Frames)
         /\ q \o x.batch \in Seq(Frames) /\ LineOf(q, x) \in Seq(Frames)
<1>1. x.batch \in Seq(Frames) /\ x.pending \in Seq(Frames)
  BY EntriesAreFrames DEF Connections
<1>2. q \o x.batch \in Seq(Frames)
  BY <1>1, ConcatProperties
<1> QED BY <1>1, <1>2, ConcatProperties DEF LineOf

LEMMA ConcatPrefix ==
  ASSUME NEW q \in Seq(Frames), NEW r \in Seq(Frames)
  PROVE  Prefix(q, q \o r)
<1>1. Len(q) \in Nat /\ Len(r) \in Nat
  BY LenType
<1>2. \A i \in 1..Len(q) : (q \o r)[i] = q[i]
  BY ConcatIs
<1>3. Len(q \o r) = Len(q) + Len(r)
  BY ConcatIs
<1> QED BY <1>1, <1>2, <1>3 DEF Prefix

LEMMA PrefixOfPrefix ==
  ASSUME NEW p \in Seq(Frames), NEW q \in Seq(Frames), NEW r \in Seq(Frames),
         Prefix(p, q), Prefix(q, r)
  PROVE  Prefix(p, r)
<1>1. Len(p) \in Nat /\ Len(q) \in Nat /\ Len(r) \in Nat
  BY LenType
<1> QED BY <1>1 DEF Prefix

LEMMA LinePrefix ==
  ASSUME NEW q \in Seq(Frames), NEW x \in Connections
  PROVE  Prefix(q, LineOf(q, x)) /\ Prefix(q \o x.batch, LineOf(q, x))
<1>1. /\ x.batch \in Seq(Frames) /\ x.pending \in Seq(Frames)
      /\ q \o x.batch \in Seq(Frames) /\ LineOf(q, x) \in Seq(Frames)
  BY LineType
<1>2. Prefix(q, q \o x.batch) /\ Prefix(q \o x.batch, LineOf(q, x))
  BY <1>1, ConcatPrefix DEF LineOf
<1> QED BY <1>1, <1>2, PrefixOfPrefix

\* A frame that is written passes from the batch to the client.
LEMMA HeadMoves ==
  ASSUME NEW q \in Seq(Frames), NEW r \in Seq(Frames), r # << >>
  PROVE  /\ Append(q, Head(r)) \in Seq(Frames)
         /\ Append(q, Head(r)) \o Tail(r) = q \o r
<1> DEFINE p == Append(q, Head(r))
           u == Tail(r)
<1>1. /\ Head(r) \in Frames /\ u \in Seq(Frames) /\ Len(u) = Len(r) - 1
      /\ \A i \in 1..Len(u) : u[i] = r[i + 1]
  BY HeadTailProperties
<1>2. Head(r) = r[1]
  OBVIOUS
<1>3. Len(q) \in Nat /\ Len(r) \in Nat /\ Len(r) # 0
  BY LenType, EmptySeq
<1>4. /\ p \in Seq(Frames) /\ Len(p) = Len(q) + 1
      /\ \A i \in 1..(Len(q) + 1) : p[i] = IF i = Len(q) + 1 THEN r[1] ELSE q[i]
  BY <1>1, <1>2
<1> HIDE DEF p, u
<1>5. /\ p \o u \in Seq(Frames) /\ Len(p \o u) = Len(q) + Len(r)
      /\ \A i \in 1..(Len(q) + Len(r)) :
           (p \o u)[i] = IF i <= Len(q) + 1 THEN p[i] ELSE u[i - (Len(q) + 1)]
  <2>1. /\ p \o u \in Seq(Frames) /\ Len(p \o u) = Len(p) + Len(u)
        /\ \A i \in 1..(Len(p) + Len(u)) :
             (p \o u)[i] = IF i <= Len(p) THEN p[i] ELSE u[i - Len(p)]
    BY <1>1, <1>4, ConcatProperties
  <2>2. Len(p) + Len(u) = Len(q) + Len(r)
    BY <1>1, <1>3, <1>4
  <2> QED BY <1>4, <2>1, <2>2
<1>6. /\ q \o r \in Seq(Frames) /\ Len(q \o r) = Len(q) + Len(r)
      /\ \A i \in 1..(Len(q) + Len(r)) :
           (q \o r)[i] = IF i <= Len(q) THEN q[i] ELSE r[i - Len(q)]
  BY ConcatProperties
<1>7. ASSUME NEW i \in 1..(Len(q) + Len(r)) PROVE (p \o u)[i] = (q \o r)[i]
  <2>1. CASE i <= Len(q)
    BY <1>3, <1>4, <1>5, <1>6, <2>1
  <2>2. CASE i = Len(q) + 1
    BY <1>3, <1>4, <1>5, <1>6, <2>2
  <2>3. CASE i > Len(q) + 1
    <3>1. PICK j \in 1..Len(u) : j = i - (Len(q) + 1) /\ j + 1 = i - Len(q)
      <4>1. i - (Len(q) + 1) \in 1..Len(u) /\ (i - (Len(q) + 1)) + 1 = i - Len(q)
        BY <1>1, <1>3, <2>3
      <4> QED BY <4>1
    <3>2. ~ (i <= Len(q)) /\ ~ (i <= Len(q) + 1)
      BY <1>3, <2>3
    <3>3. (p \o u)[i] = u[j]
      BY <1>5, <3>1, <3>2
    <3>4. (q \o r)[i] = r[j + 1]
      BY <1>6, <3>1, <3>2
    <3> QED BY <1>1, <3>3, <3>4
  <2>4. i <= Len(q) \/ i = Len(q) + 1 \/ i > Len(q) + 1
    BY <1>3
  <2> QED BY <2>1, <2>2, <2>3, <2>4
<1>8. p \o u = q \o r
  BY <1>5, <1>6, <1>7, SeqEqual
<1> QED BY <1>4, <1>8 DEF p, u

LEMMA LineReached ==
  ASSUME NEW q \in Seq(Frames), NEW x \in Connections, x.batch # << >>
  PROVE  /\ Append(q, Head(x.batch)) \in Seq(Frames)
         /\ Append(q, Head(x.batch)) \o Tail(x.batch) = q \o x.batch
         /\ Prefix(Append(q, Head(x.batch)), LineOf(q, x))
<1>1. x.batch \in Seq(Frames) /\ LineOf(q, x) \in Seq(Frames)
  BY LineType
<1>2. /\ Append(q, Head(x.batch)) \in Seq(Frames)
      /\ Append(q, Head(x.batch)) \o Tail(x.batch) = q \o x.batch
  BY <1>1, HeadMoves
<1>3. Prefix(Append(q, Head(x.batch)), q \o x.batch)
  <2>1. Tail(x.batch) \in Seq(Frames)
    BY <1>1, HeadTailProperties
  <2> QED BY <1>2, <2>1, ConcatPrefix
<1>4. Prefix(q \o x.batch, LineOf(q, x)) /\ q \o x.batch \in Seq(Frames)
  BY LinePrefix, LineType
<1> QED BY <1>1, <1>2, <1>3, <1>4, PrefixOfPrefix

LEMMA LineWritten ==
  ASSUME NEW q \in Seq(Frames), NEW x \in Connections, x.batch # << >>,
         NEW y, y.batch = Tail(x.batch), y.pending = x.pending
  PROVE  LineOf(Append(q, Head(x.batch)), y) = LineOf(q, x)
BY LineReached DEF LineOf

\* An event that is queued ends the line.
LEMMA LineQueued ==
  ASSUME NEW q \in Seq(Frames), NEW x \in Connections, NEW e \in Entries,
         NEW y, y.batch = x.batch, y.pending = Append(x.pending, e)
  PROVE  Longer(LineOf(q, y), LineOf(q, x), e)
<1> DEFINE r == q \o x.batch
           s == x.pending
           t == Append(s, e)
<1>1. r \in Seq(Frames) /\ s \in Seq(Frames) /\ e \in Frames
  BY LineType DEF Frames
<1>2. LineOf(q, y) = r \o t /\ LineOf(q, x) = r \o s
  BY DEF LineOf
<1> HIDE DEF r, s
<1>3. /\ t \in Seq(Frames) /\ Len(t) = Len(s) + 1
      /\ \A i \in 1..(Len(s) + 1) : t[i] = IF i = Len(s) + 1 THEN e ELSE s[i]
  BY <1>1
<1>4. Len(r) \in Nat /\ Len(s) \in Nat
  BY <1>1, LenType
<1> HIDE DEF t
<1>5. /\ Len(r \o t) = Len(r) + Len(t)
      /\ \A i \in 1..(Len(r) + Len(t)) :
           (r \o t)[i] = IF i <= Len(r) THEN r[i] ELSE t[i - Len(r)]
  BY <1>1, <1>3, ConcatProperties
<1>6. /\ Len(r \o s) = Len(r) + Len(s)
      /\ \A i \in 1..(Len(r) + Len(s)) :
           (r \o s)[i] = IF i <= Len(r) THEN r[i] ELSE s[i - Len(r)]
  BY <1>1, ConcatProperties
<1>7. Len(r \o t) = Len(r \o s) + 1
  BY <1>3, <1>4, <1>5, <1>6
<1>8. (r \o t)[Len(r \o s) + 1] = e
  <2>1. Len(r \o s) + 1 \in 1..(Len(r) + Len(t)) /\ ~ (Len(r \o s) + 1 <= Len(r))
    BY <1>3, <1>4, <1>6
  <2>2. Len(r \o s) + 1 - Len(r) = Len(s) + 1 /\ Len(s) + 1 \in 1..(Len(s) + 1)
    BY <1>4, <1>6
  <2> QED BY <1>3, <1>5, <2>1, <2>2
<1>9. ASSUME NEW i \in 1..Len(r \o s) PROVE (r \o t)[i] = (r \o s)[i]
  <2>1. i \in 1..(Len(r) + Len(s)) /\ i \in 1..(Len(r) + Len(t))
    BY <1>3, <1>4, <1>6
  <2>2. CASE i <= Len(r)
    BY <1>5, <1>6, <2>1, <2>2
  <2>3. CASE ~ (i <= Len(r))
    <3>1. i - Len(r) \in 1..Len(s) /\ i - Len(r) # Len(s) + 1 /\ i - Len(r) \in 1..(Len(s) + 1)
      BY <1>4, <2>1, <2>3
    <3> QED BY <1>3, <1>5, <1>6, <2>1, <2>3, <3>1
  <2> QED BY <2>2, <2>3
<1> QED BY <1>2, <1>7, <1>8, <1>9 DEF Longer

\* What is dropped from the queue is cut off the line.
LEMMA LineCut ==
  ASSUME NEW q \in Seq(Frames), NEW x \in Connections,
         NEW y, y.batch = x.batch, y.pending = << >>
  PROVE  Prefix(LineOf(q, y), LineOf(q, x))
<1>1. q \o x.batch \in Seq(Frames) /\ Prefix(q \o x.batch, LineOf(q, x))
  BY LineType, LinePrefix
<1>2. LineOf(q, y) = q \o x.batch
  BY <1>1, ConcatEmptySeq DEF LineOf
<1> QED BY <1>1, <1>2

LEMMA Associates ==
  \A q, r, s \in Seq(Frames) : (q \o r) \o s = q \o (r \o s)
BY ConcatAssociative

LEMMA JoinedConcat ==
  ASSUME NEW q \in Seq(Frames), NEW r \in Seq(Frames)
  PROVE  Joined(q \o r, q, r)
<1>1. Len(q \o r) = Len(q) + Len(r)
  BY ConcatIs
<1>2. \A i \in 1..Len(q) : (q \o r)[i] = q[i]
  BY ConcatIs
<1>3. \A i \in 1..Len(r) : (q \o r)[Len(q) + i] = r[i]
  BY ConcatIs
<1> QED BY <1>1, <1>2, <1>3 DEF Joined

\* A new connection brings its replay ...
LEMMA LineOpened ==
  ASSUME NEW q \in Seq(Frames), NEW y \in Connections, y.batch = << >>
  PROVE  Joined(LineOf(q, y), q, y.pending)
<1>1. y.pending \in Seq(Frames)
  BY LineType
<1>2. LineOf(q, y) = q \o y.pending
  BY ConcatEmptySeq DEF LineOf
<1> QED BY <1>1, <1>2, JoinedConcat

\* ... and a drain adds the progress behind the queued events.
LEMMA LineDrained ==
  ASSUME NEW q \in Seq(Frames), NEW x \in Connections, x.batch = << >>,
         NEW r \in Seq(Frames), NEW y, y.batch = x.pending \o r, y.pending = << >>
  PROVE  Joined(LineOf(q, y), LineOf(q, x), r)
<1>1. x.pending \in Seq(Frames) /\ LineOf(q, x) \in Seq(Frames)
  BY LineType
<1>2. LineOf(q, x) = q \o x.pending
  BY ConcatEmptySeq DEF LineOf
<1>3. q \o (x.pending \o r) \in Seq(Frames) /\ q \o (x.pending \o r) = LineOf(q, x) \o r
  <2>1. x.pending \o r \in Seq(Frames)
    BY <1>1, ConcatProperties
  <2>2. q \o (x.pending \o r) \in Seq(Frames)
    BY <2>1, ConcatProperties
  <2>3. (q \o x.pending) \o r = q \o (x.pending \o r)
    BY <1>1, Associates
  <2> QED BY <1>2, <2>2, <2>3
<1>4. LineOf(q, y) = LineOf(q, x) \o r
  BY <1>3, ConcatEmptySeq DEF LineOf
<1> QED BY <1>1, <1>4, JoinedConcat
-----------------------------------------------------------------------------
(* Served: what a connection that is read owes its client.                 *)

Served(q, x, b, n, ep, ser) ==
  /\ Regular(q, b, n, ep, ser, x.client \in Resuming)
  /\ ~ x.dropped => Whole(q, b)
  /\ \A t \in Keys(x.transient) : Precedes(q, t, x.transient.val[t])

LEMMA ServedLater ==
  ASSUME NEW q \in Seq(Frames), NEW x, NEW b \in Backlogs, NEW n \in Nat, NEW m \in Nat, n <= m,
         NEW ep \in Nat, NEW ser \in Nat, NEW ser2 \in Nat, ser <= ser2,
         NEW c, c = b \/ c = NoBacklog,
         Served(q, x, b, n, ep, ser)
  PROVE  Served(q, x, c, m, ep, ser2)
<1>1. Regular(q, c, m, ep, ser2, x.client \in Resuming)
  BY RegularLater DEF Served
<1>2. Whole(q, b) => Whole(q, c)
  <2>1. CASE c = b
    BY <2>1
  <2>2. CASE c = NoBacklog
    <3>1. Len(NoBacklog.entries) = 0
      BY DEF NoBacklog
    <3>2. 1..Len(c.entries) = {}
      BY <2>2, <3>1
    <3> QED BY <3>2 DEF Whole
  <2> QED BY <2>1, <2>2
<1> QED BY <1>1, <1>2 DEF Served

\* A backlog that is new has nothing in common with what was received before.
NewBacklog(b, ep, ser) == b.entries = << >> /\ b.token = <<ep, ser>>

LEMMA RegularNew ==
  ASSUME NEW q \in Seq(Frames), NEW n \in Nat, NEW b,
         NEW ep \in Nat, NEW ser \in Nat, NEW resumes, NEW c, NewBacklog(c, ep, ser),
         Regular(q, b, n, ep, ser, resumes)
  PROVE  Regular(q, c, n, ep, ser + 1, resumes) /\ Whole(q, c)
<1>1. Len(c.entries) = 0
  BY DEF NewBacklog
<1>2. ASSUME NEW i \in 1..Len(q), q[i].durable PROVE Recorded(q[i], c, n, ep, ser + 1)
  <2> DEFINE f == q[i]
  <2>1. f.token \in Nat \X Nat
    <3>1. f \in Entries
      BY <1>2, FrameType
    <3> QED BY <3>1 DEF Entries
  <2>2. f.stamp <= n /\ Drawn(f.token, ep, ser)
    BY <1>2 DEF Regular, Traced, Recorded
  <2>3. Drawn(f.token, ep, ser + 1)
    BY <2>1, <2>2 DEF Drawn
  <2>4. f.token # c.token
    BY <2>2 DEF Drawn, NewBacklog
  <2> QED BY <1>1, <2>2, <2>3, <2>4 DEF Recorded
<1>3. Traced(q, c, n, ep, ser + 1)
  BY <1>2 DEF Traced
<1> QED BY <1>1, <1>3 DEF Regular, Complete, Whole

LEMMA ServedNew ==
  ASSUME NEW q \in Seq(Frames), NEW x, NEW n \in Nat, NEW b,
         NEW ep \in Nat, NEW ser \in Nat, NEW c, NewBacklog(c, ep, ser),
         Served(q, x, b, n, ep, ser)
  PROVE  Served(q, x, c, n, ep, ser + 1)
BY RegularNew DEF Served

\* An event is offered to the connection.
Takes(x, e, y) ==
  /\ SameReader(x, y)
  /\ \/ x.dropped /\ y = x
     \/ y.dropped /\ y.pending = << >> /\ Keys(y.transient) = {}
     \/ /\ ~ x.dropped /\ ~ y.dropped
        /\ y.pending = Append(x.pending, e)
        /\ y.transient = Drop(x.transient, {e.task}, 0)

LEMMA OfferedTakes ==
  ASSUME NEW x \in Connections, Steady(x), NEW e \in Entries, x.pc \in Open3,
         NEW y, y = Offered(x, e)
  PROVE  Takes(x, e, y)
<1>1. /\ SameReader(x, y)
      /\ \/ x.dropped /\ y = x
         \/ y.dropped /\ y.pending = << >> /\ Keys(y.transient) = {}
         \/ /\ ~ x.dropped /\ ~ y.dropped
            /\ y.pending = Append(x.pending, e)
            /\ y.transient = Drop(x.transient, {e.task}, 0)
  BY OfferedIs
<1> QED BY <1>1 DEF Takes

LEMMA ServedOffered ==
  ASSUME NEW g \in Seq(Frames), NEW x \in Connections, Steady(x), NEW y \in Connections,
         NEW b, NEW e, NEW c, NEW n \in Nat, NEW ep, NEW ser, Grows(b, e, c, n, ep, ser),
         Takes(x, e, y), Served(LineOf(g, x), x, b, n, ep, ser)
  PROVE  Served(LineOf(g, y), y, c, n + 1, ep, ser)
<1> DEFINE q == LineOf(g, x)
           p == LineOf(g, y)
           resumes == x.client \in Resuming
<1>1. q \in Seq(Frames) /\ p \in Seq(Frames)
  BY LineType
<1>2. e \in Entries /\ e.durable = TRUE
  BY DEF Grows, Entries
<1>3. y.client = x.client /\ y.batch = x.batch
  BY DEF Takes, SameReader
<1>4. Regular(q, b, n, ep, ser, resumes)
  BY DEF Served
<1> HIDE DEF q, p
<1>5. Regular(q, c, n + 1, ep, ser, resumes)
  BY <1>1, <1>4, RegularGrows
<1>6. CASE x.dropped /\ y = x
  BY <1>5, <1>6 DEF Served, q, p
<1>7. CASE y.dropped /\ y.pending = << >> /\ Keys(y.transient) = {}
  <2>1. Prefix(p, q)
    BY <1>3, <1>7, LineCut DEF q, p
  <2>2. Regular(p, c, n + 1, ep, ser, resumes)
    BY <1>1, <1>5, <2>1, PrefixRegular
  <2> QED BY <1>3, <1>7, <2>2 DEF Served, p
<1>8. CASE /\ ~ x.dropped /\ ~ y.dropped
           /\ y.pending = Append(x.pending, e)
           /\ y.transient = Drop(x.transient, {e.task}, 0)
  <2>1. Longer(p, q, e)
    BY <1>2, <1>3, <1>8, LineQueued DEF p, q
  <2>2. Whole(q, b)
    BY <1>8 DEF Served, q
  <2>3. Regular(p, c, n + 1, ep, ser, resumes) /\ Whole(p, c)
    BY <1>1, <1>4, <2>1, <2>2, RegularAppend
  <2>4. ASSUME NEW t \in Keys(y.transient)
        PROVE  Precedes(p, t, y.transient.val[t])
    <3>1. x.transient \in Dict(Tasks, Nat) /\ InOrder(x.transient) /\ IsFiniteSet(Tasks)
      BY ConnectionType, StreamAssumption DEF Steady
    <3>2. Keys(y.transient) = Keys(x.transient) \ {e.task}
      BY <1>8, <3>1, DropOrder
    <3>3. t \in Keys(x.transient) /\ t # e.task /\ t \in Tasks
      BY <3>1, <3>2, KeysFinite
    <3>4. y.transient.val[t] = x.transient.val[t]
      BY <1>8, <3>1, <3>3 DEF Drop, Dict
    <3>5. Precedes(q, t, x.transient.val[t])
      BY <3>3 DEF Served, q
    <3>6. Precedes(p, t, x.transient.val[t])
      <4>1. Len(q) \in Nat
        BY <1>1, LenType
      <4> QED BY <2>1, <3>3, <3>5, <4>1 DEF Longer, Precedes
    <3> QED BY <3>4, <3>6
  <2> QED BY <1>3, <2>3, <2>4 DEF Served, p
<1> QED BY <1>6, <1>7, <1>8 DEF Takes

\* Progress is reported to the connection.
LEMMA ServedReported ==
  ASSUME NEW g \in Seq(Frames), NEW x \in Connections, Steady(x), ~ x.dropped,
         NEW t \in Tasks, NEW n \in Nat, NEW b, NEW ep, NEW ser,
         NEW y, y = Reported(x, t, n), Served(LineOf(g, x), x, b, n, ep, ser)
  PROVE  Served(LineOf(g, y), y, b, n, ep, ser)
<1> DEFINE q == LineOf(g, x)
           p == LineOf(g, y)
           resumes == x.client \in Resuming
<1>1. /\ y \in Connections /\ SameReader(x, y)
      /\ \/ y.dropped /\ y.pending = << >> /\ Keys(y.transient) = {}
         \/ /\ ~ y.dropped /\ y.pending = x.pending
            /\ y.transient = Put(x.transient, t, n)
  BY ReportedIs
<1>2. q \in Seq(Frames) /\ p \in Seq(Frames)
  BY <1>1, LineType
<1>3. y.client = x.client /\ y.batch = x.batch
  BY <1>1 DEF SameReader
<1>4. Regular(q, b, n, ep, ser, resumes)
  BY DEF Served
<1>5. CASE y.dropped /\ y.pending = << >> /\ Keys(y.transient) = {}
  <2>1. Prefix(p, q)
    BY <1>3, <1>5, LineCut
  <2>2. Regular(p, b, n, ep, ser, resumes)
    BY <1>2, <1>4, <2>1, PrefixRegular
  <2> QED BY <1>3, <1>5, <2>2 DEF Served
<1>6. CASE /\ ~ y.dropped /\ y.pending = x.pending
           /\ y.transient = Put(x.transient, t, n)
  <2>1. p = q
    BY <1>3, <1>6 DEF LineOf
  <2>2. ASSUME NEW u \in Keys(y.transient)
        PROVE  Precedes(q, u, y.transient.val[u])
    <3>1. x.transient \in Dict(Tasks, Nat) /\ InOrder(x.transient) /\ IsFiniteSet(Tasks)
      BY ConnectionType, StreamAssumption DEF Steady
    <3>2. Keys(y.transient) = Keys(x.transient) \cup {t}
      BY <1>6, <3>1, PutOrder
    <3>3. y.transient.val = [x.transient.val EXCEPT ![t] = n]
      BY <1>6, <3>1, PutType
    <3>4. x.transient.val \in [Tasks -> Nat]
      BY <3>1 DEF Dict
    <3>5. CASE u = t
      <4>1. y.transient.val[u] = n
        BY <3>3, <3>4, <3>5
      <4>2. Precedes(q, u, n)
        BY <1>4 DEF Regular, Traced, Recorded, Precedes
      <4> QED BY <4>1, <4>2
    <3>6. CASE u # t
      <4>1. u \in Keys(x.transient) /\ y.transient.val[u] = x.transient.val[u]
        <5>1. u \in Keys(x.transient)
          BY <3>2, <3>6
        <5>2. u \in Tasks
          BY <3>1, <5>1, KeysFinite
        <5> QED BY <3>3, <3>4, <3>6, <5>1, <5>2
      <4> QED BY <4>1 DEF Served
    <3> QED BY <3>5, <3>6
  <2> QED BY <1>3, <1>4, <1>6, <2>1, <2>2 DEF Served
<1> QED BY <1>1, <1>5, <1>6

\* A drain brings the progress behind the queued events.
LEMMA ServedTaken ==
  ASSUME NEW g \in Seq(Frames), NEW x \in Connections, x.batch = << >>,
         NEW r \in Seq(Frames), NEW b, NEW n, NEW ep, NEW ser,
         \A i \in 1..Len(r) : \E t \in Keys(x.transient) :
           r[i] = [task |-> t, stamp |-> x.transient.val[t], durable |-> FALSE],
         NEW y \in Connections, y.client = x.client, y.dropped = x.dropped,
         y.pending = << >>, y.batch = x.pending \o r, Keys(y.transient) = {},
         Served(LineOf(g, x), x, b, n, ep, ser)
  PROVE  Served(LineOf(g, y), y, b, n, ep, ser)
<1> DEFINE q == LineOf(g, x)
           p == LineOf(g, y)
<1>1. q \in Seq(Frames) /\ p \in Seq(Frames)
  BY LineType
<1>2. Joined(p, q, r)
  BY LineDrained
<1>3. Regular(q, b, n, ep, ser, x.client \in Resuming)
  BY DEF Served
<1>4. ASSUME NEW i \in 1..Len(r)
      PROVE  ~ r[i].durable /\ Precedes(q, r[i].task, r[i].stamp)
  <2>1. PICK t \in Keys(x.transient) :
          r[i] = [task |-> t, stamp |-> x.transient.val[t], durable |-> FALSE]
    OBVIOUS
  <2>2. r[i].task = t /\ r[i].stamp = x.transient.val[t] /\ ~ r[i].durable
    BY <2>1
  <2>3. Precedes(q, t, x.transient.val[t])
    BY DEF Served
  <2> QED BY <2>2, <2>3
<1> HIDE DEF q, p
<1>5. /\ Regular(p, b, n, ep, ser, x.client \in Resuming)
      /\ Whole(q, b) => Whole(p, b)
  BY <1>1, <1>2, <1>3, <1>4, RegularProgress
<1> QED BY <1>5 DEF Served, q, p

\* A frame is written.
LEMMA ServedWritten ==
  ASSUME NEW g \in Seq(Frames), NEW x \in Connections, x.batch # << >>,
         NEW b, NEW n, NEW ep, NEW ser,
         NEW y, y.client = x.client, y.dropped = x.dropped, y.pending = x.pending,
         y.batch = Tail(x.batch), y.transient = x.transient,
         Served(LineOf(g, x), x, b, n, ep, ser)
  PROVE  Served(LineOf(Append(g, Head(x.batch)), y), y, b, n, ep, ser)
<1>1. LineOf(Append(g, Head(x.batch)), y) = LineOf(g, x)
  BY LineWritten
<1> QED BY <1>1 DEF Served
-----------------------------------------------------------------------------
(* The second part of the inductive invariant, and what a step does to it. *)

Owed(c) == Served(Line(c), sub[c], backlogs.val[Session(c)], captured, epoch, serial)
Received(cl) ==
  Regular(got[cl], backlogs.val[SessionOf[cl]], captured, epoch, serial, cl \in Resuming)
Lines ==
  /\ \A cl \in Clients : Received(cl)
  /\ \A c \in Conns : sub[c].live => Owed(c)

LEMMA StateTypes ==
  ASSUME Shape
  PROVE  /\ captured \in Nat /\ epoch \in Nat /\ serial \in Nat
         /\ \A cl \in Clients : got[cl] \in Seq(Frames) /\ SessionOf[cl] \in Sessions
         /\ \A s \in Sessions : backlogs.val[s] \in Backlogs
         /\ \A c \in Conns : /\ sub[c] \in Connections /\ Steady(sub[c])
                             /\ sub[c].client \in Clients /\ Session(c) \in Sessions
                             /\ Line(c) \in Seq(Frames)
                             /\ sub[c].live => c \in Subscribed /\ sub[c].pc \in Open3
<1>1. TypeOK /\ Readers
  BY DEF Shape
<1>2. captured \in Nat /\ epoch \in Nat /\ serial \in Nat
  BY <1>1 DEF TypeOK
<1>3. ASSUME NEW cl \in Clients PROVE got[cl] \in Seq(Frames) /\ SessionOf[cl] \in Sessions
  BY <1>1, StreamAssumption DEF TypeOK
<1>4. \A s \in Sessions : backlogs.val[s] \in Backlogs
  BY <1>1 DEF TypeOK, Dict
<1>5. ASSUME NEW c \in Conns
      PROVE  /\ sub[c] \in Connections /\ Steady(sub[c])
             /\ sub[c].client \in Clients /\ Session(c) \in Sessions
             /\ Line(c) \in Seq(Frames)
             /\ sub[c].live => c \in Subscribed /\ sub[c].pc \in Open3
  <2>1. sub[c] \in Connections /\ Steady(sub[c])
    BY <1>1 DEF TypeOK, Readers
  <2>2. sub[c].client \in Clients
    BY <2>1, ConnectionType
  <2>3. Line(c) \in Seq(Frames)
    BY <1>3, <2>1, <2>2, LineType DEF Line
  <2>4. sub[c].live => c \in Subscribed /\ sub[c].pc \in Open3
    BY <2>1 DEF Steady, Subscribed, Open3
  <2> QED BY <1>3, <2>1, <2>2, <2>3, <2>4 DEF Session
<1> QED BY <1>2, <1>3, <1>4, <1>5

\* A capture adds its event to the backlog of its session, which it may begin.
LEMMA CaptureGrows ==
  ASSUME Shape, NEW t \in Tasks, NEW size \in Sizes, Capture(t, size)
  PROVE  LET s == SessionOf[t]
             e == Event(s, t, Stored(size))
         IN  /\ Grows(Before(s), e, backlogs'.val[s], captured, epoch, serial')
             /\ \/ serial' = serial /\ Before(s) = backlogs.val[s]
                \/ serial' = serial + 1 /\ NewBacklog(Before(s), epoch, serial)
<1> DEFINE s == SessionOf[t]
           e == Event(s, t, Stored(size))
           b == Extended(s, t, Stored(size))
<1>1. /\ s \in Sessions /\ Stored(size) \in Nat /\ Stored(size) <= BacklogBytes
      /\ backlogs'.val[s] = b /\ serial' = NextSerial(s)
  BY CaptureStore
<1>2. TypeOK /\ Stores
  BY DEF Shape
<1>3. /\ b \in Backlogs /\ Sound(b, captured + 1, epoch, NextSerial(s))
      /\ b.token = Before(s).token /\ b.next = Before(s).next + 1
      /\ b.entries[Len(b.entries)] = e
      /\ GrownBy(Before(s).entries, e, b.entries)
  BY <1>1, <1>2, ExtendedIs
<1>4. /\ Before(s) \in Backlogs /\ Run(Before(s), captured)
      /\ Drawn(Before(s).token, epoch, NextSerial(s))
  BY <1>1, <1>2, BeforeIs
<1>5. e \in Entries
  BY <1>1, <1>2, EventIs
<1>6. e.token = Before(s).token /\ e.seq = Before(s).next /\ e.stamp = captured + 1
  BY DEF Event
<1>7. Len(b.entries) \in Nat \ {0}
  <2>1. b.entries \in Seq(Entries) /\ b.entries # << >>
    BY <1>3 DEF Backlogs, Sound
  <2> QED BY <2>1, EmptySeq
<1>8. Run(b, captured + 1) /\ Drawn(b.token, epoch, NextSerial(s))
  BY <1>3 DEF Sound
<1> HIDE DEF s, e, b
<1>9. Grows(Before(s), e, backlogs'.val[s], captured, epoch, serial')
  BY <1>1, <1>3, <1>4, <1>5, <1>6, <1>7, <1>8 DEF Grows
<1>10. /\ s \in Keys(Pruned) <=> Pruned.pos[s] # 0
       /\ s \in Keys(Pruned) => Pruned.val[s] = backlogs.val[s]
  BY <1>1, <1>2, PrunedStore
<1>11. CASE Pruned.pos[s] # 0
  BY <1>1, <1>9, <1>10, <1>11 DEF Before, NextSerial, s, e
<1>12. CASE Pruned.pos[s] = 0
  <2>1. Before(s) = [NoBacklog EXCEPT !.token = NewToken(s)] /\ serial' = serial + 1
    BY <1>1, <1>12 DEF Before, NextSerial
  <2>2. NewBacklog(Before(s), epoch, serial)
    BY <2>1 DEF NewBacklog, NoBacklog, NewToken
  <2> QED BY <1>9, <2>1, <2>2 DEF s, e
<1> QED BY <1>11, <1>12

LEMMA CaptureLines ==
  ASSUME Shape, Lines, NEW t \in Tasks, NEW size \in Sizes, Capture(t, size)
  PROVE  Lines'
<1> DEFINE s == SessionOf[t]
           e == Event(s, t, Stored(size))
           b == Before(s)
<1>1. /\ captured \in Nat /\ epoch \in Nat /\ serial \in Nat
      /\ \A cl \in Clients : got[cl] \in Seq(Frames) /\ SessionOf[cl] \in Sessions
      /\ \A r \in Sessions : backlogs.val[r] \in Backlogs
      /\ \A c \in Conns : /\ sub[c] \in Connections /\ Steady(sub[c])
                          /\ sub[c].client \in Clients /\ Session(c) \in Sessions
                          /\ Line(c) \in Seq(Frames)
                          /\ sub[c].live => c \in Subscribed /\ sub[c].pc \in Open3
  BY StateTypes
<1>2. /\ Grows(b, e, backlogs'.val[s], captured, epoch, serial')
      /\ \/ serial' = serial /\ b = backlogs.val[s]
         \/ serial' = serial + 1 /\ NewBacklog(b, epoch, serial)
  BY CaptureGrows
<1>3. /\ \A r \in Sessions \ {s} :
           backlogs'.val[r] = backlogs.val[r] \/ backlogs'.val[r] = NoBacklog
      /\ captured' = captured + 1 /\ epoch' = epoch
  BY CaptureStore
<1>4. /\ \A c \in Conns : sub'[c] = IF c \in Subscribed /\ Session(c) = s
                                    THEN Offered(sub[c], e) ELSE sub[c]
      /\ sub' \in [Conns -> Connections] /\ got' = got /\ e \in Entries
  BY CaptureReaders
<1> HIDE DEF s, e, b
<1>5. serial' \in Nat /\ serial <= serial'
  BY <1>1, <1>2
<1>6. ASSUME NEW cl \in Clients PROVE Received(cl)'
  <2>1. Regular(got[cl], backlogs.val[SessionOf[cl]], captured, epoch, serial, cl \in Resuming)
    BY DEF Lines, Received
  <2>2. CASE SessionOf[cl] = s
    <3>1. Regular(got[cl], b, captured, epoch, serial', cl \in Resuming)
      BY <1>1, <1>2, <2>1, <2>2, RegularNew
    <3>2. Regular(got[cl], backlogs'.val[s], captured + 1, epoch, serial', cl \in Resuming)
      BY <1>1, <1>2, <3>1, RegularGrows
    <3> QED BY <1>3, <1>4, <2>2, <3>2 DEF Received
  <2>3. CASE SessionOf[cl] # s
    <3>1. /\ backlogs'.val[SessionOf[cl]] = backlogs.val[SessionOf[cl]]
             \/ backlogs'.val[SessionOf[cl]] = NoBacklog
          /\ captured <= captured + 1 /\ captured + 1 \in Nat
      BY <1>1, <1>3, <2>3
    <3>2. PICK c : c = backlogs'.val[SessionOf[cl]]
      OBVIOUS
    <3>3. c = backlogs.val[SessionOf[cl]] \/ c = NoBacklog
      BY <3>1, <3>2
    <3>4. Regular(got[cl], c, captured + 1, epoch, serial', cl \in Resuming)
      BY <1>1, <1>5, <2>1, <3>1, <3>3, RegularSameEpoch
    <3> QED BY <1>3, <1>4, <3>2, <3>4 DEF Received
  <2> QED BY <2>2, <2>3
<1>7. ASSUME NEW c \in Conns, sub'[c].live PROVE Owed(c)'
  <2> DEFINE x == sub[c]
             y == sub'[c]
             g == got[sub[c].client]
  <2>1. x \in Connections /\ Steady(x) /\ y \in Connections /\ g \in Seq(Frames)
    BY <1>1, <1>4
  <2>2. CASE c \in Subscribed /\ Session(c) = s
    <3>1. x.pc \in Open3
      BY <2>2 DEF Subscribed, Open3
    <3>2. y = Offered(x, e)
      BY <1>4, <2>2
    <3>3. Takes(x, e, y)
      BY <1>4, <2>1, <3>1, <3>2, OfferedTakes
    <3>4. x.live
      BY <1>7, <3>3 DEF Takes, SameReader
    <3>5. Served(LineOf(g, x), x, backlogs.val[s], captured, epoch, serial)
      BY <2>2, <3>4 DEF Lines, Owed, Line
    <3>6. Served(LineOf(g, x), x, b, captured, epoch, serial')
      <4>1. LineOf(g, x) \in Seq(Frames)
        BY <2>1, LineType
      <4> QED BY <1>1, <1>2, <3>5, <4>1, ServedNew
    <3>7. Served(LineOf(g, y), y, backlogs'.val[s], captured + 1, epoch, serial')
      BY <1>1, <1>2, <2>1, <3>3, <3>6, ServedOffered
    <3>8. y.client = x.client
      BY <3>3 DEF Takes, SameReader
    <3> QED BY <1>3, <1>4, <2>2, <3>7, <3>8 DEF Owed, Line, Session
  <2>3. CASE ~ (c \in Subscribed /\ Session(c) = s)
    <3>1. y = x
      BY <1>4, <2>3
    <3>2. x.live
      BY <1>7, <3>1
    <3>3. Session(c) # s /\ Session(c) \in Sessions
      BY <1>1, <2>3, <3>2
    <3>4. Served(Line(c), x, backlogs.val[Session(c)], captured, epoch, serial)
      BY <3>2 DEF Lines, Owed
    <3>5. /\ backlogs'.val[Session(c)] = backlogs.val[Session(c)]
             \/ backlogs'.val[Session(c)] = NoBacklog
          /\ captured <= captured + 1 /\ captured + 1 \in Nat
      BY <1>1, <1>3, <3>3
    <3>6. Served(Line(c), x, backlogs'.val[Session(c)], captured + 1, epoch, serial')
      BY <1>1, <1>5, <3>4, <3>5, ServedLater
    <3> QED BY <1>3, <1>4, <3>1, <3>6 DEF Owed, Line, Session
  <2> QED BY <2>2, <2>3
<1> QED BY <1>6, <1>7 DEF Lines

LEMMA PublishLines ==
  ASSUME Shape, Lines, NEW t \in Tasks, Publish(t)
  PROVE  Lines'
<1>1. /\ \A c \in Conns :
           sub'[c] = IF c \notin Subscribed \/ Session(c) # SessionOf[t] \/ sub[c].dropped
                     THEN sub[c] ELSE Reported(sub[c], t, captured)
      /\ UNCHANGED <<backlogs, serial, epoch, captured, got>>
  BY PublishReaders DEF storeVars
<1>2. \A cl \in Clients : Received(cl)'
  BY <1>1 DEF Lines, Received
<1>3. ASSUME NEW c \in Conns, sub'[c].live PROVE Owed(c)'
  <2>1. /\ sub[c] \in Connections /\ Steady(sub[c]) /\ captured \in Nat
        /\ got[sub[c].client] \in Seq(Frames)
    BY StateTypes
  <2>2. CASE sub'[c] = sub[c]
    BY <1>1, <1>3, <2>2 DEF Lines, Owed, Line, Session
  <2>3. CASE sub'[c] = Reported(sub[c], t, captured) /\ ~ sub[c].dropped
    <3>1. PICK y : y = Reported(sub[c], t, captured)
      OBVIOUS
    <3>2. SameReader(sub[c], y)
      BY <2>1, <2>3, <3>1, ReportedIs
    <3>3. Owed(c) /\ y.client = sub[c].client
      BY <1>3, <2>3, <3>1, <3>2 DEF SameReader, Lines
    <3>4. Served(LineOf(got[sub[c].client], y), y, backlogs.val[Session(c)],
                 captured, epoch, serial)
      BY <2>1, <2>3, <3>1, <3>3, ServedReported DEF Owed, Line
    <3> QED BY <1>1, <2>3, <3>1, <3>3, <3>4 DEF Owed, Line, Session
  <2> QED BY <1>1, <2>2, <2>3
<1> QED BY <1>2, <1>3 DEF Lines

\* A step of one connection that leaves the store alone.
LEMMA OneReaderLines ==
  ASSUME Shape, Lines, StoreSame, NEW c \in Conns,
         \A d \in Conns : d # c => sub'[d] = sub[d],
         \A cl \in Clients : \/ got'[cl] = got[cl]
                             \/ sub[c].live /\ cl = sub[c].client /\ Received(cl)',
         sub'[c].live => Owed(c)'
  PROVE  Lines'
<1>1. UNCHANGED <<backlogs, serial, epoch, captured>>
  BY DEF StoreSame, storeVars
<1>2. ASSUME NEW cl \in Clients PROVE Received(cl)'
  <2>1. CASE got'[cl] = got[cl]
    BY <1>1, <2>1 DEF Lines, Received
  <2> QED BY <2>1
<1>3. ASSUME NEW d \in Conns, sub'[d].live PROVE Owed(d)'
  <2>1. CASE d # c
    <3>1. sub'[d] = sub[d] /\ sub[d].live /\ sub[d].client \in Clients
      BY <1>3, <2>1, StateTypes
    <3>2. ~ (sub[c].live /\ sub[d].client = sub[c].client)
      BY <2>1, <3>1 DEF Shape, Readers, OneReader
    <3>3. got'[sub[d].client] = got[sub[d].client]
      BY <3>1, <3>2
    <3> QED BY <1>1, <3>1, <3>3 DEF Lines, Owed, Line, Session
  <2> QED BY <1>3, <2>1
<1> QED BY <1>2, <1>3 DEF Lines

\* A connection that nobody reads any more owes nothing.
LEMMA ShutLines ==
  ASSUME Shape, Lines, StoreSame, NEW c \in Conns, got' = got,
         \A d \in Conns : d # c => sub'[d] = sub[d], ~ sub'[c].live
  PROVE  Lines'
BY OneReaderLines

LEMMA TurnLines ==
  ASSUME Shape, Lines, NEW c \in Conns, sub[c].pc \in {"opening", "waiting"}, Turn(c),
         StoreSame, got' = got
  PROVE  Lines'
<1> DEFINE x == sub[c]
           y == sub'[c]
           g == got[sub[c].client]
<1>1. /\ Shape' /\ Frames1(c) \in Seq(Frames) /\ x.batch = << >>
      /\ \/ \A d \in Conns : sub'[d] = IF d = c THEN Shut(sub[c]) ELSE sub[d]
         \/ \A d \in Conns : sub'[d] = IF d = c THEN Taken(sub[c], Frames1(c)) ELSE sub[d]
  BY TurnIs
<1>2. x \in Connections /\ Steady(x) /\ g \in Seq(Frames) /\ x.client \in Clients
  BY StateTypes
<1>3. y \in Connections
  BY <1>1 DEF Shape, TypeOK
<1>4. CASE y = Shut(x) /\ \A d \in Conns : d # c => sub'[d] = sub[d]
  <2>1. ~ y.live
    BY <1>2, <1>4, ShutIs DEF Off
  <2> QED BY <1>4, <2>1, ShutLines
<1>5. CASE y = Taken(x, Frames1(c)) /\ \A d \in Conns : d # c => sub'[d] = sub[d]
  <2>1. /\ y.client = x.client /\ y.live = x.live /\ y.dropped = x.dropped
        /\ y.pending = << >> /\ y.batch = x.pending \o Progress(c) /\ Keys(y.transient) = {}
    <3>1. Frames1(c) = x.pending \o Progress(c)
      BY DEF Frames1
    <3> HIDE DEF x, y
    <3>2. PICK q \in Seq(Frames) : q = Frames1(c)
      BY <1>1
    <3>3. y = Taken(x, q)
      BY <1>5, <3>2
    <3> QED BY ZenonT(60), <1>2, <3>1, <3>2, <3>3, TakenIs
  <2>2. /\ Progress(c) \in Seq(Frames)
        /\ \A i \in 1..Len(Progress(c)) : \E t \in Keys(x.transient) :
             Progress(c)[i] = [task |-> t, stamp |-> x.transient.val[t], durable |-> FALSE]
    BY <1>2, ProgressIs
  <2>3. ASSUME y.live PROVE Owed(c)'
    <3>1. Served(LineOf(g, x), x, backlogs.val[Session(c)], captured, epoch, serial)
      BY <2>1, <2>3 DEF Lines, Owed, Line
    <3>2. Served(LineOf(g, y), y, backlogs.val[Session(c)], captured, epoch, serial)
      BY <1>1, <1>2, <1>3, <2>1, <2>2, <3>1, ServedTaken
    <3> QED BY <2>1, <3>2 DEF Owed, Line, Session, StoreSame, storeVars
  <2> QED BY <1>5, <2>3, OneReaderLines
<1> QED BY <1>1, <1>4, <1>5

\* A frame that reaches the client was the next one of its line.
LEMMA ReachedIsNext ==
  ASSUME Shape, Lines, StoreSame, NEW c \in Conns, sub[c].pc = "writing",
         Reaches(c) \/ UNCHANGED got
  PROVE  /\ sub[c].batch # << >>
         /\ \A cl \in Clients : \/ got'[cl] = got[cl]
                                \/ sub[c].live /\ cl = sub[c].client /\ Received(cl)'
         /\ Reaches(c) /\ sub[c].live =>
              got'[sub[c].client] = Append(got[sub[c].client], Head(sub[c].batch))
<1> DEFINE x == sub[c]
<1>1. /\ x.batch # << >>
      /\ \A cl \in Clients :
           \/ got'[cl] = got[cl]
           \/ x.live /\ cl = x.client /\ got'[cl] = Append(got[cl], Head(x.batch))
      /\ Reaches(c) /\ x.live => got'[x.client] = Append(got[x.client], Head(x.batch))
  BY ReachesIs
<1>2. x \in Connections /\ x.client \in Clients /\ got[x.client] \in Seq(Frames)
      /\ Line(c) \in Seq(Frames)
  BY StateTypes
<1>3. ASSUME NEW cl \in Clients, x.live, cl = x.client,
             got'[cl] = Append(got[cl], Head(x.batch))
      PROVE  Received(cl)'
  <2>1. Served(Line(c), x, backlogs.val[SessionOf[cl]], captured, epoch, serial)
    BY <1>3 DEF Lines, Owed, Session
  <2>2. got'[cl] \in Seq(Frames) /\ Prefix(got'[cl], Line(c))
    BY <1>1, <1>2, <1>3, LineReached DEF Line
  <2>3. Regular(Line(c), backlogs.val[SessionOf[cl]], captured, epoch, serial, cl \in Resuming)
    BY <1>3, <2>1 DEF Served
  <2>4. Regular(got'[cl], backlogs.val[SessionOf[cl]], captured, epoch, serial, cl \in Resuming)
    BY <1>2, <2>2, <2>3, PrefixRegular
  <2> QED BY <2>4 DEF Received, StoreSame, storeVars
<1> QED BY <1>1, <1>3

LEMMA WriteLines ==
  ASSUME Shape, Lines, NEW c \in Conns, Write(c)
  PROVE  Lines'
<1> DEFINE x == sub[c]
           y == sub'[c]
           g == got[sub[c].client]
<1>1. /\ StoreSame /\ Reaches(c) /\ x.pc = "writing"
      /\ \/ \A d \in Conns : sub'[d] = IF d = c THEN Shut(sub[c]) ELSE sub[d]
         \/ \A d \in Conns : sub'[d] = IF d = c THEN Wrote(sub[c]) ELSE sub[d]
  BY WriteIs
<1>2. /\ x.batch # << >>
      /\ \A cl \in Clients : \/ got'[cl] = got[cl]
                             \/ sub[c].live /\ cl = sub[c].client /\ Received(cl)'
      /\ x.live => got'[x.client] = Append(g, Head(x.batch))
  BY <1>1, ReachedIsNext
<1>3. x \in Connections /\ Steady(x) /\ g \in Seq(Frames) /\ x.client \in Clients
  BY StateTypes
<1>4. CASE y = Shut(x) /\ \A d \in Conns : d # c => sub'[d] = sub[d]
  <2>1. ~ y.live
    BY <1>3, <1>4, ShutIs DEF Off
  <2> QED BY <1>1, <1>2, <1>4, <2>1, OneReaderLines
<1>5. CASE y = Wrote(x) /\ \A d \in Conns : d # c => sub'[d] = sub[d]
  <2>1. /\ y.client = x.client /\ y.live = x.live /\ y.dropped = x.dropped
        /\ y.pending = x.pending /\ y.batch = Tail(x.batch)
        /\ y.transient = x.transient
    BY <1>1, <1>3, <1>5, WroteIs
  <2>2. ASSUME y.live PROVE Owed(c)'
    <3>1. Served(LineOf(g, x), x, backlogs.val[Session(c)], captured, epoch, serial)
      BY <2>1, <2>2 DEF Lines, Owed, Line
    <3>2. Served(LineOf(Append(g, Head(x.batch)), y), y, backlogs.val[Session(c)],
                 captured, epoch, serial)
      BY <1>2, <1>3, <2>1, <3>1, ServedWritten
    <3>3. got'[y.client] = Append(g, Head(x.batch))
      BY <1>2, <2>1, <2>2
    <3> QED BY <1>1, <2>1, <3>2, <3>3 DEF Owed, Line, Session, StoreSame, storeVars
  <2> QED BY <1>1, <1>2, <1>5, <2>2, OneReaderLines
<1> QED BY <1>1, <1>4, <1>5

LEMMA WriteFailsLines ==
  ASSUME Shape, Lines, NEW c \in Conns, WriteFails(c)
  PROVE  Lines'
<1>1. /\ StoreSame /\ sub[c].pc = "writing"
      /\ Reaches(c) \/ UNCHANGED got
      /\ \A d \in Conns : sub'[d] = IF d = c THEN Shut(sub[c]) ELSE sub[d]
  BY WriteFailsIs
<1>2. \A cl \in Clients : \/ got'[cl] = got[cl]
                          \/ sub[c].live /\ cl = sub[c].client /\ Received(cl)'
  BY <1>1, ReachedIsNext
<1>3. ~ sub'[c].live
  BY <1>1, StateTypes, ShutIs DEF Off
<1> QED BY <1>1, <1>2, <1>3, OneReaderLines

LEMMA LostLines ==
  ASSUME Shape, Lines, NEW c \in Conns, ConnectionLost(c)
  PROVE  Lines'
<1>1. /\ StoreSame /\ got' = got
      /\ \A d \in Conns : sub'[d] = IF d = c THEN Shut(sub[c]) ELSE sub[d]
  BY LostIs
<1>2. ~ sub'[c].live
  BY <1>1, StateTypes, ShutIs DEF Off
<1> QED BY <1>1, <1>2, ShutLines

LEMMA LeaveLines ==
  ASSUME Shape, Lines, NEW c \in Conns, Leave(c)
  PROVE  Lines'
<1>1. /\ StoreSame /\ got' = got /\ ~ sub'[c].live
      /\ \A d \in Conns : d # c => sub'[d] = sub[d]
  BY LeaveIs
<1> QED BY <1>1, ShutLines

LEMMA SameLines ==
  ASSUME Lines, UNCHANGED <<backlogs, captured, epoch, serial, sub, got>>
  PROVE  Lines'
BY DEF Lines, Owed, Received, Line, Session

LEMMA AgeLines == ASSUME Shape, Lines, Age PROVE Lines'
BY AgeIs, SameLines

\* A restart forgets the backlogs and moves on to tokens that are new.
LEMMA RestartLines ==
  ASSUME Shape, Lines, Restart
  PROVE  Lines'
<1>1. /\ UNCHANGED <<captured, got>> /\ epoch' = epoch + 1 /\ serial' = 0
      /\ \A s \in Sessions : backlogs'.val[s] = NoBacklog
      /\ \A c \in Conns : ~ sub'[c].live
  BY RestartIs
<1>2. /\ captured \in Nat /\ epoch \in Nat /\ serial \in Nat
      /\ \A cl \in Clients : got[cl] \in Seq(Frames) /\ SessionOf[cl] \in Sessions
      /\ \A r \in Sessions : backlogs.val[r] \in Backlogs
  BY StateTypes
<1>3. ASSUME NEW cl \in Clients PROVE Received(cl)'
  <2>1. PICK e2 \in Nat : e2 = epoch + 1 /\ epoch < e2
    BY <1>2
  <2>2. Regular(got[cl], backlogs.val[SessionOf[cl]], captured, epoch, serial, cl \in Resuming)
    BY DEF Lines, Received
  <2>3. \A q \in Seq(Frames), b \in Backlogs :
          Regular(q, b, captured, epoch, serial, cl \in Resuming)
            => Regular(q, NoBacklog, captured, e2, 0, cl \in Resuming)
    <3>1. captured \in Nat /\ epoch \in Nat /\ serial \in Nat /\ 0 \in Nat /\ captured <= captured
      BY <1>2
    <3> QED BY <2>1, <3>1, RegularLater
  <2>4. Regular(got[cl], NoBacklog, captured, e2, 0, cl \in Resuming)
    BY <1>2, <2>2, <2>3
  <2> QED BY <1>1, <1>2, <2>1, <2>4 DEF Received
<1> QED BY <1>1, <1>3 DEF Lines

LEMMA InitLines == ASSUME Init PROVE Lines
<1>1. \A cl \in Clients : got[cl] = << >> /\ Len(got[cl]) = 0
  BY DEF Init
<1>2. \A cl \in Clients : Received(cl)
  BY <1>1 DEF Received, Regular, FreshIn, Traced, Ascending, Complete
<1>3. \A c \in Conns : ~ sub[c].live
  BY UnusedIs DEF Init, Off
<1> QED BY <1>2, <1>3 DEF Lines

\* The backlogs that a reader finds are those that are retained.
LEMMA PrunedBacklogs ==
  ASSUME Shape, NEW s \in Sessions
  PROVE  LET b == Pruned.val[s]
         IN  /\ b \in Backlogs /\ Run(b, captured)
             /\ b = backlogs.val[s] \/ b = NoBacklog
             /\ b.entries # << >> => /\ b.entries[Len(b.entries)].seq = b.next - 1
                                     /\ Drawn(b.token, epoch, serial)
<1> DEFINE b == Pruned.val[s]
<1>1. /\ Pruned \in Dict(Sessions, Backlogs)
      /\ SoundStore(Pruned, captured, epoch, serial)
      /\ b = IF s \in Keys(Pruned) THEN backlogs.val[s] ELSE NoBacklog
  BY PrunedStore DEF Shape
<1>2. b \in Backlogs
  BY <1>1 DEF Dict
<1>3. CASE s \in Keys(Pruned)
  <2>1. Sound(b, captured, epoch, serial)
    BY <1>1, <1>3 DEF SoundStore
  <2> QED BY <1>1, <1>2, <1>3, <2>1 DEF Sound
<1>4. CASE s \notin Keys(Pruned)
  <2>1. b = NoBacklog
    BY <1>1, <1>4
  <2>2. b.entries = << >> /\ Len(b.entries) = 0
    BY <2>1 DEF NoBacklog
  <2> QED BY <1>2, <2>1, <2>2 DEF Run
<1> QED BY <1>3, <1>4

LEMMA SeenIs ==
  ASSUME NEW cl \in Clients, got[cl] \in Seq(Frames)
  PROVE  LastSeen(got[cl], Seen(cl), cl \in Resuming)
<1>1. CASE cl \in Resuming
  <2>1. Seen(cl) = LastEvent(cl)
    BY <1>1 DEF Seen
  <2>2. CASE LastEvent(cl) = NoEvent /\ \A i \in 1..Len(got[cl]) : ~ got[cl][i].durable
    BY <2>1, <2>2 DEF LastSeen
  <2>3. CASE \E i \in 1..Len(got[cl]) :
               /\ LastEvent(cl) = got[cl][i] /\ got[cl][i].durable
               /\ \A j \in 1..Len(got[cl]) : got[cl][j].durable => j <= i
    BY <1>1, <2>1, <2>3 DEF LastSeen
  <2> QED BY <2>2, <2>3, LastEventIs
<1>2. CASE cl \notin Resuming
  BY <1>2 DEF Seen, LastSeen
<1> QED BY <1>1, <1>2

\* The replay of a client that subscribes completes its line.
LEMMA ReplayServes ==
  ASSUME Shape, Lines, NEW cl \in Clients, NEW y \in Connections, y.client = cl,
         y.pending = Replay(cl), y.batch = << >>, Keys(y.transient) = {}
  PROVE  Served(LineOf(got[cl], y), y, Pruned.val[SessionOf[cl]], captured, epoch, serial)
<1> DEFINE q == got[cl]
           p == LineOf(got[cl], y)
           b == Pruned.val[SessionOf[cl]]
           r == Replay(cl)
           resumes == cl \in Resuming
<1>1. /\ captured \in Nat /\ epoch \in Nat /\ serial \in Nat
      /\ q \in Seq(Frames) /\ SessionOf[cl] \in Sessions
      /\ backlogs.val[SessionOf[cl]] \in Backlogs
  BY StateTypes
<1>2. /\ b \in Backlogs /\ Run(b, captured)
      /\ b = backlogs.val[SessionOf[cl]] \/ b = NoBacklog
      /\ b.entries # << >> => /\ b.entries[Len(b.entries)].seq = b.next - 1
                              /\ Drawn(b.token, epoch, serial)
  BY <1>1, PrunedBacklogs
<1>3. PICK floor \in Int : /\ floor = Floor(b, Seen(cl))
                           /\ r \in Seq(Entries) /\ TailAbove(b.entries, floor, r)
  BY ReplayIs
<1>4. Regular(q, backlogs.val[SessionOf[cl]], captured, epoch, serial, resumes)
  BY DEF Lines, Received
<1>5. Seen(cl).seq \in Nat /\ LastSeen(q, Seen(cl), resumes)
  BY <1>1, SeenType, SeenIs
<1>6. p \in Seq(Frames) /\ Joined(p, q, r)
  BY <1>1, LineType, LineOpened
<1> HIDE DEF q, p, b, r, resumes
<1>7. Regular(q, b, captured, epoch, serial, resumes)
  <2>1. captured <= captured /\ serial <= serial
    BY <1>1
  <2> QED BY <1>1, <1>2, <1>4, <2>1, RegularSameEpoch DEF q
<1>8. (\E m : Resumes(q, b, r, m)) /\ (resumes => Older(q, r))
  BY <1>1, <1>2, <1>3, <1>5, <1>7, FloorResumes DEF q
<1>9. Drawn(b.token, epoch, serial) \/ r = << >>
  <2>1. CASE b.entries = << >>
    <3>1. Len(b.entries) = 0
      BY <2>1
    <3>2. PICK m \in 0..0 : Len(r) = 0 - m
      BY <1>3, <3>1 DEF TailAbove
    <3>3. m = 0
      OBVIOUS
    <3>4. Len(r) = 0
      BY <3>2, <3>3
    <3> QED BY <1>3, <3>4, EmptySeq
  <2> QED BY <1>2, <2>1
<1>10. Regular(p, b, captured, epoch, serial, resumes) /\ Whole(p, b)
  <2>1. PICK m : Resumes(q, b, r, m)
    BY <1>8
  <2> QED BY <1>1, <1>2, <1>3, <1>6, <1>7, <1>8, <1>9, <2>1, RegularResumes DEF q
<1> QED BY <1>10 DEF Served, p, b, resumes

LEMMA SubscribeLines ==
  ASSUME Shape, Lines, NEW cl \in Clients, Subscribe(cl)
  PROVE  Lines'
<1>1. /\ backlogs' = Pruned /\ UNCHANGED <<serial, epoch, captured, got>>
      /\ \A c \in Conns : sub[c].live => sub[c].client # cl
      /\ UNCHANGED sub \/ \E c, y : Joins(cl, c, y)
  BY SubscribeIs
<1>2. /\ captured \in Nat /\ epoch \in Nat /\ serial \in Nat
      /\ captured <= captured /\ serial <= serial
      /\ \A k \in Clients : got[k] \in Seq(Frames) /\ SessionOf[k] \in Sessions
      /\ \A r \in Sessions : backlogs.val[r] \in Backlogs
      /\ \A c \in Conns : Session(c) \in Sessions /\ Line(c) \in Seq(Frames)
  BY StateTypes
<1>3. \A s \in Sessions : backlogs'.val[s] = backlogs.val[s] \/ backlogs'.val[s] = NoBacklog
  BY <1>1, PrunedBacklogs
<1>4. ASSUME NEW k \in Clients PROVE Received(k)'
  <2>1. Regular(got[k], backlogs.val[SessionOf[k]], captured, epoch, serial, k \in Resuming)
    BY DEF Lines, Received
  <2>2. PICK c : c = backlogs'.val[SessionOf[k]]
    OBVIOUS
  <2>3. c = backlogs.val[SessionOf[k]] \/ c = NoBacklog
    BY <1>2, <1>3, <2>2
  <2>4. Regular(got[k], c, captured, epoch, serial, k \in Resuming)
    BY <1>2, <2>1, <2>3, RegularSameEpoch
  <2> QED BY <1>1, <2>2, <2>4 DEF Received
<1>5. ASSUME NEW d \in Conns, sub[d].live, sub'[d] = sub[d] PROVE Owed(d)'
  <2>1. Served(Line(d), sub[d], backlogs.val[Session(d)], captured, epoch, serial)
    BY <1>5 DEF Lines, Owed
  <2>2. PICK c : c = backlogs'.val[Session(d)]
    OBVIOUS
  <2>3. c = backlogs.val[Session(d)] \/ c = NoBacklog
    BY <1>2, <1>3, <2>2
  <2>4. Served(Line(d), sub[d], c, captured, epoch, serial)
    BY <1>2, <2>1, <2>3, ServedLater
  <2>5. Line(d)' = Line(d) /\ Session(d)' = Session(d)
    BY <1>1, <1>5 DEF Line, Session
  <2>6. backlogs'.val[Session(d)'] = c
    BY <2>2, <2>5
  <2> QED BY <1>1, <1>5, <2>4, <2>5, <2>6 DEF Owed
<1>6. CASE UNCHANGED sub
  BY <1>4, <1>5, <1>6 DEF Lines
<1>7. ASSUME NEW c, NEW y, Joins(cl, c, y) PROVE Lines'
  <2>1. /\ c \in Conns /\ y \in Connections /\ y.client = cl
        /\ y.pending = Replay(cl) /\ y.batch = << >> /\ Keys(y.transient) = {}
        /\ \A d \in Conns : sub'[d] = IF d = c THEN y ELSE sub[d]
    BY <1>7 DEF Joins
  <2>2. Served(LineOf(got[cl], y), y, Pruned.val[SessionOf[cl]], captured, epoch, serial)
    BY <2>1, ReplayServes
  <2>3. Owed(c)'
    BY <1>1, <2>1, <2>2 DEF Owed, Line, Session
  <2>4. ASSUME NEW d \in Conns, sub'[d].live PROVE Owed(d)'
    BY <1>5, <2>1, <2>3, <2>4
  <2> QED BY <1>4, <2>4 DEF Lines
<1> QED BY <1>1, <1>6, <1>7

LEMMA NextLines == ASSUME Shape, Lines, [Next]_vars PROVE Lines'
<1>1. ASSUME NEW t \in Tasks, Publish(t) PROVE Lines'
  BY <1>1, PublishLines
<1>2. ASSUME NEW t \in Tasks, NEW size \in Sizes, Capture(t, size) PROVE Lines'
  BY <1>2, CaptureLines
<1>3. ASSUME NEW cl \in Clients, Subscribe(cl) PROVE Lines'
  BY <1>3, SubscribeLines
<1>4. ASSUME NEW c \in Conns, Open(c) \/ Wake(c) PROVE Lines'
  <2>1. /\ sub[c].pc \in {"opening", "waiting"} /\ Turn(c) /\ StoreSame /\ got' = got
    BY <1>4 DEF Open, Wake, StoreSame
  <2> QED BY <2>1, TurnLines
<1>5. ASSUME NEW c \in Conns, Write(c) PROVE Lines'
  BY <1>5, WriteLines
<1>6. ASSUME NEW c \in Conns, WriteFails(c) PROVE Lines'
  BY <1>6, WriteFailsLines
<1>7. ASSUME NEW c \in Conns, Leave(c) PROVE Lines'
  BY <1>7, LeaveLines
<1>8. ASSUME NEW c \in Conns, ConnectionLost(c) PROVE Lines'
  BY <1>8, LostLines
<1>9. ASSUME Age PROVE Lines'
  BY <1>9, AgeLines
<1>10. ASSUME Restart PROVE Lines'
  BY <1>10, RestartLines
<1>11. ASSUME UNCHANGED vars PROVE Lines'
  BY <1>11, SameLines DEF vars, storeVars
<1> QED BY <1>1, <1>2, <1>3, <1>4, <1>5, <1>6, <1>7, <1>8, <1>9, <1>10, <1>11
        DEF Next, Serve

\* What a client has received, what waits in its connection and what is still
\* retained remain one line of captured events, through every overflow,
\* reconnect, eviction and restart.
THEOREM StreamLines == Spec => [](Shape /\ Lines)
<1>1. Init => Shape /\ Lines
  BY InitShape, InitLines
<1>2. (Shape /\ Lines) /\ [Next]_vars => (Shape /\ Lines)'
  BY NextShape, NextLines
<1> QED BY <1>1, <1>2, PTL DEF Spec

\* No client gets a progress report of a task after a reply of that task that
\* was captured later, whatever connections carried them.
THEOREM StreamProgress == Spec => []ProgressIsFresh
<1>1. Shape /\ Lines => ProgressIsFresh
  <2> SUFFICES ASSUME Shape, Lines PROVE ProgressIsFresh
    OBVIOUS
  <2>1. ASSUME NEW cl \in Clients PROVE DOMAIN got[cl] = 1..Len(got[cl]) /\ FreshIn(got[cl])
    <3>1. got[cl] \in Seq(Frames)
      BY StateTypes
    <3> QED BY <3>1 DEF Lines, Received, Regular
  <2> QED BY <2>1 DEF ProgressIsFresh, FreshIn
<1> QED BY <1>1, StreamLines, PTL

\* A client that reconnects with the id of its last event gets the events in
\* the order of their capture, none twice, over any reconnects, expiry,
\* eviction and restarts.
THEOREM StreamOrder == Spec => []ReceivedOnceInOrder
<1>1. Shape /\ Lines => ReceivedOnceInOrder
  <2> SUFFICES ASSUME Shape, Lines PROVE ReceivedOnceInOrder
    OBVIOUS
  <2>1. ASSUME NEW cl \in Resuming PROVE DOMAIN got[cl] = 1..Len(got[cl]) /\ Ascending(got[cl])
    <3>1. cl \in Clients
      BY StreamAssumption
    <3>2. got[cl] \in Seq(Frames)
      BY <3>1, StateTypes
    <3> QED BY <3>1, <3>2 DEF Lines, Received, Regular
  <2> QED BY <2>1 DEF ReceivedOnceInOrder, Ascending
<1> QED BY <1>1, StreamLines, PTL

\* What a client that reads a connection lacks of the retained events of its
\* session is queued for it: no event is lost between replay and live.
THEOREM StreamNoGap == Spec => []NoRetainedEventSkipped
<1>1. Shape /\ Lines => NoRetainedEventSkipped
  <2> SUFFICES ASSUME Shape, Lines, NEW c \in Subscribed, sub[c].live, ~ sub[c].dropped,
                      NEW i \in DOMAIN backlogs.val[Session(c)].entries
               PROVE  backlogs.val[Session(c)].entries[i] \in ToSet(Line(c))
    BY DEF NoRetainedEventSkipped, Line, LineOf
  <2> DEFINE q == Line(c)
             b == backlogs.val[Session(c)]
  <2>1. c \in Conns
    BY DEF Subscribed
  <2>2. q \in Seq(Frames) /\ b \in Backlogs
    BY <2>1, StateTypes
  <2>3. i \in 1..Len(b.entries)
    BY <2>2 DEF Backlogs
  <2>4. Whole(q, b)
    BY <2>1 DEF Lines, Owed, Served
  <2> HIDE DEF q, b
  <2>5. PICK j \in 1..Len(q) : q[j] = b.entries[i]
    BY <2>3, <2>4 DEF Whole
  <2>6. j \in DOMAIN q
    BY <2>2, <2>5
  <2> QED BY <2>5, <2>6 DEF ToSet, q, b
<1> QED BY <1>1, StreamLines, PTL
=============================================================================
