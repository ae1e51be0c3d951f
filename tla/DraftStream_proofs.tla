------------------------- MODULE DraftStream_proofs -------------------------
(***************************************************************************)
(* Theorems about streamed drafts, for any tasks, any texts, any number of *)
(* edits and any size of the memory of ended turns.                        *)
(***************************************************************************)
EXTENDS DraftStream, SequenceTheorems, WellFoundedInduction, TLAPS

-----------------------------------------------------------------------------
(* Types.                                                                  *)

Words == Seq(Int)
Types == {"start", "text-start", "text-delta", "text-end", "finish", "message",
          "lost-delta", "lost-message"}
Chunks == [type : Types, part : Nat, text : Words]
Views == [part : Nat, open : BOOLEAN, text : Words, spoilt : BOOLEAN,
          read : SUBSET Words, told : SUBSET Words, lost : BOOLEAN]
States == [part : Nat, sent : Words, last : Words]
Edits == [left : Seq(Chunks), ok : BOOLEAN, final : BOOLEAN, text : Words]
Memories == [task : Tasks, text : Words]

DraftTypes ==
  /\ turns \in [Tasks -> States]
  /\ uuids \in [Tasks -> Nat]
  /\ over \in SUBSET Tasks /\ left \in SUBSET Tasks /\ gone \in SUBSET Tasks
  /\ flushed \in Seq(Memories)
  /\ edit \in [Tasks -> Edits]
  /\ view \in [Tasks -> Views]
  /\ messages \in Seq(Tasks \X Words)
  /\ promised \in [Tasks -> SUBSET Words]
  /\ torn \in SUBSET Tasks /\ replaced \in SUBSET Tasks
  /\ edits \in Nat

LEMMA TextIsWords ==
  ASSUME NEW text \in Texts
  PROVE  text \in Words
BY DraftAssumption DEF Words

LEMMA ChunkType ==
  ASSUME NEW type \in {"start", "text-start", "text-delta", "text-end", "finish", "message"},
         NEW part \in Nat, NEW text \in Words
  PROVE  /\ Chunk(type, part, text) \in Chunks
         /\ Chunk(type, part, text).type = type
         /\ Chunk(type, part, text).part = part
         /\ Chunk(type, part, text).text = text
BY DEF Chunk, Chunks, Types

\* What a client has read or been told of.
Known(v) == v.read \cup v.told

LEMMA TakesType ==
  ASSUME NEW v \in Views, NEW c \in Chunks
  PROVE  /\ Takes(v, c) \in Views
         /\ Known(v) \subseteq Known(Takes(v, c))
         /\ v.lost => Takes(v, c).lost
<1>1. v.text \o c.text \in Words /\ << >> \in Words
  BY DEF Views, Chunks, Words
<1>2. CASE c.type = "start"
  BY <1>1, <1>2 DEF Takes, Views, Chunks, Known
<1>3. CASE c.type = "text-start"
  BY <1>1, <1>3 DEF Takes, Views, Chunks, Known
<1>4. CASE c.type = "text-delta"
  BY <1>1, <1>4 DEF Takes, Views, Chunks, Known
<1>5. CASE c.type = "text-end"
  BY <1>5 DEF Takes, Views, Chunks, Known
<1>6. CASE c.type = "finish"
  BY <1>6 DEF Takes, Views, Chunks, Known
<1>7. CASE c.type = "message"
  BY <1>7 DEF Takes, Views, Chunks, Known
<1>8. CASE c.type = "lost-delta"
  BY <1>1, <1>8 DEF Takes, Views, Chunks, Known
<1>9. CASE c.type = "lost-message"
  BY <1>9 DEF Takes, Views, Chunks, Known
<1> QED BY <1>2, <1>3, <1>4, <1>5, <1>6, <1>7, <1>8, <1>9 DEF Chunks, Types
-----------------------------------------------------------------------------
(* A client that takes chunks one after the other.                         *)

\* What a client has made of the first n chunks of q, f[n].
Follows(q, v, n, f) ==
  \A i \in 0..n : f[i] = IF i = 0 THEN v ELSE Takes(f[i - 1], q[i])

LEMMA LeastOf ==
  ASSUME NEW S \in SUBSET Nat, S # {}
  PROVE  \E x \in S : \A y \in S : x <= y
<1>1. PICK x \in S : \A y \in S : ~ (<<y, x>> \in OpToRel(<, Nat))
  BY NatLessThanWellFounded, WFMin
<1>2. \A y \in S : ~ (y < x)
  BY <1>1 DEF OpToRel
<1> QED BY <1>2

LEMMA FollowsExists ==
  ASSUME NEW v \in Views, NEW q \in Seq(Chunks), NEW m \in 0..Len(q)
  PROVE  \E f \in [0..m -> Views] : Follows(q, v, m, f)
<1> DEFINE S == {n \in 0..Len(q) : ~ \E f \in [0..n -> Views] : Follows(q, v, n, f)}
<1> SUFFICES ASSUME S # {} PROVE FALSE
  OBVIOUS
<1>1. PICK n \in S : \A k \in S : n <= k
  <2>1. S \in SUBSET Nat
    OBVIOUS
  <2> QED BY <2>1, LeastOf
<1>2. CASE n = 0
  <2>1. [i \in 0..0 |-> v] \in [0..0 -> Views] /\ Follows(q, v, 0, [i \in 0..0 |-> v])
    BY DEF Follows
  <2> QED BY <1>1, <1>2, <2>1
<1>3. CASE n # 0
  <2>1. n - 1 \in 0..Len(q) /\ n - 1 \notin S /\ n \in 1..Len(q)
    BY <1>1, <1>3
  <2>2. PICK g \in [0..(n - 1) -> Views] : Follows(q, v, n - 1, g)
    BY <2>1
  <2> DEFINE f == [i \in 0..n |-> IF i = n THEN Takes(g[n - 1], q[n]) ELSE g[i]]
  <2>3. Takes(g[n - 1], q[n]) \in Views
    BY <2>1, <2>2, TakesType
  <2>4. f \in [0..n -> Views]
    BY <2>1, <2>2, <2>3
  <2>5. ASSUME NEW i \in 0..n
        PROVE  f[i] = IF i = 0 THEN v ELSE Takes(f[i - 1], q[i])
    <3>1. CASE i = n
      <4>1. f[i] = Takes(g[n - 1], q[n]) /\ f[i - 1] = g[n - 1] /\ i # 0
        BY <2>1, <3>1
      <4> QED BY <3>1, <4>1
    <3>2. CASE i # n
      <4>1. i \in 0..(n - 1) /\ f[i] = g[i] /\ (i # 0 => f[i - 1] = g[i - 1])
        BY <2>1, <3>2
      <4> QED BY <2>2, <4>1 DEF Follows
    <3> QED BY <3>1, <3>2
  <2> QED BY <1>1, <2>4, <2>5 DEF Follows
<1> QED BY <1>2, <1>3

LEMMA FollowsUnique ==
  ASSUME NEW q, NEW r, NEW v, NEW n \in Nat, NEW f, NEW g,
         Follows(q, v, n, f), Follows(r, v, n, g), \A i \in 1..n : q[i] = r[i]
  PROVE  \A i \in 0..n : f[i] = g[i]
<1> DEFINE S == {i \in 0..n : f[i] # g[i]}
<1> SUFFICES ASSUME S # {} PROVE FALSE
  OBVIOUS
<1>1. PICK i \in S : \A k \in S : i <= k
  <2>1. S \in SUBSET Nat
    OBVIOUS
  <2> QED BY <2>1, LeastOf
<1>2. CASE i = 0
  BY <1>1, <1>2 DEF Follows
<1>3. CASE i # 0
  <2>1. i \in 1..n /\ i - 1 \in 0..n /\ ~ (i <= i - 1)
    BY <1>1, <1>3
  <2>2. f[i - 1] = g[i - 1]
    BY <1>1, <2>1
  <2> QED BY <1>1, <2>1, <2>2 DEF Follows
<1> QED BY <1>2, <1>3

LEMMA TakesAllFollows ==
  ASSUME NEW v \in Views, NEW q \in Seq(Chunks)
  PROVE  \E f \in [0..Len(q) -> Views] :
           Follows(q, v, Len(q), f) /\ TakesAll(v, q) = f[Len(q)]
<1> DEFINE seen == CHOOSE s : s = [n \in 0..Len(q) |-> IF n = 0 THEN v ELSE Takes(s[n - 1], q[n])]
<1>1. PICK f \in [0..Len(q) -> Views] : Follows(q, v, Len(q), f)
  BY FollowsExists, Len(q) \in 0..Len(q)
<1>2. f = [n \in 0..Len(q) |-> IF n = 0 THEN v ELSE Takes(f[n - 1], q[n])]
  BY <1>1 DEF Follows
<1>3. seen = [n \in 0..Len(q) |-> IF n = 0 THEN v ELSE Takes(seen[n - 1], q[n])]
  BY <1>2
<1>4. TakesAll(v, q) = seen[Len(q)]
  BY DEF TakesAll
<1> HIDE DEF seen
<1>5. Follows(q, v, Len(q), seen)
  BY <1>3 DEF Follows
<1>6. \A i \in 0..Len(q) : f[i] = seen[i]
  BY <1>1, <1>5, FollowsUnique
<1> QED BY <1>1, <1>4, <1>6

\* A client that takes q and then r.
LEMMA TakesConcat ==
  ASSUME NEW v \in Views, NEW q \in Seq(Chunks), NEW r \in Seq(Chunks)
  PROVE  TakesAll(v, q \o r) = TakesAll(TakesAll(v, q), r)
<1>1. PICK m \in Nat, n \in Nat : m = Len(q) /\ n = Len(r)
  OBVIOUS
<1>2. /\ q \o r \in Seq(Chunks) /\ Len(q \o r) = m + n
      /\ \A i \in 1..m : (q \o r)[i] = q[i]
      /\ \A i \in 1..n : (q \o r)[m + i] = r[i]
  BY <1>1, ConcatProperties
<1>3. PICK f \in [0..(m + n) -> Views] :
        Follows(q \o r, v, m + n, f) /\ TakesAll(v, q \o r) = f[m + n]
  BY <1>2, TakesAllFollows
<1>4. PICK g \in [0..m -> Views] : Follows(q, v, m, g) /\ TakesAll(v, q) = g[m]
  BY <1>1, TakesAllFollows
<1>5. f[m] = g[m]
  <2> DEFINE qr == q \o r
  <2>1. Follows(qr, v, m + n, f) /\ \A i \in 1..m : qr[i] = q[i]
    BY <1>2, <1>3
  <2> HIDE DEF qr
  <2>2. \A i \in 0..m : i \in 0..(m + n)
    OBVIOUS
  <2>3. Follows(qr, v, m, f)
    BY <2>1, <2>2 DEF Follows
  <2>4. \A i \in 0..m : f[i] = g[i]
    BY <1>4, <2>1, <2>3, FollowsUnique
  <2> QED BY <2>4
<1>6. PICK h \in [0..n -> Views] :
        Follows(r, g[m], n, h) /\ TakesAll(g[m], r) = h[n]
  <2>1. g[m] \in Views
    BY <1>4
  <2> QED BY <1>1, <2>1, TakesAllFollows
<1> DEFINE k == [i \in 0..n |-> f[m + i]]
<1>7. Follows(r, g[m], n, k)
  <2>1. \A i \in 1..n : m + i \in 0..(m + n) /\ m + i # 0 /\ (m + i) - 1 = m + (i - 1)
    OBVIOUS
  <2>2. \A i \in 1..n : f[m + i] = Takes(f[m + (i - 1)], r[i])
    BY <1>2, <1>3, <2>1 DEF Follows
  <2>3. k[0] = g[m] /\ \A i \in 1..n : k[i] = f[m + i] /\ k[i - 1] = f[m + (i - 1)]
    BY <1>5
  <2> HIDE DEF k
  <2>4. ASSUME NEW i \in 0..n
        PROVE  k[i] = IF i = 0 THEN g[m] ELSE Takes(k[i - 1], r[i])
    <3>1. i # 0 => i \in 1..n
      OBVIOUS
    <3> QED BY <2>2, <2>3, <3>1
  <2> QED BY <2>4 DEF Follows
<1>8. k[n] = f[m + n]
  OBVIOUS
<1> HIDE DEF k
<1>9. \A i \in 0..n : h[i] = k[i]
  BY <1>6, <1>7, FollowsUnique
<1> QED BY <1>3, <1>4, <1>6, <1>8, <1>9

LEMMA TakesNone ==
  ASSUME NEW v \in Views
  PROVE  TakesAll(v, << >>) = v
<1>1. << >> \in Seq(Chunks) /\ Len(<< >>) = 0
  OBVIOUS
<1>2. PICK f \in [0..0 -> Views] : Follows(<< >>, v, 0, f) /\ TakesAll(v, << >>) = f[0]
  BY <1>1, TakesAllFollows
<1> QED BY <1>2 DEF Follows

LEMMA TakesOne ==
  ASSUME NEW v \in Views, NEW c \in Chunks
  PROVE  TakesAll(v, <<c>>) = Takes(v, c)
<1>1. <<c>> \in Seq(Chunks) /\ Len(<<c>>) = 1 /\ <<c>>[1] = c
  OBVIOUS
<1>2. PICK f \in [0..1 -> Views] : Follows(<<c>>, v, 1, f) /\ TakesAll(v, <<c>>) = f[1]
  BY <1>1, TakesAllFollows
<1>3. f[0] = v /\ f[1] = Takes(f[0], c)
  BY <1>1, <1>2 DEF Follows
<1> QED BY <1>2, <1>3

LEMMA TakesTwo ==
  ASSUME NEW v \in Views, NEW c \in Chunks, NEW d \in Chunks
  PROVE  TakesAll(v, <<c, d>>) = Takes(Takes(v, c), d)
<1>1. <<c>> \in Seq(Chunks) /\ <<d>> \in Seq(Chunks) /\ <<c>> \o <<d>> = <<c, d>>
  <2>1. <<c>> \in Seq(Chunks) /\ <<d>> \in Seq(Chunks) /\ <<c, d>> \in Seq(Chunks)
    OBVIOUS
  <2>2. Len(<<c>>) = 1 /\ Len(<<d>>) = 1 /\ Len(<<c, d>>) = 2
    OBVIOUS
  <2> DEFINE cd == <<c>> \o <<d>>
  <2>3. cd \in Seq(Chunks) /\ Len(cd) = 2 /\ cd[1] = c /\ cd[2] = d
    BY <2>1, <2>2, ConcatProperties
  <2> HIDE DEF cd
  <2>4. \A i \in 1..2 : cd[i] = <<c, d>>[i]
    BY <2>3
  <2>5. cd = <<c, d>>
    BY <2>1, <2>2, <2>3, <2>4, SeqEqual
  <2> QED BY <2>1, <2>5 DEF cd
<1>2. TakesAll(v, <<c>> \o <<d>>) = TakesAll(TakesAll(v, <<c>>), <<d>>)
  BY <1>1, TakesConcat
<1>3. TakesAll(v, <<c>>) = Takes(v, c) /\ Takes(v, c) \in Views
  BY TakesOne, TakesType
<1>4. TakesAll(Takes(v, c), <<d>>) = Takes(Takes(v, c), d)
  BY <1>3, TakesOne
<1> QED BY <1>1, <1>2, <1>3, <1>4

LEMMA TakesFirst ==
  ASSUME NEW v \in Views, NEW q \in Seq(Chunks), q # << >>
  PROVE  /\ Head(q) \in Chunks /\ Tail(q) \in Seq(Chunks)
         /\ TakesAll(Takes(v, Head(q)), Tail(q)) = TakesAll(v, q)
<1>1. Head(q) \in Chunks /\ Tail(q) \in Seq(Chunks) /\ q = <<Head(q)>> \o Tail(q)
  BY HeadTailProperties
<1>2. <<Head(q)>> \in Seq(Chunks)
  BY <1>1
<1>3. TakesAll(v, <<Head(q)>> \o Tail(q)) = TakesAll(TakesAll(v, <<Head(q)>>), Tail(q))
  BY <1>1, <1>2, TakesConcat
<1>4. TakesAll(v, <<Head(q)>>) = Takes(v, Head(q))
  BY <1>1, TakesOne
<1> QED BY <1>1, <1>3, <1>4

\* Nothing is unread, and what was lost stays lost.
LEMMA TakesAllType ==
  ASSUME NEW v \in Views, NEW q \in Seq(Chunks)
  PROVE  /\ TakesAll(v, q) \in Views
         /\ Known(v) \subseteq Known(TakesAll(v, q))
         /\ v.lost => TakesAll(v, q).lost
<1>1. PICK f \in [0..Len(q) -> Views] : Follows(q, v, Len(q), f) /\ TakesAll(v, q) = f[Len(q)]
  BY TakesAllFollows
<1> DEFINE Keeps(w) == Known(v) \subseteq Known(w) /\ (v.lost => w.lost)
           S == {i \in 0..Len(q) : ~ Keeps(f[i])}
<1>2. S = {}
  <2> SUFFICES ASSUME S # {} PROVE FALSE
    OBVIOUS
  <2>1. PICK i \in S : \A k \in S : i <= k
    <3>1. S \in SUBSET Nat
      OBVIOUS
    <3> QED BY <3>1, LeastOf
  <2>2. i # 0
    BY <1>1, <2>1 DEF Follows
  <2>3. i \in 1..Len(q) /\ i - 1 \in 0..Len(q) /\ ~ (i <= i - 1)
    BY <2>1, <2>2
  <2>4. Keeps(f[i - 1]) /\ f[i - 1] \in Views /\ q[i] \in Chunks
    BY <1>1, <2>1, <2>3
  <2>5. f[i] = Takes(f[i - 1], q[i])
    BY <1>1, <2>2, <2>3 DEF Follows
  <2> QED BY <2>1, <2>4, <2>5, TakesType
<1>3. Len(q) \in 0..Len(q)
  OBVIOUS
<1> QED BY <1>1, <1>2, <1>3
-----------------------------------------------------------------------------
(* Errors in place of text.                                                *)

LEMMA ReplacedOnes ==
  ASSUME NEW q \in Seq(Chunks)
  PROVE  /\ Replaced(q) \in Seq(Chunks) /\ Len(Replaced(q)) = Len(q)
         /\ \A i \in 1..Len(q) :
              /\ q[i] \in Chunks /\ Replaced(q)[i] \in Chunks
              /\ Replaced(q)[i].part = q[i].part /\ Replaced(q)[i].text = q[i].text
              /\ Replaced(q)[i].type = IF q[i].type = "text-delta" THEN "lost-delta"
                                       ELSE IF q[i].type = "message" THEN "lost-message"
                                       ELSE q[i].type
<1> DEFINE r == Replaced(q)
           type(c) == IF c.type = "text-delta" THEN "lost-delta"
                      ELSE IF c.type = "message" THEN "lost-message" ELSE c.type
           of(c) == [c EXCEPT !.type = type(c)]
<1>1. DOMAIN q = 1..Len(q) /\ Len(q) \in Nat
  OBVIOUS
<1>2. r = [i \in 1..Len(q) |-> of(q[i])]
  BY <1>1 DEF Replaced
<1>3. ASSUME NEW c \in Chunks
      PROVE  /\ of(c) \in Chunks /\ of(c).type = type(c)
             /\ of(c).part = c.part /\ of(c).text = c.text
  BY DEF Chunks, Types
<1> HIDE DEF r, of, type
<1>4. \A i \in 1..Len(q) : q[i] \in Chunks /\ of(q[i]) \in Chunks /\ r[i] = of(q[i])
  BY <1>1, <1>2, <1>3
<1>5. r \in Seq(Chunks) /\ Len(r) = Len(q)
  <2>1. \A i \in 1..Len(q) : of(q[i]) \in Chunks
    BY <1>4
  <2> QED BY <1>1, <1>2, <2>1
<1> QED BY <1>3, <1>4, <1>5 DEF r, type

\* What differs when errors have come in place of text: of what it was sent a
\* client has read some and been told of the rest.
AsSent(v, w) ==
  ~ v.lost => /\ ~ w.lost /\ w.open = v.open /\ w.part = v.part /\ w.text = v.text
              /\ Known(v) \subseteq Known(w)

LEMMA AsSentStep ==
  ASSUME NEW v \in Views, NEW w \in Views, AsSent(v, w), NEW c \in Chunks, NEW d \in Chunks,
         d.part = c.part, d.text = c.text,
         d.type = IF c.type = "text-delta" THEN "lost-delta"
                  ELSE IF c.type = "message" THEN "lost-message" ELSE c.type
  PROVE  AsSent(Takes(v, c), Takes(w, d))
<1> SUFFICES ASSUME ~ Takes(v, c).lost
             PROVE  /\ ~ Takes(w, d).lost /\ Takes(w, d).open = Takes(v, c).open
                    /\ Takes(w, d).part = Takes(v, c).part /\ Takes(w, d).text = Takes(v, c).text
                    /\ Known(Takes(v, c)) \subseteq Known(Takes(w, d))
  BY DEF AsSent
<1>1. /\ ~ v.lost /\ ~ w.lost /\ w.open = v.open /\ w.part = v.part /\ w.text = v.text
      /\ Known(v) \subseteq Known(w)
  BY TakesType DEF AsSent
<1>2. CASE c.type = "start"
  BY <1>1, <1>2 DEF Takes, Views, Known
<1>3. CASE c.type = "text-start"
  BY <1>1, <1>3 DEF Takes, Views, Known
<1>4. CASE c.type = "text-delta"
  BY <1>1, <1>4 DEF Takes, Views, Known
<1>5. CASE c.type = "text-end"
  BY <1>1, <1>5 DEF Takes, Views, Known
<1>6. CASE c.type = "finish"
  BY <1>1, <1>6 DEF Takes, Views, Known
<1>7. CASE c.type = "message"
  BY <1>1, <1>7 DEF Takes, Views, Known
<1>8. CASE c.type = "lost-delta"
  BY <1>1, <1>8 DEF Takes, Views, Known
<1>9. CASE c.type = "lost-message"
  BY <1>1, <1>9 DEF Takes, Views, Known
<1> QED BY <1>2, <1>3, <1>4, <1>5, <1>6, <1>7, <1>8, <1>9 DEF Chunks, Types

LEMMA ReplacedShows ==
  ASSUME NEW v \in Views, NEW q \in Seq(Chunks)
  PROVE  AsSent(TakesAll(v, q), TakesAll(v, Replaced(q)))
<1> DEFINE r == Replaced(q)
<1>1. r \in Seq(Chunks) /\ Len(r) = Len(q) /\ Len(q) \in Nat
  BY ReplacedOnes
<1>2. \A i \in 1..Len(q) :
        /\ q[i] \in Chunks /\ r[i] \in Chunks /\ r[i].part = q[i].part /\ r[i].text = q[i].text
        /\ r[i].type = IF q[i].type = "text-delta" THEN "lost-delta"
                       ELSE IF q[i].type = "message" THEN "lost-message" ELSE q[i].type
  BY ReplacedOnes
<1> HIDE DEF r
<1>3. PICK f \in [0..Len(q) -> Views] : Follows(q, v, Len(q), f) /\ TakesAll(v, q) = f[Len(q)]
  BY TakesAllFollows
<1>4. PICK g \in [0..Len(q) -> Views] : Follows(r, v, Len(q), g) /\ TakesAll(v, r) = g[Len(q)]
  BY <1>1, TakesAllFollows
<1> DEFINE S == {i \in 0..Len(q) : ~ AsSent(f[i], g[i])}
<1>5. S = {}
  <2> SUFFICES ASSUME S # {} PROVE FALSE
    OBVIOUS
  <2>1. PICK i \in S : \A k \in S : i <= k
    <3>1. S \in SUBSET Nat
      OBVIOUS
    <3> QED BY <3>1, LeastOf
  <2>2. i # 0
    <3>1. f[0] = v /\ g[0] = v
      BY <1>1, <1>3, <1>4 DEF Follows
    <3> QED BY <2>1, <3>1 DEF AsSent
  <2>3. i \in 1..Len(q) /\ i - 1 \in 0..Len(q) /\ ~ (i <= i - 1)
    BY <1>1, <2>1, <2>2
  <2>4. AsSent(f[i - 1], g[i - 1]) /\ f[i - 1] \in Views /\ g[i - 1] \in Views
    BY <1>3, <1>4, <2>1, <2>3
  <2>5. f[i] = Takes(f[i - 1], q[i]) /\ g[i] = Takes(g[i - 1], r[i])
    BY <1>3, <1>4, <2>2, <2>3 DEF Follows
  <2>6. AsSent(f[i], g[i])
    BY <1>2, <2>3, <2>4, <2>5, AsSentStep
  <2> QED BY <2>1, <2>6
<1> QED BY <1>1, <1>3, <1>4, <1>5 DEF r
-----------------------------------------------------------------------------
(* The invariant.                                                          *)

\* What a client will have made of its chunks once the edit has posted the rest.
Seen(t) == TakesAll(view[t], edit[t].left)

\* A turn that has begun has its part open, with the text that was sent.
InStep(s, v) ==
  /\ ~ v.lost
  /\ s # NoTurn => s.part # 0 /\ v.open /\ v.part = s.part /\ v.text = s.sent

\* The final text of an edit under way is on its way to the client.
Promising(e, v) == e.left # << >> /\ e.final /\ e.text # << >> => e.text \in Known(v)

InStepOfAll ==
  \A t \in Tasks \ torn :
    /\ edit[t].ok
    /\ InStep(turns[t], Seen(t))
    /\ promised[t] \ {<< >>} \subseteq Known(view[t])
    /\ Promising(edit[t], Seen(t))

\* An edit posts one message or none.
NoMessage(q) == \A i \in 1..Len(q) : q[i].type # "message"
IsMessage(q, text) == q = <<Chunk("message", 0, text)>>
OneMessage ==
  \A t \in Tasks : NoMessage(edit[t].left) \/ IsMessage(edit[t].left, edit[t].text)

\* What is remembered of a task has been read, or its client told of an error.
RememberedIsRead ==
  \A i \in 1..Len(flushed) :
    flushed[i].task \notin torn => flushed[i].text \in Known(view[flushed[i].task])

Holds(mem, t, text) == \E i \in 1..Len(mem) : mem[i].task = t /\ mem[i].text = text
LastIs(m, t, text) == m # << >> /\ m[Len(m)] = <<t, text>>

\* The last message is remembered, and not what an edit is about to post.
LastIsRemembered ==
  \A t \in Tasks \ torn, text \in Words : LastIs(messages, t, text) => Holds(flushed, t, text)
NextIsAnother ==
  \A t \in Tasks \ torn :
    IsMessage(edit[t].left, edit[t].text) => ~ LastIs(messages, t, edit[t].text)

DraftInv ==
  /\ DraftTypes
  /\ InStepOfAll
  /\ OneMessage
  /\ RememberedIsRead
  /\ LastIsRemembered
  /\ NextIsAnother
  /\ NoRepeatedMessage
-----------------------------------------------------------------------------
(* Texts.                                                                  *)

\* Two texts have a longest common prefix.
LEMMA PrefixIsWords ==
  ASSUME NEW a \in Words, NEW b \in Words
  PROVE  LongestCommonPrefix({a, b}) \in Words
<1> DEFINE P == CommonPrefixes({a, b})
           short(x) == Len(a) - Len(x)
           S == {short(x) : x \in P}
<1>1. \A x \in P : x \in Words /\ Len(x) <= Len(a)
  <2> TAKE x \in P
  <2>1. PICK w \in {a, b} : x \in Prefixes(w)
    BY DEF CommonPrefixes
  <2>2. x \in Words
    <3>1. PICK l \in 0..Len(w) : x = SubSeq(w, 1, l)
      BY <2>1 DEF Prefixes
    <3> QED BY <3>1 DEF Words
  <2>3. IsPrefix(x, a)
    BY DEF CommonPrefixes
  <2> QED BY <2>2, <2>3 DEF IsPrefix
<1>2. << >> \in P
  <2>1. SubSeq(a, 1, 0) = << >> /\ SubSeq(b, 1, 0) = << >> /\ Len(a) \in Nat /\ Len(b) \in Nat
    BY DEF Words
  <2>2. << >> \in Prefixes(a)
    BY <2>1 DEF Prefixes
  <2>3. IsPrefix(<< >>, a) /\ IsPrefix(<< >>, b)
    BY <2>1 DEF IsPrefix, Words
  <2> QED BY <2>2, <2>3 DEF CommonPrefixes
<1> HIDE DEF P
<1>3. \A x \in P : Len(x) \in Nat /\ Len(a) \in Nat /\ short(x) \in Nat
  BY <1>1 DEF Words
<1>4. S \in SUBSET Nat /\ S # {}
  BY <1>2, <1>3
<1>5. PICK m \in S : \A n \in S : m <= n
  BY <1>4, LeastOf
<1>6. PICK x \in P : m = short(x)
  BY <1>5
<1>7. ASSUME NEW y \in P PROVE Len(y) <= Len(x)
  <2>1. short(y) \in S
    OBVIOUS
  <2>2. short(x) <= short(y)
    BY <1>5, <1>6, <2>1
  <2> QED BY <1>3, <2>2
<1>8. LongestCommonPrefix({a, b}) \in P
  BY <1>7 DEF LongestCommonPrefix, P
<1> QED BY <1>1, <1>8

LEMMA SettledType ==
  ASSUME NEW s \in States, NEW text \in Words, NEW final \in BOOLEAN
  PROVE  Settled(s, text, final) \in Words
BY PrefixIsWords DEF Settled, States

\* What is left to send of a text that begins with what was sent.
Unsent(sent, settled) == SubSeq(settled, Len(sent) + 1, Len(settled))

LEMMA DeltaText ==
  ASSUME NEW sent \in Words, NEW settled \in Words,
         settled = << >> \/ IsPrefix(sent, settled),
         NEW delta, delta = Unsent(sent, settled)
  PROVE  /\ delta \in Words
         /\ delta # << >> => settled # << >> /\ sent \o delta = settled
         /\ delta = << >> /\ settled # << >> => sent = settled
<1>1. Len(sent) \in Nat /\ Len(settled) \in Nat /\ delta \in Words
  BY DEF Words, Unsent
<1>2. CASE settled = << >>
  BY <1>1, <1>2 DEF Words, Unsent
<1>3. CASE settled # << >> /\ IsPrefix(sent, settled)
  <2>1. Len(sent) \in 0..Len(settled) /\ SubSeq(settled, 1, Len(sent)) = SubSeq(sent, 1, Len(sent))
    BY <1>1, <1>3 DEF IsPrefix
  <2>2. SubSeq(sent, 1, Len(sent)) = sent /\ SubSeq(settled, 1, Len(settled)) = settled
    BY DEF Words
  <2>3. SubSeq(settled, 1, Len(sent)) \o SubSeq(settled, Len(sent) + 1, Len(settled))
          = SubSeq(settled, 1, Len(settled))
    <3>1. /\ settled \in Seq(Int) /\ 1 \in 1..Len(settled) + 1
          /\ Len(sent) \in 1 - 1..Len(settled) /\ Len(settled) \in Len(sent)..Len(settled)
      BY <1>1, <2>1 DEF Words
    <3> QED BY <3>1, ConcatAdjacentSubSeq
  <2>4. sent \o delta = settled
    BY <2>1, <2>2, <2>3 DEF Unsent
  <2>5. sent \o << >> = sent
    BY ConcatEmptySeq DEF Words
  <2> QED BY <1>1, <1>3, <2>4, <2>5
<1> QED BY <1>2, <1>3
-----------------------------------------------------------------------------
(* What the client makes of the chunks of a draft.                         *)

LEMMA OpensShow ==
  ASSUME NEW s \in States, NEW part \in Nat, NEW v \in Views, InStep(s, v),
         NEW w, w = TakesAll(v, Opens(s, part))
  PROVE  /\ Opens(s, part) \in Seq(Chunks) /\ NoMessage(Opens(s, part))
         /\ w \in Views /\ ~ w.lost /\ w.open /\ w.part = part /\ w.text = << >>
<1> DEFINE c == IF s = NoTurn THEN Chunk("start", 0, << >>) ELSE Chunk("text-end", s.part, << >>)
           d == Chunk("text-start", part, << >>)
<1>1. << >> \in Words /\ s.part \in Nat
  BY DEF Words, States
<1>2. /\ c \in Chunks /\ c.type = (IF s = NoTurn THEN "start" ELSE "text-end")
      /\ s # NoTurn => c.part = s.part
      /\ d \in Chunks /\ d.type = "text-start" /\ d.part = part
  <2>1. d \in Chunks /\ d.type = "text-start" /\ d.part = part
    BY <1>1, ChunkType
  <2>2. CASE s = NoTurn
    BY <1>1, <2>1, <2>2, ChunkType
  <2>3. CASE s # NoTurn
    BY <1>1, <2>1, <2>3, ChunkType
  <2> QED BY <2>2, <2>3
<1>3. Opens(s, part) = <<c, d>>
  BY DEF Opens
<1> HIDE DEF c, d
<1>4. Opens(s, part) \in Seq(Chunks) /\ NoMessage(Opens(s, part))
  BY <1>2, <1>3 DEF NoMessage
<1>5. w = Takes(Takes(v, c), d)
  BY <1>2, <1>3, TakesTwo
<1> DEFINE u == Takes(v, c)
<1>6. u \in Views /\ ~ u.lost /\ ~ u.open
  <2>1. u \in Views
    BY <1>2, TakesType
  <2>2. CASE s = NoTurn
    <3>1. u = [v EXCEPT !.open = FALSE, !.text = << >>]
      BY <1>2, <2>2 DEF Takes
    <3> HIDE DEF u
    <3> QED BY <2>1, <3>1 DEF InStep, Views
  <2>3. CASE s # NoTurn
    BY <1>2, <2>3 DEF Takes, InStep, Views
  <2> QED BY <2>1, <2>2, <2>3
<1> HIDE DEF u
<1>7. Takes(u, d) \in Views
  BY <1>2, <1>6, TakesType
<1>8. /\ ~ Takes(u, d).lost /\ Takes(u, d).open /\ Takes(u, d).part = part
      /\ Takes(u, d).text = << >>
  BY <1>2, <1>6 DEF Takes, Views
<1> QED BY <1>4, <1>5, <1>7, <1>8 DEF u

Sending(part, delta) == <<Chunk("text-delta", part, delta)>>
Closing(part) == <<Chunk("text-end", part, << >>), Chunk("finish", 0, << >>)>>

LEMMA DeltaShows ==
  ASSUME NEW part \in Nat, NEW delta \in Words, NEW v \in Views,
         ~ v.lost, v.open, v.part = part,
         NEW w, w = TakesAll(v, Sending(part, delta))
  PROVE  /\ Sending(part, delta) \in Seq(Chunks) /\ NoMessage(Sending(part, delta))
         /\ w \in Views /\ ~ w.lost /\ w.open /\ w.part = part /\ w.text = v.text \o delta
<1> DEFINE c == Chunk("text-delta", part, delta)
<1>1. c \in Chunks /\ c.type = "text-delta" /\ c.part = part /\ c.text = delta
  BY ChunkType
<1> HIDE DEF c
<1>2. <<c>> \in Seq(Chunks) /\ NoMessage(<<c>>)
  BY <1>1 DEF NoMessage
<1>3. Takes(v, c) \in Views /\ TakesAll(v, <<c>>) = Takes(v, c)
  BY <1>1, TakesType, TakesOne
<1>4. Takes(v, c) = [v EXCEPT !.text = @ \o c.text]
  BY <1>1 DEF Takes
<1>5. /\ ~ Takes(v, c).lost /\ Takes(v, c).open /\ Takes(v, c).part = part
      /\ Takes(v, c).text = v.text \o delta
  BY <1>1, <1>4 DEF Views
<1> QED BY <1>2, <1>3, <1>5 DEF c, Sending

LEMMA ClosesShow ==
  ASSUME NEW part \in Nat, NEW v \in Views, ~ v.lost, v.open, v.part = part,
         NEW w, w = TakesAll(v, Closing(part))
  PROVE  /\ Closing(part) \in Seq(Chunks) /\ NoMessage(Closing(part)) /\ Closing(part) # << >>
         /\ w \in Views /\ ~ w.lost /\ w.text = v.text /\ v.text \in Known(w)
<1> DEFINE c == Chunk("text-end", part, << >>)
           d == Chunk("finish", 0, << >>)
<1>1. << >> \in Words
  BY DEF Words
<1>2. /\ c \in Chunks /\ c.type = "text-end" /\ c.part = part
      /\ d \in Chunks /\ d.type = "finish"
  BY <1>1, ChunkType
<1>3. Closing(part) = <<c, d>>
  BY DEF Closing
<1> HIDE DEF c, d
<1>4. Closing(part) \in Seq(Chunks) /\ NoMessage(Closing(part)) /\ Closing(part) # << >>
  BY <1>2, <1>3 DEF NoMessage
<1>5. w = Takes(Takes(v, c), d)
  BY <1>2, <1>3, TakesTwo
<1> DEFINE u == Takes(v, c)
<1>6. u \in Views /\ ~ u.lost /\ ~ u.open /\ u.text = v.text
  <2>1. u \in Views
    BY <1>2, TakesType
  <2> QED BY <1>2, <2>1 DEF Takes, Views
<1> HIDE DEF u
<1>7. Takes(u, d) \in Views
  BY <1>2, <1>6, TakesType
<1>8. ~ Takes(u, d).lost /\ Takes(u, d).text = u.text /\ u.text \in Known(Takes(u, d))
  BY <1>2, <1>6 DEF Takes, Views, Known
<1> QED BY <1>4, <1>5, <1>6, <1>7, <1>8 DEF u

LEMMA NoMessageConcat ==
  ASSUME NEW q \in Seq(Chunks), NEW r \in Seq(Chunks), NoMessage(q), NoMessage(r)
  PROVE  q \o r \in Seq(Chunks) /\ NoMessage(q \o r)
<1>1. PICK m \in Nat, n \in Nat : m = Len(q) /\ n = Len(r)
  OBVIOUS
<1>2. /\ q \o r \in Seq(Chunks) /\ Len(q \o r) = m + n
      /\ \A i \in 1..(m + n) : (q \o r)[i] = IF i <= m THEN q[i] ELSE r[i - m]
  BY <1>1, ConcatProperties
<1>3. \A i \in 1..(m + n) : (q \o r)[i].type # "message"
  <2> TAKE i \in 1..(m + n)
  <2>1. CASE i <= m
    BY <1>1, <1>2, <2>1 DEF NoMessage
  <2>2. CASE ~ (i <= m)
    <3>1. i - m \in 1..n
      BY <2>2
    <3> QED BY <1>1, <1>2, <2>2, <3>1 DEF NoMessage
  <2> QED BY <2>1, <2>2
<1> QED BY <1>2, <1>3 DEF NoMessage

\* What a client shows after a draft: the settled text, if there is any.
Displayed(s, v, settled) ==
  IF settled # << >> THEN settled ELSE IF s = NoTurn THEN << >> ELSE v.text

LEMMA AdvancedShows ==
  ASSUME NEW t \in Tasks, NEW text \in Words, NEW final \in BOOLEAN, NEW v \in Views,
         turns[t] \in States, uuids[t] \in Nat, InStep(turns[t], v),
         NEW a, a = Advanced(t, text, final), NEW w, w = TakesAll(v, a.chunks)
  PROVE  /\ a.state \in States /\ a.state.part # 0 /\ a.state.last = text
         /\ a.chunks \in Seq(Chunks) /\ NoMessage(a.chunks)
         /\ final => a.chunks # << >>
         /\ w \in Views /\ ~ w.lost
         /\ w.text = Displayed(turns[t], v, Settled(turns[t], text, final))
         /\ ~ final => w.open /\ w.part = a.state.part /\ w.text = a.state.sent
         /\ final /\ text # << >> => text \in Known(w)
<1> DEFINE s == turns[t]
           settled == Settled(s, text, final)
           new == s = NoTurn \/ Restarts(s, settled)
           part == IF new THEN uuids[t] + 1 ELSE s.part
           sent == IF new THEN << >> ELSE s.sent
           delta == SubSeq(settled, Len(sent) + 1, Len(settled))
           opens == IF new THEN Opens(s, part) ELSE << >>
           deltas == IF delta = << >> THEN << >> ELSE <<Chunk("text-delta", part, delta)>>
           closes == IF final
                     THEN <<Chunk("text-end", part, << >>), Chunk("finish", 0, << >>)>>
                     ELSE << >>
           state == [part |-> part, last |-> text,
                     sent |-> IF delta = << >> THEN sent ELSE settled]
<1>1. a.state = state /\ a.chunks = opens \o deltas \o closes
  BY DEF Advanced
<1>2. settled \in Words /\ (final => settled = text)
  BY SettledType DEF Settled
<1>3. sent \in Words /\ part \in Nat /\ part # 0 /\ (settled = << >> \/ IsPrefix(sent, settled))
  <2>1. CASE new
    <3>1. IsPrefix(<< >>, settled)
      BY <1>2 DEF IsPrefix, Words
    <3> QED BY <2>1, <3>1 DEF Words
  <2>2. CASE ~ new
    BY <2>2 DEF States, InStep, Restarts
  <2> QED BY <2>1, <2>2
<1>4. /\ delta \in Words
      /\ delta # << >> => settled # << >> /\ sent \o delta = settled
      /\ delta = << >> /\ settled # << >> => sent = settled
  <2>1. delta = Unsent(sent, settled)
    BY DEF Unsent
  <2> HIDE DEF settled, sent, delta
  <2> QED BY <1>2, <1>3, <2>1, DeltaText
<1> DEFINE x == TakesAll(v, opens)
           y == TakesAll(x, deltas)
           z == TakesAll(y, closes)
<1>5. /\ opens \in Seq(Chunks) /\ NoMessage(opens)
      /\ x \in Views /\ ~ x.lost /\ x.open /\ x.part = part /\ x.text = sent
  <2>1. CASE new
    BY <1>3, <2>1, OpensShow
  <2>2. CASE ~ new
    <3>1. x = v /\ s # NoTurn /\ part = s.part /\ sent = s.sent /\ opens = << >>
      BY <2>2, TakesNone
    <3>2. << >> \in Seq(Chunks) /\ NoMessage(<< >>)
      BY DEF NoMessage
    <3> QED BY <3>1, <3>2 DEF InStep
  <2> QED BY <2>1, <2>2
<1> HIDE DEF x, opens, new
<1>6. /\ deltas \in Seq(Chunks) /\ NoMessage(deltas)
      /\ y \in Views /\ ~ y.lost /\ y.open /\ y.part = part
      /\ y.text = IF delta = << >> THEN sent ELSE settled
  <2>1. CASE delta = << >>
    <3>1. y = x /\ deltas = << >>
      BY <1>5, <2>1, TakesNone
    <3>2. << >> \in Seq(Chunks) /\ NoMessage(<< >>)
      BY DEF NoMessage
    <3> QED BY <1>5, <2>1, <3>1, <3>2
  <2>2. CASE delta # << >>
    <3> HIDE DEF delta, part, sent, settled
    <3>1. deltas = Sending(part, delta)
      BY <2>2 DEF Sending
    <3>2. y = TakesAll(x, Sending(part, delta))
      BY <3>1
    <3> HIDE DEF deltas, y
    <3>3. part \in Nat /\ delta \in Words /\ x \in Views /\ ~ x.lost /\ x.open /\ x.part = part
      BY <1>3, <1>4, <1>5
    <3>4. /\ Sending(part, delta) \in Seq(Chunks) /\ NoMessage(Sending(part, delta))
          /\ y \in Views /\ ~ y.lost /\ y.open /\ y.part = part /\ y.text = x.text \o delta
      <4>1. Sending(part, delta) \in Seq(Chunks) /\ NoMessage(Sending(part, delta))
        BY <3>2, <3>3, DeltaShows
      <4>2. y \in Views /\ ~ y.lost /\ y.open /\ y.part = part
        BY <3>2, <3>3, DeltaShows
      <4>3. y.text = x.text \o delta
        BY <3>2, <3>3, DeltaShows, SMTT(30)
      <4> QED BY <4>1, <4>2, <4>3
    <3> QED BY <1>4, <1>5, <2>2, <3>1, <3>4
  <2> QED BY <2>1, <2>2
<1> HIDE DEF y, deltas, part
<1>7. /\ closes \in Seq(Chunks) /\ NoMessage(closes) /\ (final => closes # << >>)
      /\ z \in Views /\ ~ z.lost /\ z.text = y.text
      /\ final => y.text \in Known(z)
      /\ ~ final => z = y
  <2>1. CASE final
    <3>1. closes = Closing(part)
      BY <2>1 DEF Closing
    <3>2. z = TakesAll(y, Closing(part))
      BY <3>1
    <3> HIDE DEF closes, z
    <3> QED BY <1>3, <1>6, <2>1, <3>1, <3>2, ClosesShow
  <2>2. CASE ~ final
    <3>1. z = y /\ closes = << >>
      BY <1>6, <2>2, TakesNone
    <3>2. << >> \in Seq(Chunks) /\ NoMessage(<< >>)
      BY DEF NoMessage
    <3> QED BY <1>6, <2>2, <3>1, <3>2
  <2> QED BY <2>1, <2>2
<1> HIDE DEF z, closes
<1>8. /\ opens \o deltas \in Seq(Chunks) /\ NoMessage(opens \o deltas)
      /\ a.chunks \in Seq(Chunks) /\ NoMessage(a.chunks) /\ (final => a.chunks # << >>)
  <2>1. opens \o deltas \in Seq(Chunks) /\ NoMessage(opens \o deltas)
    BY <1>5, <1>6, NoMessageConcat
  <2>2. (opens \o deltas) \o closes \in Seq(Chunks) /\ NoMessage((opens \o deltas) \o closes)
    BY <1>7, <2>1, NoMessageConcat
  <2>3. closes # << >> => (opens \o deltas) \o closes # << >>
    BY <1>7, <2>1, ConcatEqualIffEmpty
  <2> QED BY <1>1, <1>7, <2>1, <2>2, <2>3
<1>9. w = z
  <2>1. TakesAll(v, opens \o deltas) = y
    BY <1>5, <1>6, TakesConcat DEF x, y
  <2>2. TakesAll(v, (opens \o deltas) \o closes) = TakesAll(y, closes)
    BY <1>7, <1>8, <2>1, TakesConcat
  <2> QED BY <1>1, <2>2 DEF z
<1>10. state \in States /\ state.part # 0 /\ state.last = text
       /\ state.part = part /\ state.sent = IF delta = << >> THEN sent ELSE settled
  BY <1>2, <1>3 DEF States
<1>11. y.text = Displayed(s, v, settled)
  <2>1. CASE settled # << >>
    BY <1>4, <1>6, <2>1 DEF Displayed
  <2>2. CASE settled = << >>
    <3>1. y.text = sent /\ ~ Restarts(s, settled)
      BY <1>4, <1>6, <2>2 DEF Restarts
    <3>2. sent = IF s = NoTurn THEN << >> ELSE v.text
      BY <3>1 DEF new, InStep
    <3> QED BY <2>2, <3>1, <3>2 DEF Displayed
  <2> QED BY <2>1, <2>2
<1>12. final /\ text # << >> => y.text = text
  BY <1>2, <1>4, <1>6
<1> HIDE DEF state, settled, sent, delta
<1> QED BY <1>1, <1>6, <1>7, <1>8, <1>9, <1>10, <1>11, <1>12 DEF settled
\* Of any draft: no chunk of it is a message.
LEMMA AdvancedType ==
  ASSUME NEW t \in Tasks, NEW text \in Words, NEW final \in BOOLEAN,
         turns[t] \in States, uuids[t] \in Nat,
         NEW a, a = Advanced(t, text, final)
  PROVE  /\ a.state \in States /\ a.chunks \in Seq(Chunks) /\ NoMessage(a.chunks)
<1> DEFINE s == turns[t]
           settled == Settled(s, text, final)
           new == s = NoTurn \/ Restarts(s, settled)
           part == IF new THEN uuids[t] + 1 ELSE s.part
           sent == IF new THEN << >> ELSE s.sent
           delta == SubSeq(settled, Len(sent) + 1, Len(settled))
           opens == IF new THEN Opens(s, part) ELSE << >>
           deltas == IF delta = << >> THEN << >> ELSE <<Chunk("text-delta", part, delta)>>
           closes == IF final
                     THEN <<Chunk("text-end", part, << >>), Chunk("finish", 0, << >>)>>
                     ELSE << >>
<1>1. /\ a.state = [part |-> part, last |-> text, sent |-> IF delta = << >> THEN sent ELSE settled]
      /\ a.chunks = opens \o deltas \o closes
  BY DEF Advanced
<1>2. settled \in Words
  BY SettledType
<1>3. sent \in Words /\ part \in Nat
  BY DEF States, Words
<1>4. << >> \in Seq(Chunks) /\ NoMessage(<< >>)
  BY DEF NoMessage
<1>5. delta \in Words /\ << >> \in Words /\ s.part \in Nat
  BY <1>2, <1>3 DEF Words, States
<1> HIDE DEF delta, sent, settled, part
<1>6. opens \in Seq(Chunks) /\ NoMessage(opens)
  <2> DEFINE c == IF s = NoTurn THEN Chunk("start", 0, << >>) ELSE Chunk("text-end", s.part, << >>)
             d == Chunk("text-start", part, << >>)
  <2>1. d \in Chunks /\ d.type = "text-start"
    BY <1>3, <1>5, ChunkType
  <2>2. c \in Chunks /\ c.type # "message"
    <3>1. CASE s = NoTurn
      BY <1>5, <3>1, ChunkType
    <3>2. CASE s # NoTurn
      BY <1>5, <3>2, ChunkType
    <3> QED BY <3>1, <3>2
  <2>3. Opens(s, part) = <<c, d>>
    BY DEF Opens
  <2> HIDE DEF c, d
  <2> QED BY <1>4, <2>1, <2>2, <2>3 DEF NoMessage
<1>7. deltas \in Seq(Chunks) /\ NoMessage(deltas)
  <2> DEFINE c == Chunk("text-delta", part, delta)
  <2>1. c \in Chunks /\ c.type = "text-delta"
    BY <1>3, <1>5, ChunkType
  <2> HIDE DEF c
  <2>2. <<c>> \in Seq(Chunks) /\ NoMessage(<<c>>)
    BY <2>1 DEF NoMessage
  <2> QED BY <1>4, <2>2 DEF c
<1>8. closes \in Seq(Chunks) /\ NoMessage(closes)
  <2> DEFINE c == Chunk("text-end", part, << >>)
             d == Chunk("finish", 0, << >>)
  <2>1. c \in Chunks /\ c.type = "text-end" /\ d \in Chunks /\ d.type = "finish"
    BY <1>3, <1>5, ChunkType
  <2> HIDE DEF c, d
  <2>2. <<c, d>> \in Seq(Chunks) /\ NoMessage(<<c, d>>)
    BY <2>1 DEF NoMessage
  <2> QED BY <1>4, <2>2 DEF c, d
<1> HIDE DEF opens, deltas, closes
<1>9. a.chunks \in Seq(Chunks) /\ NoMessage(a.chunks)
  <2>1. opens \o deltas \in Seq(Chunks) /\ NoMessage(opens \o deltas)
    BY <1>6, <1>7, NoMessageConcat
  <2>2. (opens \o deltas) \o closes \in Seq(Chunks) /\ NoMessage((opens \o deltas) \o closes)
    BY <1>8, <2>1, NoMessageConcat
  <2> QED BY <1>1, <2>2
<1> QED BY <1>1, <1>2, <1>3, <1>9 DEF States
-----------------------------------------------------------------------------
(* The memory of ended turns.                                              *)

\* It holds a text that was given to it, beside what it held before.
LEMMA RememberWorks ==
  ASSUME flushed \in Seq(Memories), NEW t \in Tasks, NEW text \in Words,
         NEW r, r = Remember(t, text)
  PROVE  /\ r \in Seq(Memories) /\ Holds(r, t, text)
         /\ \A i \in 1..Len(r) : \/ r[i].task = t /\ r[i].text = text
                                 \/ \E j \in 1..Len(flushed) : r[i] = flushed[j]
<1> DEFINE kept == IF Len(flushed) >= MaxFlushed THEN Tail(flushed) ELSE flushed
           at == {i \in DOMAIN kept : kept[i].task = t}
           entry == [task |-> t, text |-> text]
           changed == [i \in DOMAIN kept |-> IF i \in at THEN [kept[i] EXCEPT !.text = text] ELSE kept[i]]
<1>1. r = IF at = {} THEN Append(kept, entry) ELSE changed
  BY DEF Remember
<1>2. kept \in Seq(Memories) /\ \A i \in 1..Len(kept) : \E j \in 1..Len(flushed) : kept[i] = flushed[j]
  <2>1. CASE Len(flushed) >= MaxFlushed
    <3>1. flushed # << >>
      BY <2>1, DraftAssumption
    <3>2. /\ Tail(flushed) \in Seq(Memories) /\ Len(Tail(flushed)) = Len(flushed) - 1
          /\ \A i \in 1..Len(Tail(flushed)) : Tail(flushed)[i] = flushed[i + 1]
      BY <3>1, HeadTailProperties
    <3>3. \A i \in 1..(Len(flushed) - 1) : i + 1 \in 1..Len(flushed)
      OBVIOUS
    <3> QED BY <2>1, <3>2, <3>3
  <2>2. CASE ~ (Len(flushed) >= MaxFlushed)
    BY <2>2
  <2> QED BY <2>1, <2>2
<1> HIDE DEF kept
<1>3. entry \in Memories /\ entry.task = t /\ entry.text = text
  BY DEF Memories
<1>4. CASE at = {}
  <2> HIDE DEF entry, at
  <2>1. /\ r \in Seq(Memories) /\ Len(r) = Len(kept) + 1 /\ r[Len(kept) + 1] = entry
        /\ \A i \in 1..Len(kept) : r[i] = kept[i]
    BY <1>1, <1>2, <1>3, <1>4, AppendProperties
  <2>2. Len(kept) \in Nat
    BY <1>2
  <2>3. Holds(r, t, text)
    BY <1>3, <2>1, <2>2 DEF Holds
  <2>4. \A i \in 1..Len(r) : r[i] = entry \/ \E j \in 1..Len(flushed) : r[i] = flushed[j]
    <3> TAKE i \in 1..Len(r)
    <3>1. i = Len(kept) + 1 \/ i \in 1..Len(kept)
      BY <2>1, <2>2
    <3> QED BY <1>2, <2>1, <3>1
  <2> QED BY <1>3, <2>1, <2>3, <2>4
<1>5. CASE at # {}
  <2>1. r = changed
    BY <1>1, <1>5
  <2>2. /\ DOMAIN kept = 1..Len(kept) /\ Len(kept) \in Nat
        /\ \A i \in 1..Len(kept) : kept[i] \in Memories
    BY <1>2
  <2>3. \A i \in 1..Len(kept) : r[i] = IF i \in at THEN [kept[i] EXCEPT !.text = text] ELSE kept[i]
    BY <2>1, <2>2
  <2>4. \A i \in 1..Len(kept) :
          /\ r[i] \in Memories
          /\ i \in at => r[i].task = t /\ r[i].text = text
          /\ i \notin at => r[i] = kept[i]
    BY <2>2, <2>3 DEF Memories
  <2>5. DOMAIN r = 1..Len(kept) /\ r = [i \in 1..Len(kept) |-> r[i]]
    BY <2>1, <2>2
  <2>6. r \in Seq(Memories) /\ Len(r) = Len(kept)
    BY <2>2, <2>4, <2>5
  <2>7. PICK k \in 1..Len(kept) : k \in at
    BY <1>5, <2>2
  <2>8. Holds(r, t, text)
    BY <2>4, <2>6, <2>7 DEF Holds
  <2> QED BY <1>2, <2>4, <2>6, <2>8
<1> QED BY <1>4, <1>5
-----------------------------------------------------------------------------
(* What a step does to one task.                                           *)

\* What an edit has the client take, and how the client sees it.
LEMMA DeliverSeen ==
  ASSUME DraftTypes, NEW t \in Tasks, NEW text \in Words, NEW final \in BOOLEAN, Idle(t),
         NEW chunks \in Seq(Chunks), Deliver(t, chunks, final, text)
  PROVE  /\ flushed' \in Seq(Memories) /\ edit' \in [Tasks -> Edits]
         /\ view' \in [Tasks -> Views] /\ messages' \in Seq(Tasks \X Words)
         /\ promised' \in [Tasks -> SUBSET Words] /\ replaced' \in SUBSET Tasks
         /\ replaced' \in {replaced, replaced \cup {t}}
         /\ t \notin replaced' => Seen(t)' = TakesAll(Seen(t), chunks)
         /\ AsSent(TakesAll(Seen(t), chunks), Seen(t)') /\ Seen(t) = view[t]
         /\ \A u \in Tasks \ {t} : edit'[u] = edit[u] /\ view'[u] = view[u] /\ Seen(u)' = Seen(u)
         /\ \A u \in Tasks : Known(view[u]) \subseteq Known(view'[u])
<1>1. Seen(t) = view[t] /\ view[t] \in Views /\ edit[t].left = << >>
  BY TakesNone DEF DraftTypes, Idle, Seen
<1>2. CASE t \in CallbackTasks /\ chunks # << >>
  <2> DEFINE e == [left |-> chunks, ok |-> TRUE, final |-> final, text |-> text]
  <2>1. e \in Edits /\ e.left = chunks
    BY DEF Edits
  <2>2. /\ edit' = [edit EXCEPT ![t] = e]
        /\ UNCHANGED <<view, messages, promised, flushed, replaced>>
    BY <1>2 DEF Deliver
  <2> HIDE DEF e
  <2>3. edit' \in [Tasks -> Edits] /\ edit'[t] = e /\ \A u \in Tasks \ {t} : edit'[u] = edit[u]
    BY <2>1, <2>2 DEF DraftTypes
  <2>4. Seen(t)' = TakesAll(Seen(t), chunks) /\ \A u \in Tasks \ {t} : Seen(u)' = Seen(u)
    BY <1>1, <2>1, <2>2, <2>3 DEF Seen
  <2> QED BY <1>1, <2>2, <2>3, <2>4 DEF DraftTypes, AsSent
<1>3. CASE ~ (t \in CallbackTasks /\ chunks # << >>)
  <2> DEFINE message == chunks # << >> /\ Head(chunks).type = "message"
  <2>1. PICK w :
          /\ view' = [view EXCEPT ![t] = w]
          /\ \/ w = TakesAll(view[t], chunks) /\ replaced' = replaced
             \/ w = TakesAll(view[t], Replaced(chunks)) /\ replaced' = replaced \cup {t}
          /\ messages' = IF message THEN Append(messages, <<t, text>>) ELSE messages
          /\ Returns(t, TRUE, final, text, message)
          /\ edit' = edit
    BY <1>3 DEF Deliver
  <2> HIDE DEF message
  <2>2. w \in Views /\ Known(view[t]) \subseteq Known(w) /\ AsSent(TakesAll(view[t], chunks), w)
    <3>1. CASE w = TakesAll(view[t], chunks)
      BY <1>1, <3>1, TakesAllType DEF AsSent
    <3>2. CASE w = TakesAll(view[t], Replaced(chunks))
      BY <1>1, <3>2, ReplacedOnes, ReplacedShows, TakesAllType
    <3> QED BY <2>1, <3>1, <3>2
  <2>3. view' \in [Tasks -> Views] /\ view'[t] = w /\ \A u \in Tasks \ {t} : view'[u] = view[u]
    BY <2>1, <2>2 DEF DraftTypes
  <2>4. messages' \in Seq(Tasks \X Words)
    BY <2>1 DEF DraftTypes
  <2>5. promised' \in [Tasks -> SUBSET Words] /\ flushed' \in Seq(Memories)
    BY <2>1, RememberWorks DEF DraftTypes, Returns
  <2>6. Seen(t)' = w
    <3>1. Seen(t)' = TakesAll(w, << >>)
      BY <1>1, <2>1, <2>3 DEF Seen
    <3> QED BY <2>2, <3>1, TakesNone
  <2>7. \A u \in Tasks \ {t} : Seen(u)' = Seen(u)
    BY <2>1, <2>3 DEF Seen
  <2>8. replaced' \in SUBSET Tasks /\ replaced' \in {replaced, replaced \cup {t}}
        /\ (t \notin replaced' => w = TakesAll(view[t], chunks))
    BY <2>1 DEF DraftTypes
  <2> QED BY <1>1, <2>1, <2>2, <2>3, <2>4, <2>5, <2>6, <2>7, <2>8 DEF DraftTypes
<1> QED BY <1>2, <1>3

\* A chunk that is posted, and one that nothing happens to on the way.
LEMMA PostedSeen ==
  ASSUME DraftTypes, NEW t \in Tasks, NEW copies \in 0..2, NEW ok \in BOOLEAN,
         Posted(t, copies, ok)
  PROVE  /\ flushed' \in Seq(Memories) /\ edit' \in [Tasks -> Edits]
         /\ view' \in [Tasks -> Views] /\ messages' \in Seq(Tasks \X Words)
         /\ promised' \in [Tasks -> SUBSET Words]
         /\ torn \subseteq torn' /\ torn' \subseteq torn \cup {t}
         /\ \A u \in Tasks \ {t} : edit'[u] = edit[u] /\ view'[u] = view[u] /\ Seen(u)' = Seen(u)
         /\ \A u \in Tasks : Known(view[u]) \subseteq Known(view'[u])
         /\ edit[t].left # << >> /\ Head(edit[t].left) \in Chunks
         /\ edit'[t].left = Tail(edit[t].left)
         /\ t \notin torn' =>
              /\ ok /\ copies = 1
              /\ view'[t] = Takes(view[t], Head(edit[t].left))
              /\ Seen(t)' = Seen(t)
<1> DEFINE e == edit[t]
           c == Head(e.left)
           q == [i \in 1..copies |-> c]
           w == TakesAll(view[t], q)
           done == Tail(e.left) = << >>
           f == IF done THEN NoEdit ELSE [e EXCEPT !.left = Tail(@), !.ok = @ /\ ok]
<1>1. e \in Edits /\ e.left \in Seq(Chunks) /\ e.left # << >> /\ view[t] \in Views /\ e.text \in Words
  BY DEF DraftTypes, Posted, Idle, Edits
<1>2. c \in Chunks /\ Tail(e.left) \in Seq(Chunks)
      /\ TakesAll(Takes(view[t], c), Tail(e.left)) = TakesAll(view[t], e.left)
  BY <1>1, TakesFirst
<1>3. /\ view' = [view EXCEPT ![t] = w]
      /\ torn' = IF ok /\ copies = 1 THEN torn ELSE torn \cup {t}
      /\ messages' = IF c.type = "message" /\ copies > 0
                     THEN Append(messages, <<t, e.text>>) ELSE messages
      /\ edit' = [edit EXCEPT ![t] = f]
      /\ IF done THEN Returns(t, e.ok /\ ok, e.final, e.text, c.type = "message")
         ELSE UNCHANGED <<promised, flushed>>
  BY DEF Posted
<1>4. q \in Seq(Chunks) /\ (copies = 1 => q = <<c>>)
  <2> HIDE DEF c
  <2> QED BY <1>2
<1>5. f \in Edits /\ f.left = Tail(e.left)
  <2>1. CASE done
    <3>1. f = NoEdit
      BY <2>1
    <3>2. NoEdit \in Edits /\ NoEdit.left = << >>
      BY DEF NoEdit, Edits, Words
    <3> QED BY <2>1, <3>1, <3>2
  <2>2. CASE ~ done
    <3> HIDE DEF e
    <3> QED BY <1>1, <1>2, <2>2 DEF Edits
  <2> QED BY <2>1, <2>2
<1> HIDE DEF c, q, f
<1>6. w \in Views /\ Known(view[t]) \subseteq Known(w)
  BY <1>1, <1>4, TakesAllType
<1>7. /\ view' \in [Tasks -> Views] /\ view'[t] = w /\ edit' \in [Tasks -> Edits] /\ edit'[t] = f
      /\ \A u \in Tasks \ {t} : edit'[u] = edit[u] /\ view'[u] = view[u]
  BY <1>3, <1>5, <1>6 DEF DraftTypes
<1>8. \A u \in Tasks \ {t} : Seen(u)' = Seen(u)
  BY <1>7 DEF Seen
<1>9. messages' \in Seq(Tasks \X Words)
  BY <1>1, <1>3 DEF DraftTypes
<1>10. promised' \in [Tasks -> SUBSET Words] /\ flushed' \in Seq(Memories)
  <2>1. CASE done
    <3>1. Returns(t, e.ok /\ ok, e.final, e.text, c.type = "message") /\ e.text \in Words
      BY <1>1, <1>3, <2>1
    <3> HIDE DEF e
    <3>2. promised' \in [Tasks -> SUBSET Words]
      BY <3>1 DEF DraftTypes, Returns
    <3>3. flushed' \in Seq(Memories)
      BY <3>1, RememberWorks DEF DraftTypes, Returns
    <3> QED BY <3>2, <3>3
  <2>2. CASE ~ done
    BY <1>3, <2>2 DEF DraftTypes
  <2> QED BY <2>1, <2>2
<1>11. torn \subseteq torn' /\ torn' \subseteq torn \cup {t} /\ (t \notin torn' => ok /\ copies = 1)
  BY <1>3
<1>12. ASSUME t \notin torn'
       PROVE  w = Takes(view[t], c) /\ Seen(t)' = Seen(t)
  <2>1. w = Takes(view[t], c)
    BY <1>1, <1>2, <1>4, <1>11, <1>12, TakesOne
  <2>2. Seen(t)' = TakesAll(w, Tail(e.left)) /\ Seen(t) = TakesAll(view[t], e.left)
    BY <1>5, <1>7 DEF Seen
  <2> QED BY <1>2, <2>1, <2>2
<1>13. \A u \in Tasks : Known(view[u]) \subseteq Known(view'[u])
  BY <1>6, <1>7
<1> HIDE DEF w
<1>14. c = Head(edit[t].left)
  BY DEF c
<1> QED BY <1>1, <1>2, <1>5, <1>7, <1>8, <1>9, <1>10, <1>11, <1>12, <1>13, <1>14

\* A timeout gives up the edit of a task, which may leave it torn.
LEMMA TimesOutSeen ==
  ASSUME DraftTypes, NEW t \in Tasks, TimesOut(t)
  PROVE  /\ edit' \in [Tasks -> Edits]
         /\ torn \subseteq torn' /\ torn' \subseteq torn \cup {t}
         /\ \A u \in Tasks \ torn' : (u = t => edit[u].left = << >>) /\ edit'[u].left = edit[u].left /\ Seen(u)' = Seen(u)
         /\ \A u \in Tasks \ {t} : edit'[u] = edit[u] /\ Seen(u)' = Seen(u)
         /\ edit'[t] = NoEdit
<1>1. NoEdit \in Edits /\ NoEdit.left = << >>
  BY DEF NoEdit, Edits, Words
<1>2. edit' \in [Tasks -> Edits] /\ edit'[t] = NoEdit /\ \A u \in Tasks \ {t} : edit'[u] = edit[u]
  BY <1>1 DEF DraftTypes, TimesOut
<1>3. view' = view /\ torn \subseteq torn' /\ torn' \subseteq torn \cup {t} /\ (t \notin torn' => edit[t].left = << >>)
  BY DEF TimesOut, Idle
<1> HIDE DEF NoEdit
<1>4. \A u \in Tasks : edit'[u].left = edit[u].left => Seen(u)' = Seen(u)
  BY <1>3 DEF Seen
<1> QED BY <1>1, <1>2, <1>3, <1>4

LEMMA TypesStep ==
  ASSUME DraftTypes, [Next]_vars
  PROVE  DraftTypes'
<1> USE DEF DraftTypes
<1>1. NoTurn \in States /\ << >> \in Words
  BY DEF NoTurn, States, Words
<1>2. ASSUME NEW t \in Tasks, NEW text \in Texts, NEW final \in BOOLEAN, Edit(t, text, final)
      PROVE  DraftTypes'
  <2>1. text \in Words
    BY TextIsWords
  <2>2. CASE EditOpen(t, text, final)
    <3> DEFINE a == Advanced(t, text, final)
    <3>1. a.state \in States /\ a.chunks \in Seq(Chunks)
      BY <2>1, AdvancedType
    <3>2. /\ turns' = [turns EXCEPT ![t] = IF final THEN NoTurn ELSE a.state]
          /\ uuids' = [uuids EXCEPT ![t] = IF a.state.part > @ THEN a.state.part ELSE @]
          /\ Deliver(t, a.chunks, final, text) /\ Idle(t)
          /\ UNCHANGED <<over, left, gone, torn>> /\ edits' = edits + 1
      BY <1>2, <2>2 DEF EditOpen, Edit, turnVars
    <3> HIDE DEF a
    <3>3. /\ flushed' \in Seq(Memories) /\ edit' \in [Tasks -> Edits]
          /\ view' \in [Tasks -> Views] /\ messages' \in Seq(Tasks \X Words)
          /\ promised' \in [Tasks -> SUBSET Words] /\ replaced' \in SUBSET Tasks
      BY <2>1, <3>1, <3>2, DeliverSeen
    <3>4. turns' \in [Tasks -> States] /\ uuids' \in [Tasks -> Nat]
      BY <1>1, <3>1, <3>2 DEF States
    <3> QED BY <3>2, <3>3, <3>4
  <2>3. CASE EditEnded(t, text, final)
    <3>1. AfterEnd(t, text) \in Seq(Chunks)
      <4>1. Chunk("message", 0, text) \in Chunks
        BY <2>1, ChunkType
      <4>2. << >> \in Seq(Chunks) /\ <<Chunk("message", 0, text)>> \in Seq(Chunks)
        BY <4>1
      <4> QED BY <4>2 DEF AfterEnd
    <3>2. /\ turns' = [turns EXCEPT ![t] = NoTurn]
          /\ Deliver(t, AfterEnd(t, text), final, text) /\ Idle(t)
          /\ UNCHANGED <<over, left, gone, torn, uuids>> /\ edits' = edits + 1
      BY <1>2, <2>3 DEF EditEnded, Discard, Edit, turnVars
    <3>3. /\ flushed' \in Seq(Memories) /\ edit' \in [Tasks -> Edits]
          /\ view' \in [Tasks -> Views] /\ messages' \in Seq(Tasks \X Words)
          /\ promised' \in [Tasks -> SUBSET Words] /\ replaced' \in SUBSET Tasks
      BY <2>1, <3>1, <3>2, DeliverSeen
    <3>4. turns' \in [Tasks -> States]
      BY <1>1, <3>2
    <3> QED BY <3>2, <3>3, <3>4
  <2> QED BY <1>2, <2>2, <2>3 DEF Edit
<1>3. ASSUME NEW t \in Tasks, NEW copies \in 0..2, NEW ok \in BOOLEAN, Posted(t, copies, ok)
      PROVE  DraftTypes'
  <2>1. UNCHANGED <<turns, uuids, over, left, gone, replaced, edits>>
    BY <1>3 DEF Posted, turnVars
  <2> QED BY <1>3, <2>1, PostedSeen
<1>4. ASSUME NEW t \in Tasks, Terminate(t) \/ DispatchEnds(t)
      PROVE  DraftTypes'
  BY <1>1, <1>4 DEF Terminate, DispatchEnds, Discard
<1>5. ASSUME NEW t \in Tasks, TimesOut(t)
      PROVE  DraftTypes'
  <2>1. /\ over' = over \cup {t}
        /\ UNCHANGED <<turns, uuids, left, gone, flushed, view, messages, promised,
                       replaced, edits>>
    BY <1>5 DEF TimesOut
  <2> QED BY <1>5, <2>1, TimesOutSeen
<1>6. CASE Disconnect
  BY <1>1, <1>6 DEF Disconnect
<1>7. CASE UNCHANGED vars
  BY <1>7 DEF vars
<1> QED BY <1>2, <1>3, <1>4, <1>5, <1>6, <1>7 DEF Next
-----------------------------------------------------------------------------
(* The invariant is kept.                                                  *)

LEMMA MessageShows ==
  ASSUME NEW v \in Views, NEW text \in Words, NEW q, IsMessage(q, text)
  PROVE  /\ q \in Seq(Chunks) /\ q # << >> /\ Head(q).type = "message" /\ Tail(q) = << >>
         /\ ~ NoMessage(q)
         /\ text \in Known(TakesAll(v, q))
         /\ TakesAll(v, q).text = v.text
         /\ \A s : InStep(s, v) => InStep(s, TakesAll(v, q))
<1> DEFINE c == Chunk("message", 0, text)
<1>1. c \in Chunks /\ c.type = "message" /\ c.text = text
  BY ChunkType
<1>2. q = <<c>>
  BY DEF IsMessage
<1> HIDE DEF c
<1>3. TakesAll(v, q) = Takes(v, c)
  BY <1>1, <1>2, TakesOne
<1>4. Takes(v, c) = [v EXCEPT !.read = @ \cup {text}]
  BY <1>1 DEF Takes
<1>5. /\ text \in Known(Takes(v, c)) /\ Takes(v, c).text = v.text
      /\ Takes(v, c).open = v.open /\ Takes(v, c).part = v.part /\ Takes(v, c).lost = v.lost
  BY <1>1, <1>4 DEF Views, Known
<1>6. /\ q \in Seq(Chunks) /\ q # << >> /\ Head(q) = c /\ Tail(q) = << >>
      /\ Len(q) = 1 /\ q[1] = c
  BY <1>1, <1>2
<1> QED BY <1>1, <1>3, <1>5, <1>6 DEF InStep, NoMessage

\* A message that differs from the last one, if that was of the same turn.
LEMMA MessageKept ==
  ASSUME DraftTypes, LastIsRemembered, NoRepeatedMessage,
         NEW t \in Tasks, NEW text \in Words, torn \subseteq torn',
         messages' = Append(messages, <<t, text>>),
         t \notin torn' => ~ LastIs(messages, t, text) /\ flushed' = Remember(t, text)
  PROVE  /\ LastIsRemembered' /\ NoRepeatedMessage'
         /\ \A u \in Tasks \ {t}, x \in Words : ~ LastIs(messages', u, x)
<1> DEFINE n == Len(messages)
<1>1. messages \in Seq(Tasks \X Words) /\ n \in Nat /\ <<t, text>> \in Tasks \X Words
  BY DEF DraftTypes
<1>2. /\ messages' # << >> /\ Len(messages') = n + 1 /\ messages'[n + 1] = <<t, text>>
      /\ \A i \in 1..n : messages'[i] = messages[i]
  BY <1>1, AppendProperties
<1>3. \A u \in Tasks, x \in Words : LastIs(messages', u, x) => u = t /\ x = text
  BY <1>2 DEF LastIs
<1>4. LastIsRemembered'
  <2>1. t \notin torn' => Holds(flushed', t, text)
    BY RememberWorks DEF DraftTypes
  <2> QED BY <1>3, <2>1 DEF LastIsRemembered
<1>5. ASSUME NEW i \in 1..n, messages'[i] = messages'[i + 1]
      PROVE  messages'[i][1] \in torn'
  <2>1. CASE i = n
    <3>1. messages[n] = <<t, text>> /\ messages # << >> /\ messages'[i][1] = t
      BY <1>1, <1>2, <1>5, <2>1
    <3>2. LastIs(messages, t, text)
      BY <3>1 DEF LastIs
    <3> QED BY <3>1, <3>2
  <2>2. CASE i # n
    <3>1. i \in 1..n - 1 /\ i + 1 \in 1..n
      BY <1>1, <2>2
    <3>2. messages[i] = messages[i + 1] /\ messages'[i] = messages[i]
      BY <1>2, <1>5, <3>1
    <3> QED BY <3>1, <3>2 DEF NoRepeatedMessage
  <2> QED BY <2>1, <2>2
<1>6. NoRepeatedMessage'
  BY <1>1, <1>2, <1>5 DEF NoRepeatedMessage
<1> QED BY <1>3, <1>4, <1>6

LEMMA RememberedKept ==
  ASSUME DraftTypes, RememberedIsRead, NEW t \in Tasks, NEW text \in Words, torn \subseteq torn',
         \A u \in Tasks : Known(view[u]) \subseteq Known(view'[u]),
         \/ flushed' = flushed
         \/ flushed' = Remember(t, text) /\ (t \notin torn' => text \in Known(view'[t]))
  PROVE  RememberedIsRead'
<1>1. ASSUME NEW m \in Memories, m.task \notin torn', \E j \in 1..Len(flushed) : m = flushed[j]
      PROVE  m.text \in Known(view'[m.task])
  <2>1. m.task \in Tasks
    BY DEF Memories
  <2> QED BY <1>1, <2>1 DEF RememberedIsRead
<1>2. CASE flushed' = flushed
  <2>1. \A i \in 1..Len(flushed) : flushed[i] \in Memories
    BY DEF DraftTypes
  <2> QED BY <1>1, <1>2, <2>1 DEF RememberedIsRead
<1>3. CASE flushed' = Remember(t, text) /\ (t \notin torn' => text \in Known(view'[t]))
  <2>1. flushed' \in Seq(Memories)
    BY <1>3, RememberWorks DEF DraftTypes
  <2>2. \A i \in 1..Len(flushed') : \/ flushed'[i].task = t /\ flushed'[i].text = text
                                    \/ \E j \in 1..Len(flushed) : flushed'[i] = flushed[j]
    BY <1>3, RememberWorks DEF DraftTypes
  <2>3. \A i \in 1..Len(flushed') : flushed'[i] \in Memories
    BY <2>1
  <2> QED BY <1>1, <1>3, <2>2, <2>3 DEF RememberedIsRead
<1> QED BY <1>2, <1>3

\* What an edit may deliver.
Fits(t, chunks, final, text) ==
  /\ NoMessage(chunks) \/ (IsMessage(chunks, text) /\ ~ Holds(flushed, t, text))
  /\ t \notin torn => /\ InStep(turns'[t], TakesAll(Seen(t), chunks))
                      /\ final /\ text # << >> => text \in Known(TakesAll(Seen(t), chunks))

LEMMA DeliverKeeps ==
  ASSUME DraftInv, DraftTypes', NEW t \in Tasks, NEW text \in Words, NEW final \in BOOLEAN,
         Idle(t), NEW chunks \in Seq(Chunks), Deliver(t, chunks, final, text), torn' = torn,
         \A u \in Tasks \ {t} : turns'[u] = turns[u], Fits(t, chunks, final, text)
  PROVE  DraftInv'
<1> DEFINE w == TakesAll(Seen(t), chunks)
<1>1. DraftTypes /\ InStepOfAll /\ OneMessage /\ RememberedIsRead /\ LastIsRemembered
      /\ NextIsAnother /\ NoRepeatedMessage
  BY DEF DraftInv
<1>2. /\ AsSent(w, Seen(t)') /\ Seen(t) = view[t]
      /\ \A u \in Tasks \ {t} : edit'[u] = edit[u] /\ view'[u] = view[u] /\ Seen(u)' = Seen(u)
      /\ \A u \in Tasks : Known(view[u]) \subseteq Known(view'[u])
  BY <1>1, DeliverSeen
<1>3. view[t] \in Views /\ edit[t].left = << >>
  BY <1>1 DEF DraftTypes, Idle
<1>4. IsMessage(chunks, text) => ~ NoMessage(chunks) /\ text \in Known(w)
  BY <1>2, <1>3, MessageShows
<1>w. t \notin torn =>
        /\ ~ w.lost /\ InStep(turns'[t], Seen(t)') /\ Known(w) \subseteq Known(Seen(t)')
        /\ final /\ text # << >> => text \in Known(Seen(t)')
  <2>1. t \notin torn => InStep(turns'[t], w) /\ (final /\ text # << >> => text \in Known(w))
    BY DEF Fits
  <2> HIDE DEF w
  <2> QED BY <1>2, <2>1 DEF InStep, AsSent
<1> HIDE DEF w
<1>5. CASE t \in CallbackTasks /\ chunks # << >>
  <2>1. /\ edit' = [edit EXCEPT ![t] = [left |-> chunks, ok |-> TRUE, final |-> final, text |-> text]]
        /\ UNCHANGED <<view, messages, promised, flushed, replaced>>
    BY <1>5 DEF Deliver
  <2>2. edit'[t].left = chunks /\ edit'[t].ok /\ edit'[t].final = final /\ edit'[t].text = text
    BY <1>1, <2>1 DEF DraftTypes
  <2>3. InStepOfAll'
    <3> SUFFICES ASSUME NEW u \in Tasks, u \notin torn
                 PROVE  /\ edit'[u].ok /\ InStep(turns'[u], Seen(u)')
                        /\ promised'[u] \ {<< >>} \subseteq Known(view'[u])
                        /\ Promising(edit'[u], Seen(u)')
      BY DEF InStepOfAll
    <3>1. CASE u = t
      BY <1>1, <1>2, <1>w, <2>1, <2>2, <3>1 DEF InStepOfAll, Promising
    <3>2. CASE u # t
      BY <1>1, <1>2, <2>1, <3>2 DEF InStepOfAll
    <3> QED BY <3>1, <3>2
  <2>4. OneMessage'
    BY <1>1, <1>2, <2>2 DEF OneMessage, Fits
  <2>5. RememberedIsRead' /\ LastIsRemembered' /\ NoRepeatedMessage'
    BY <1>1, <2>1 DEF RememberedIsRead, LastIsRemembered, NoRepeatedMessage
  <2>6. NextIsAnother'
    <3> SUFFICES ASSUME NEW u \in Tasks, u \notin torn, IsMessage(edit'[u].left, edit'[u].text)
                 PROVE  ~ LastIs(messages, u, edit'[u].text)
      BY <2>1 DEF NextIsAnother
    <3>1. CASE u = t
      BY <1>1, <1>4, <2>2, <3>1 DEF LastIsRemembered, Fits
    <3>2. CASE u # t
      BY <1>1, <1>2, <3>2 DEF NextIsAnother
    <3> QED BY <3>1, <3>2
  <2> QED BY <2>3, <2>4, <2>5, <2>6 DEF DraftInv
<1>6. CASE ~ (t \in CallbackTasks /\ chunks # << >>)
  <2> DEFINE message == chunks # << >> /\ Head(chunks).type = "message"
  <2>1. /\ messages' = IF message THEN Append(messages, <<t, text>>) ELSE messages
        /\ promised' = IF final THEN [promised EXCEPT ![t] = @ \cup {text}] ELSE promised
        /\ flushed' = IF message THEN Remember(t, text) ELSE flushed
        /\ edit' = edit
    BY <1>6 DEF Deliver, Returns
  <2>3. view'[t] = Seen(t)'
    <3>1. edit'[t].left = << >> /\ view'[t] \in Views
      BY <1>3, <2>1 DEF DraftTypes
    <3> QED BY <3>1, TakesNone DEF Seen
  <2>2. message => /\ IsMessage(chunks, text) /\ ~ Holds(flushed, t, text)
                   /\ t \notin torn => text \in Known(view'[t])
    <3>1. message => 1 \in 1..Len(chunks) /\ chunks[1].type = "message"
      OBVIOUS
    <3>2. message => ~ NoMessage(chunks)
      BY <3>1 DEF NoMessage
    <3> QED BY <1>4, <1>w, <2>3, <3>2 DEF Fits
  <2> HIDE DEF message
  <2>4. InStepOfAll'
    <3> SUFFICES ASSUME NEW u \in Tasks, u \notin torn
                 PROVE  /\ edit'[u].ok /\ InStep(turns'[u], Seen(u)')
                        /\ promised'[u] \ {<< >>} \subseteq Known(view'[u])
                        /\ Promising(edit'[u], Seen(u)')
      BY DEF InStepOfAll
    <3>1. CASE u = t
      <4>1. edit'[u].ok /\ InStep(turns'[u], Seen(u)')
        BY <1>1, <1>w, <2>1, <3>1 DEF InStepOfAll
      <4>2. Promising(edit'[u], Seen(u)')
        BY <1>3, <2>1, <3>1 DEF Promising
      <4>3. promised[t] \ {<< >>} \subseteq Known(view'[t])
        BY <1>1, <1>2, <3>1 DEF InStepOfAll
      <4>4. final => text \in Known(view'[t]) \/ text = << >>
        BY <1>w, <2>3, <3>1
      <4>5. promised'[t] \subseteq promised[t] \cup (IF final THEN {text} ELSE {})
        BY <1>1, <2>1 DEF DraftTypes
      <4> QED BY <3>1, <4>1, <4>2, <4>3, <4>4, <4>5
    <3>2. CASE u # t
      <4>1. promised'[u] = promised[u]
        BY <1>1, <2>1, <3>2 DEF DraftTypes
      <4> QED BY <1>1, <1>2, <3>2, <4>1 DEF InStepOfAll
    <3> QED BY <3>1, <3>2
  <2>5. OneMessage'
    BY <1>1, <2>1 DEF OneMessage
  <2>6. RememberedIsRead'
    BY <1>1, <1>2, <2>1, <2>2, <2>3, RememberedKept
  <2>7. CASE message
    <3>1. ~ LastIs(messages, t, text) \/ t \in torn
      BY <1>1, <2>2, <2>7 DEF LastIsRemembered
    <3>2. /\ LastIsRemembered' /\ NoRepeatedMessage'
          /\ \A u \in Tasks \ {t}, x \in Words : ~ LastIs(messages', u, x)
      BY <1>1, <2>1, <2>7, <3>1, MessageKept
    <3>3. ~ IsMessage(edit[t].left, edit[t].text)
      BY <1>3 DEF IsMessage
    <3>4. NextIsAnother'
      BY <1>1, <2>1, <3>2, <3>3 DEF NextIsAnother, DraftTypes, Edits
    <3> QED BY <2>4, <2>5, <2>6, <3>2, <3>4 DEF DraftInv
  <2>8. CASE ~ message
    <3>1. LastIsRemembered' /\ NoRepeatedMessage' /\ NextIsAnother'
      BY <1>1, <2>1, <2>8 DEF LastIsRemembered, NoRepeatedMessage, NextIsAnother
    <3> QED BY <2>4, <2>5, <2>6, <3>1 DEF DraftInv
  <2> QED BY <2>7, <2>8
<1> QED BY <1>5, <1>6
LEMMA EditKeeps ==
  ASSUME DraftInv, DraftTypes', NEW t \in Tasks, NEW text \in Texts, NEW final \in BOOLEAN,
         Edit(t, text, final)
  PROVE  DraftInv'
<1>1. text \in Words /\ Idle(t) /\ torn' = torn
  BY TextIsWords DEF Edit
<1>2. /\ turns \in [Tasks -> States] /\ turns[t] \in States /\ uuids[t] \in Nat
      /\ Seen(t) = view[t] /\ view[t] \in Views
  BY <1>1, TakesNone DEF DraftInv, DraftTypes, Idle, Seen
<1>3. t \notin torn => InStep(turns[t], Seen(t))
  BY DEF DraftInv, InStepOfAll
<1>4. CASE EditOpen(t, text, final)
  <2> DEFINE a == Advanced(t, text, final)
             w == TakesAll(Seen(t), a.chunks)
  <2>1. a.state \in States /\ a.chunks \in Seq(Chunks) /\ NoMessage(a.chunks)
    BY <1>1, <1>2, AdvancedType
  <2>2. t \notin torn =>
          /\ a.state.part # 0 /\ ~ w.lost
          /\ ~ final => w.open /\ w.part = a.state.part /\ w.text = a.state.sent
          /\ final /\ text # << >> => text \in Known(w)
    BY <1>1, <1>2, <1>3, AdvancedShows
  <2>3. /\ turns' = [turns EXCEPT ![t] = IF final THEN NoTurn ELSE a.state]
        /\ Deliver(t, a.chunks, final, text)
    BY <1>4 DEF EditOpen
  <2> HIDE DEF a
  <2>4. turns'[t] = (IF final THEN NoTurn ELSE a.state) /\ \A u \in Tasks \ {t} : turns'[u] = turns[u]
    BY <1>2, <2>3
  <2>5. t \notin torn => InStep(turns'[t], w)
    BY <2>2, <2>4 DEF InStep
  <2>6. Fits(t, a.chunks, final, text)
    <3>1. t \notin torn /\ final /\ text # << >> => text \in Known(w)
      BY <2>2
    <3> HIDE DEF w
    <3>2. w = TakesAll(Seen(t), a.chunks)
      BY DEF w
    <3> QED BY <2>1, <2>5, <3>1, <3>2 DEF Fits
  <2> HIDE DEF w
  <2> QED BY <1>1, <2>1, <2>3, <2>4, <2>6, DeliverKeeps
<1>5. CASE EditEnded(t, text, final)
  <2> DEFINE q == AfterEnd(t, text)
  <2>1. /\ turns' = [turns EXCEPT ![t] = NoTurn]
        /\ Deliver(t, q, final, text)
    BY <1>5 DEF EditEnded, Discard
  <2>2. turns'[t] = NoTurn /\ \A u \in Tasks \ {t} : turns'[u] = turns[u]
    BY <1>2, <2>1
  <2>3. CASE q = << >>
    <3>1. q \in Seq(Chunks) /\ NoMessage(q) /\ TakesAll(Seen(t), q) = Seen(t)
      BY <1>2, <2>3, TakesNone DEF NoMessage
    <3>2. \/ text = << >>
          \/ \E i \in 1..Len(flushed) : flushed[i].task = t /\ flushed[i].text = text
      BY <2>3 DEF AfterEnd, Remembered, DraftInv, DraftTypes
    <3>3. t \notin torn /\ text # << >> => text \in Known(view[t])
      BY <3>2 DEF DraftInv, RememberedIsRead
    <3>4. t \notin torn => InStep(turns'[t], Seen(t))
      BY <1>3, <2>2 DEF InStep
    <3> HIDE DEF q
    <3>5. Fits(t, q, final, text)
      <4>1. NoMessage(q) /\ TakesAll(Seen(t), q) = view[t] /\ Seen(t) = view[t]
        BY <1>2, <3>1
      <4> QED BY <3>3, <3>4, <4>1 DEF Fits
    <3> QED BY <1>1, <2>1, <2>2, <3>1, <3>5, DeliverKeeps
  <2>4. CASE q # << >>
    <3>1. IsMessage(q, text) /\ ~ \E i \in Remembered(t) : flushed[i].text = text
      BY <2>4 DEF AfterEnd, IsMessage
    <3>2. ~ Holds(flushed, t, text)
      BY <3>1 DEF Holds, Remembered, DraftInv, DraftTypes
    <3>3. /\ q \in Seq(Chunks) /\ text \in Known(TakesAll(Seen(t), q))
          /\ t \notin torn => InStep(turns[t], TakesAll(Seen(t), q))
      BY <1>1, <1>2, <1>3, <3>1, MessageShows
    <3>4. t \notin torn => InStep(turns'[t], TakesAll(Seen(t), q))
      BY <2>2, <3>3 DEF InStep
    <3> HIDE DEF q
    <3>5. Fits(t, q, final, text)
      BY <3>1, <3>2, <3>3, <3>4 DEF Fits
    <3> QED BY <1>1, <2>1, <2>2, <3>3, <3>5, DeliverKeeps
  <2> QED BY <2>3, <2>4
<1> QED BY <1>4, <1>5 DEF Edit

LEMMA PostedKeeps ==
  ASSUME DraftInv, DraftTypes', NEW t \in Tasks, NEW copies \in 0..2, NEW ok \in BOOLEAN,
         Posted(t, copies, ok)
  PROVE  DraftInv'
<1> DEFINE e == edit[t]
           c == Head(e.left)
           done == Tail(e.left) = << >>
<1>1. DraftTypes /\ InStepOfAll /\ OneMessage /\ RememberedIsRead /\ LastIsRemembered
      /\ NextIsAnother /\ NoRepeatedMessage
  BY DEF DraftInv
<1>2. /\ torn \subseteq torn' /\ torn' \subseteq torn \cup {t}
      /\ \A u \in Tasks \ {t} : edit'[u] = edit[u] /\ view'[u] = view[u] /\ Seen(u)' = Seen(u)
      /\ \A u \in Tasks : Known(view[u]) \subseteq Known(view'[u])
      /\ e.left # << >> /\ c \in Chunks /\ edit'[t].left = Tail(e.left)
      /\ t \notin torn' =>
           /\ ok /\ copies = 1
           /\ view'[t] = Takes(view[t], c)
           /\ Seen(t)' = Seen(t)
  <2>1. /\ torn \subseteq torn' /\ torn' \subseteq torn \cup {t}
        /\ \A u \in Tasks \ {t} : edit'[u] = edit[u] /\ view'[u] = view[u] /\ Seen(u)' = Seen(u)
    BY <1>1, PostedSeen
  <2>2. \A u \in Tasks : Known(view[u]) \subseteq Known(view'[u])
    BY <1>1, PostedSeen
  <2>3. /\ edit[t].left # << >> /\ Head(edit[t].left) \in Chunks
        /\ edit'[t].left = Tail(edit[t].left)
    BY <1>1, PostedSeen
  <2>4. t \notin torn' =>
          /\ ok /\ copies = 1
          /\ view'[t] = Takes(view[t], Head(edit[t].left))
          /\ Seen(t)' = Seen(t)
    BY <1>1, PostedSeen
  <2> QED BY <2>1, <2>2, <2>3, <2>4
<1>3. /\ turns' = turns
      /\ messages' = IF c.type = "message" /\ copies > 0
                     THEN Append(messages, <<t, e.text>>) ELSE messages
      /\ edit' = [edit EXCEPT ![t] =
                    IF done THEN NoEdit ELSE [e EXCEPT !.left = Tail(@), !.ok = @ /\ ok]]
      /\ promised' = IF done /\ e.ok /\ ok /\ e.final
                     THEN [promised EXCEPT ![t] = @ \cup {e.text}] ELSE promised
      /\ flushed' = IF done /\ e.ok /\ ok /\ c.type = "message"
                    THEN Remember(t, e.text) ELSE flushed
      /\ ok => copies > 0
  BY DEF Posted, Returns
<1>4. e \in Edits /\ view[t] \in Views /\ e.left \in Seq(Chunks) /\ e.text \in Words
  BY <1>1 DEF DraftTypes, Edits
<1>5. edit'[t] = IF done THEN NoEdit ELSE [e EXCEPT !.left = Tail(@), !.ok = @ /\ ok]
  BY <1>1, <1>3 DEF DraftTypes
<1>6. t \notin torn' =>
        /\ edit'[t].ok
        /\ ~ done => edit'[t].final = e.final /\ edit'[t].text = e.text
  <2>1. t \notin torn' => e.ok /\ ok
    BY <1>1, <1>2 DEF InStepOfAll
  <2>2. CASE done
    <3>1. edit'[t] = NoEdit
      BY <1>5, <2>2
    <3>2. NoEdit.ok
      BY DEF NoEdit
    <3> QED BY <2>2, <3>1, <3>2
  <2>3. CASE ~ done
    <3> HIDE DEF e
    <3> QED BY <1>4, <1>5, <2>1, <2>3 DEF Edits
  <2> QED BY <2>2, <2>3
\* A message is the only chunk of its edit.
<1>7. c.type = "message" => IsMessage(e.left, e.text) /\ done
  <2>1. e.left[1] = c /\ 1 \in 1..Len(e.left)
    BY <1>2, <1>4
  <2>2. c.type = "message" => IsMessage(e.left, e.text)
    BY <1>1, <2>1 DEF OneMessage, NoMessage
  <2>3. IsMessage(e.left, e.text) => Tail(e.left) = << >>
    BY <1>4, MessageShows
  <2> QED BY <2>2, <2>3
<1>8. InStepOfAll'
  <2> SUFFICES ASSUME NEW u \in Tasks, u \notin torn'
               PROVE  /\ edit'[u].ok /\ InStep(turns'[u], Seen(u)')
                      /\ promised'[u] \ {<< >>} \subseteq Known(view'[u])
                      /\ Promising(edit'[u], Seen(u)')
    BY DEF InStepOfAll
  <2>1. /\ edit[u].ok /\ InStep(turns[u], Seen(u))
        /\ promised[u] \ {<< >>} \subseteq Known(view[u]) /\ Promising(edit[u], Seen(u))
    BY <1>1, <1>2 DEF InStepOfAll
  <2>2. CASE u = t
    <3>1. edit'[u].ok /\ InStep(turns'[u], Seen(u)')
      BY <1>2, <1>3, <1>6, <2>1, <2>2
    <3>2. Promising(edit'[u], Seen(u)')
      BY <1>2, <1>6, <2>1, <2>2 DEF Promising
    <3>3. done => view'[t] = Seen(t)
      <4>1. done => Seen(t) = Takes(view[t], c)
        <5>1. TakesAll(Takes(view[t], c), Tail(e.left)) = Seen(t) /\ Takes(view[t], c) \in Views
          BY <1>2, <1>4, TakesFirst, TakesType DEF Seen
        <5> QED BY <5>1, TakesNone
      <4> QED BY <1>2, <2>2, <4>1
    <3>4. done /\ e.final => e.text \in Known(view'[t]) \/ e.text = << >>
      BY <1>2, <2>1, <2>2, <3>3 DEF Promising
    <3>5. promised'[t] \subseteq promised[t] \cup (IF done /\ e.final THEN {e.text} ELSE {})
      BY <1>1, <1>3 DEF DraftTypes
    <3>6. promised[t] \ {<< >>} \subseteq Known(view'[t])
      BY <1>2, <2>1, <2>2
    <3> QED BY <2>2, <3>1, <3>2, <3>4, <3>5, <3>6
  <2>3. CASE u # t
    <3>1. promised'[u] = promised[u]
      BY <1>1, <1>3, <2>3 DEF DraftTypes
    <3> QED BY <1>2, <1>3, <2>1, <2>3, <3>1
  <2> QED BY <2>2, <2>3
<1>9. OneMessage' /\ ~ IsMessage(Tail(e.left), edit'[t].text)
  <2>1. /\ Len(Tail(e.left)) = Len(e.left) - 1 /\ Len(e.left) \in Nat
        /\ \A i \in 1..Len(Tail(e.left)) : Tail(e.left)[i] = e.left[i + 1] /\ i + 1 \in 1..Len(e.left)
    BY <1>2, <1>4, HeadTailProperties
  <2>2. NoMessage(e.left) => NoMessage(Tail(e.left))
    BY <2>1 DEF NoMessage
  <2>3. IsMessage(e.left, e.text) => NoMessage(Tail(e.left))
    <3>1. NoMessage(<< >>)
      BY DEF NoMessage
    <3>2. IsMessage(e.left, e.text) => Tail(e.left) = << >>
      BY DEF IsMessage
    <3> QED BY <3>1, <3>2
  <2>4. NoMessage(Tail(e.left))
    BY <1>1, <2>2, <2>3 DEF OneMessage
  <2>5. ~ IsMessage(Tail(e.left), edit'[t].text)
    <3>1. edit'[t].text \in Words
      BY DEF DraftTypes, Edits
    <3> QED BY <1>4, <2>4, <3>1, MessageShows
  <2> QED BY <1>1, <1>2, <2>4, <2>5 DEF OneMessage
<1>10. RememberedIsRead'
  <2>1. t \notin torn' /\ c.type = "message" => e.text \in Known(view'[t])
    <3>1. IsMessage(e.left, e.text) => e.text \in Known(Seen(t))
      BY <1>4, MessageShows DEF Seen
    <3>2. c.type = "message" => Seen(t) = Takes(view[t], c)
      <4>1. TakesAll(Takes(view[t], c), Tail(e.left)) = Seen(t) /\ Takes(view[t], c) \in Views
        BY <1>2, <1>4, TakesFirst, TakesType DEF Seen
      <4> QED BY <1>7, <4>1, TakesNone
    <3> QED BY <1>2, <1>7, <3>1, <3>2
  <2> HIDE DEF e, c, done
  <2> QED BY <1>1, <1>2, <1>3, <1>4, <2>1, RememberedKept
<1>11. CASE c.type = "message" /\ copies > 0
  <2>1. messages' = Append(messages, <<t, e.text>>)
    BY <1>3, <1>11
  <2>2. t \notin torn' => ~ LastIs(messages, t, e.text) /\ flushed' = Remember(t, e.text)
    <3>1. t \notin torn' => t \notin torn /\ e.ok /\ ok
      BY <1>1, <1>2 DEF InStepOfAll
    <3>2. t \notin torn' => ~ LastIs(messages, t, e.text)
      BY <1>1, <1>7, <1>11, <3>1 DEF NextIsAnother
    <3> QED BY <1>3, <1>7, <1>11, <3>1, <3>2
  <2>3. /\ LastIsRemembered' /\ NoRepeatedMessage'
        /\ \A u \in Tasks \ {t}, x \in Words : ~ LastIs(messages', u, x)
    <3> HIDE DEF e
    <3> QED BY <1>1, <1>2, <1>4, <2>1, <2>2, MessageKept
  <2>4. ~ IsMessage(edit'[t].left, edit'[t].text)
    BY <1>2, <1>9
  <2>5. \A u \in Tasks \ {t} : edit'[u].text \in Words
    BY <1>1, <1>2 DEF DraftTypes, Edits
  <2>6. NextIsAnother'
    BY <2>3, <2>4, <2>5 DEF NextIsAnother
  <2> QED BY <1>8, <1>9, <1>10, <2>3, <2>6 DEF DraftInv
<1>12. CASE ~ (c.type = "message" /\ copies > 0)
  <2>1. messages' = messages /\ flushed' = flushed
    BY <1>3, <1>12
  <2>2. LastIsRemembered' /\ NoRepeatedMessage'
    BY <1>1, <1>2, <2>1 DEF LastIsRemembered, NoRepeatedMessage
  <2>3. ~ IsMessage(edit'[t].left, edit'[t].text)
    BY <1>2, <1>9
  <2>4. NextIsAnother'
    BY <1>1, <1>2, <2>1, <2>3 DEF NextIsAnother
  <2> QED BY <1>8, <1>9, <1>10, <2>2, <2>4 DEF DraftInv
<1> QED BY <1>11, <1>12

LEMMA OthersKeep ==
  ASSUME DraftInv, DraftTypes',
         \/ \E t \in Tasks : Terminate(t) \/ TimesOut(t) \/ DispatchEnds(t)
         \/ Disconnect \/ UNCHANGED vars
  PROVE  DraftInv'
<1>1. DraftTypes /\ InStepOfAll /\ OneMessage /\ RememberedIsRead /\ LastIsRemembered
      /\ NextIsAnother /\ NoRepeatedMessage
  BY DEF DraftInv
<1>2. CASE (\E t \in Tasks : Terminate(t)) \/ UNCHANGED vars
  <2>1. UNCHANGED <<turns, edit, view, flushed, messages, promised, torn>>
    BY <1>2 DEF Terminate, vars
  <2>2. \A u \in Tasks : Seen(u)' = Seen(u)
    BY <2>1 DEF Seen
  <2> QED BY <1>1, <2>1, <2>2 DEF DraftInv, InStepOfAll, OneMessage, RememberedIsRead,
              LastIsRemembered, NextIsAnother, NoRepeatedMessage
<1>3. ASSUME NEW t \in Tasks, DispatchEnds(t)
      PROVE  DraftInv'
  <2>1. UNCHANGED <<edit, view, flushed, messages, promised, torn>> /\ turns' = [turns EXCEPT ![t] = NoTurn]
    BY <1>3 DEF DispatchEnds, Discard
  <2>2. \A u \in Tasks : Seen(u)' = Seen(u) /\ turns'[u] \in {turns[u], NoTurn}
    BY <1>1, <2>1 DEF Seen, DraftTypes
  <2>3. InStepOfAll'
    BY <1>1, <2>1, <2>2 DEF InStepOfAll, InStep
  <2> QED BY <1>1, <2>1, <2>3 DEF DraftInv, OneMessage, RememberedIsRead,
              LastIsRemembered, NextIsAnother, NoRepeatedMessage
<1>4. CASE Disconnect
  <2>1. /\ UNCHANGED <<edit, view, promised, torn>> /\ turns' = [t \in Tasks |-> NoTurn]
        /\ flushed' = << >> /\ messages' = << >>
    BY <1>4 DEF Disconnect
  <2>2. \A u \in Tasks : Seen(u)' = Seen(u) /\ turns'[u] = NoTurn
    BY <2>1 DEF Seen
  <2>3. InStepOfAll'
    BY <1>1, <2>1, <2>2 DEF InStepOfAll, InStep
  <2>4. OneMessage' /\ RememberedIsRead'
    BY <1>1, <2>1 DEF OneMessage, RememberedIsRead
  <2>5. LastIsRemembered' /\ NextIsAnother' /\ NoRepeatedMessage'
    BY <1>1, <2>1 DEF LastIsRemembered, NextIsAnother, LastIs, NoRepeatedMessage
  <2> QED BY <2>3, <2>4, <2>5 DEF DraftInv
<1>5. ASSUME NEW t \in Tasks, TimesOut(t)
      PROVE  DraftInv'
  <2>1. UNCHANGED <<turns, flushed, view, messages, promised>>
    BY <1>5 DEF TimesOut
  <2>2. /\ torn \subseteq torn' /\ torn' \subseteq torn \cup {t}
        /\ \A u \in Tasks \ torn' : (u = t => edit[u].left = << >>) /\ edit'[u].left = edit[u].left /\ Seen(u)' = Seen(u)
        /\ \A u \in Tasks \ {t} : edit'[u] = edit[u] /\ Seen(u)' = Seen(u)
        /\ edit'[t] = NoEdit
    BY <1>1, <1>5, TimesOutSeen
  <2>3. NoEdit.left = << >> /\ NoEdit.ok /\ NoMessage(<< >>) /\ \A x : ~ IsMessage(<< >>, x)
    BY DEF NoEdit, NoMessage, IsMessage
  <2>4. InStepOfAll'
    <3> SUFFICES ASSUME NEW u \in Tasks, u \notin torn'
                 PROVE  /\ edit'[u].ok /\ InStep(turns'[u], Seen(u)')
                        /\ promised'[u] \ {<< >>} \subseteq Known(view'[u])
                        /\ Promising(edit'[u], Seen(u)')
      BY DEF InStepOfAll
    <3>1. /\ edit[u].ok /\ InStep(turns[u], Seen(u))
          /\ promised[u] \ {<< >>} \subseteq Known(view[u]) /\ Promising(edit[u], Seen(u))
      BY <1>1, <2>2 DEF InStepOfAll
    <3> QED BY <2>1, <2>2, <2>3, <3>1 DEF Promising
  <2>5. OneMessage' /\ NextIsAnother'
    BY <1>1, <2>1, <2>2, <2>3 DEF OneMessage, NextIsAnother
  <2>6. RememberedIsRead' /\ LastIsRemembered' /\ NoRepeatedMessage'
    BY <1>1, <2>1, <2>2 DEF RememberedIsRead, LastIsRemembered, NoRepeatedMessage
  <2> QED BY <2>4, <2>5, <2>6 DEF DraftInv
<1> QED BY <1>2, <1>3, <1>4, <1>5

LEMMA DraftStep == DraftInv /\ [Next]_vars => DraftInv'
<1> SUFFICES ASSUME DraftInv, [Next]_vars PROVE DraftInv'
  OBVIOUS
<1>1. DraftTypes'
  BY TypesStep DEF DraftInv
<1> QED BY <1>1, EditKeeps, PostedKeeps, OthersKeep DEF Next

LEMMA DraftInit == Init => DraftInv
<1> SUFFICES ASSUME Init PROVE DraftInv
  OBVIOUS
<1>1. NoTurn \in States /\ NoEdit \in Edits /\ NoEdit.left = << >> /\ NoEdit.ok
  BY DEF NoTurn, NoEdit, States, Edits, Words
<1>2. view \in [Tasks -> Views] /\ \A t \in Tasks : ~ view[t].lost
  BY DEF Init, Views, Words
<1>3. DraftTypes
  BY <1>1, <1>2 DEF Init, DraftTypes
<1>4. \A t \in Tasks : Seen(t) = view[t] /\ turns[t] = NoTurn /\ edit[t] = NoEdit /\ promised[t] = {}
  BY <1>1, <1>2, TakesNone DEF Init, Seen
<1>5. InStepOfAll
  BY <1>1, <1>2, <1>4 DEF InStepOfAll, InStep, Promising
<1>6. OneMessage /\ NextIsAnother
  <2>1. NoMessage(<< >>) /\ \A text : ~ IsMessage(<< >>, text)
    BY DEF NoMessage, IsMessage
  <2>2. \A t \in Tasks : edit[t].left = << >>
    BY <1>1, <1>4
  <2> QED BY <2>1, <2>2 DEF OneMessage, NextIsAnother
<1>7. RememberedIsRead /\ LastIsRemembered /\ NoRepeatedMessage
  BY DEF Init, RememberedIsRead, LastIsRemembered, LastIs, NoRepeatedMessage
<1> QED BY <1>3, <1>5, <1>6, <1>7 DEF DraftInv

LEMMA DraftAlways == Spec => []DraftInv
BY DraftInit, DraftStep, PTL DEF Spec
\* Whatever is rewritten, ended, forgotten or cleared, and however chunks and
\* terminals interleave, a client whose chunks arrive can place each of them.
THEOREM ChunksFindTheirPlace == Spec => []EveryChunkHasItsPlace
<1>1. DraftInv => EveryChunkHasItsPlace
  <2> SUFFICES ASSUME DraftInv, NEW t \in Tasks, t \notin torn PROVE ~ view[t].lost
    BY DEF EveryChunkHasItsPlace
  <2>1. view[t] \in Views /\ edit[t].left \in Seq(Chunks) /\ ~ Seen(t).lost
    BY DEF DraftInv, DraftTypes, InStepOfAll, InStep, Edits
  <2> QED BY <2>1, TakesAllType DEF Seen
<1> QED BY <1>1, DraftAlways, PTL

\* An edit that returns success for a final draft has shown it, on the stream or
\* by callback, before its turn ended or after, or an error came in its place.
THEOREM FinalTextsAreShown == Spec => []FinalTextShown
<1>1. DraftInv => FinalTextShown
  BY DEF DraftInv, InStepOfAll, FinalTextShown, Known
<1> QED BY <1>1, DraftAlways, PTL

\* A text is not delivered twice in a row as a message of an ended turn, however
\* small the memory of ended turns is.
THEOREM MessagesDiffer == Spec => []NoRepeatedMessage
<1>1. DraftInv => NoRepeatedMessage
  BY DEF DraftInv
<1> QED BY <1>1, DraftAlways, PTL
-----------------------------------------------------------------------------
(* The refinement of Display.                                              *)

Showing == [t \in Tasks |-> IF t \in Cut THEN << >> ELSE Seen(t).text]
LastDrafts == [t \in Tasks |-> IF t \in Cut THEN << >> ELSE turns[t].last]
Begun == {t \in Tasks \ Cut : turns[t] # NoTurn}

\* The steps of Display on these.
ShowsIn(t, text) ==
  Showing' = [Showing EXCEPT ![t] = IF text # << >> THEN text
                                    ELSE IF t \in Begun THEN Showing[t] ELSE << >>]
EndsIn(t) == LastDrafts' = [LastDrafts EXCEPT ![t] = << >>] /\ Begun' = Begun \ {t}

LEMMA DisplaySteps ==
  /\ UNCHANGED <<Showing, LastDrafts, Begun, Cut>> => UNCHANGED Shows!vars
  /\ \A t \in Tasks \ Cut :
       /\ EndsIn(t) /\ UNCHANGED <<Showing, Cut>> => Shows!Next
       /\ \A text \in Texts : ShowsIn(t, text) /\ EndsIn(t) /\ Cut' = Cut => Shows!Next
       /\ \A text \in Texts :
            /\ ShowsIn(t, LongestCommonPrefix({LastDrafts[t], text}))
            /\ LastDrafts' = [LastDrafts EXCEPT ![t] = text]
            /\ Begun' = Begun \cup {t} /\ Cut' = Cut
            => Shows!Next
       /\ EndsIn(t) /\ Cut' = Cut \cup {t} /\ Showing' = [Showing EXCEPT ![t] = << >>] => Shows!Next
  /\ LastDrafts' = [t \in Tasks |-> << >>] /\ Begun' = {} /\ UNCHANGED <<Showing, Cut>> => Shows!Next
  /\ Showing = [t \in Tasks |-> << >>] /\ LastDrafts = [t \in Tasks |-> << >>] /\ Begun = {} /\ Cut = {}
       => Shows!Init
<1> USE DEF Showing, LastDrafts, Begun, Seen
<1>1. UNCHANGED <<Showing, LastDrafts, Begun, Cut>> => UNCHANGED Shows!vars
  BY DEF Shows!vars
<1>2. ASSUME NEW t \in Tasks \ Cut, EndsIn(t) /\ UNCHANGED <<Showing, Cut>>
      PROVE  Shows!Next
  BY <1>2 DEF Shows!Next, Shows!GiveUp, Shows!Ends, EndsIn
<1>3. ASSUME NEW t \in Tasks \ Cut, NEW text \in Texts, ShowsIn(t, text) /\ EndsIn(t) /\ Cut' = Cut
      PROVE  Shows!Next
  BY <1>3 DEF Shows!Next, Shows!Final, Shows!Show, Shows!Ends, EndsIn, ShowsIn
<1>4. ASSUME NEW t \in Tasks \ Cut, NEW text \in Texts,
            /\ ShowsIn(t, LongestCommonPrefix({LastDrafts[t], text}))
            /\ LastDrafts' = [LastDrafts EXCEPT ![t] = text]
            /\ Begun' = Begun \cup {t} /\ Cut' = Cut
      PROVE  Shows!Next
  <2> DEFINE both == {LastDrafts[t], text}
  <2>1. Shows!LongestCommonPrefix(both) = LongestCommonPrefix(both)
    BY DEF Shows!LongestCommonPrefix, Shows!CommonPrefixes, Shows!Prefixes, Shows!IsPrefix,
           LongestCommonPrefix, CommonPrefixes, Prefixes, IsPrefix
  <2>2. Shows!Show(t, LongestCommonPrefix(both))
    BY <1>4 DEF Shows!Show, ShowsIn
  <2>3. Shows!Draft(t, text)
    <3>1. Shows!Show(t, Shows!LongestCommonPrefix(both))
      BY <2>1, <2>2 DEF Shows!Show
    <3> QED BY <1>4, <3>1 DEF Shows!Draft
  <2> QED BY <1>4, <2>3 DEF Shows!Next
<1>5. ASSUME NEW t \in Tasks \ Cut,
             EndsIn(t) /\ Cut' = Cut \cup {t} /\ Showing' = [Showing EXCEPT ![t] = << >>]
      PROVE  Shows!Next
  BY <1>5 DEF Shows!Next, Shows!Tear, Shows!Ends, EndsIn
<1>6. ASSUME LastDrafts' = [t \in Tasks |-> << >>] /\ Begun' = {} /\ UNCHANGED <<Showing, Cut>>
      PROVE  Shows!Next
  BY <1>6 DEF Shows!Next, Shows!GiveUpAll
<1>7. ASSUME Showing = [t \in Tasks |-> << >>] /\ LastDrafts = [t \in Tasks |-> << >>] /\ Begun = {} /\ Cut = {}
      PROVE  Shows!Init
  BY <1>7 DEF Shows!Init
<1> QED BY <1>1, <1>2, <1>3, <1>4, <1>5, <1>6, <1>7
\* The other tasks look the same.
SameFor(T) == \A u \in T : Seen(u)' = Seen(u) /\ turns'[u] = turns[u]

LEMMA NothingChanges ==
  ASSUME SameFor(Tasks \ Cut), Cut' = Cut
  PROVE  UNCHANGED <<Showing, LastDrafts, Begun, Cut>>
BY DEF SameFor, Showing, LastDrafts, Begun

LEMMA OneChanges ==
  ASSUME NEW t \in Tasks \ Cut, SameFor(Tasks \ (Cut \cup {t})), Cut' = Cut
  PROVE  /\ Showing' = [Showing EXCEPT ![t] = Seen(t)'.text]
         /\ LastDrafts' = [LastDrafts EXCEPT ![t] = turns'[t].last]
         /\ Begun' = IF turns'[t] # NoTurn THEN Begun \cup {t} ELSE Begun \ {t}
         /\ Showing[t] = Seen(t).text /\ LastDrafts[t] = turns[t].last
         /\ t \in Begun <=> turns[t] # NoTurn
BY DEF SameFor, Showing, LastDrafts, Begun

LEMMA OneIsTorn ==
  ASSUME NEW t \in Tasks \ Cut, SameFor(Tasks \ (Cut \cup {t})), Cut' = Cut \cup {t}
  PROVE  Shows!Next
<1>1. Showing' = [Showing EXCEPT ![t] = << >>] /\ EndsIn(t)
  BY DEF SameFor, Showing, LastDrafts, Begun, EndsIn
<1> QED BY <1>1, DisplaySteps

LEMMA EditShows ==
  ASSUME DraftInv, NEW t \in Tasks, NEW text \in Texts, NEW final \in BOOLEAN,
         Edit(t, text, final)
  PROVE  [Shows!Next]_Shows!vars
<1>1. /\ text \in Words /\ Idle(t) /\ torn' = torn /\ DraftTypes /\ turns \in [Tasks -> States]
      /\ turns[t] \in States /\ uuids[t] \in Nat
  BY TextIsWords DEF Edit, DraftInv, DraftTypes
<1>2. ASSUME NEW chunks \in Seq(Chunks), NEW s, Deliver(t, chunks, final, text),
             turns' = [turns EXCEPT ![t] = s]
      PROVE  /\ SameFor(Tasks \ {t}) /\ turns'[t] = s
             /\ Cut' \in {Cut, Cut \cup {t}}
             /\ t \notin Cut' => Seen(t)' = TakesAll(Seen(t), chunks)
  <2>1. /\ t \notin replaced' => Seen(t)' = TakesAll(Seen(t), chunks)
        /\ replaced' \in {replaced, replaced \cup {t}}
        /\ \A u \in Tasks \ {t} : Seen(u)' = Seen(u)
    BY <1>1, <1>2, DeliverSeen
  <2>3. Cut' \in {Cut, Cut \cup {t}} /\ (t \notin Cut' => t \notin replaced')
    BY <1>1, <2>1 DEF Cut
  <2>2. turns'[t] = s /\ \A u \in Tasks \ {t} : turns'[u] = turns[u]
    BY <1>1, <1>2
  <2> QED BY <2>1, <2>2, <2>3 DEF SameFor
<1>3. PICK chunks, s :
        chunks \in Seq(Chunks) /\ Deliver(t, chunks, final, text) /\ turns' = [turns EXCEPT ![t] = s]
        /\ \/ /\ chunks = Advanced(t, text, final).chunks
              /\ s = IF final THEN NoTurn ELSE Advanced(t, text, final).state
           \/ chunks = AfterEnd(t, text) /\ s = NoTurn
  <2>1. Advanced(t, text, final).chunks \in Seq(Chunks) /\ AfterEnd(t, text) \in Seq(Chunks)
    BY <1>1, AdvancedType, ChunkType DEF AfterEnd
  <2>2. CASE EditOpen(t, text, final)
    BY <2>1, <2>2 DEF EditOpen
  <2>3. CASE EditEnded(t, text, final)
    BY <2>1, <2>3 DEF EditEnded, Discard
  <2> QED BY <2>2, <2>3 DEF Edit
<1>4. /\ SameFor(Tasks \ {t}) /\ turns'[t] = s /\ Cut' \in {Cut, Cut \cup {t}}
      /\ t \notin Cut' => Seen(t)' = TakesAll(Seen(t), chunks)
  BY <1>2, <1>3
<1>5. CASE t \in Cut
  <2>1. SameFor(Tasks \ Cut)
    BY <1>4, <1>5 DEF SameFor
  <2>2. Cut' = Cut
    BY <1>4, <1>5
  <2> QED BY <2>1, <2>2, NothingChanges, DisplaySteps
<1>7. CASE t \notin Cut /\ t \in Cut'
  <2>1. SameFor(Tasks \ (Cut \cup {t})) /\ Cut' = Cut \cup {t}
    BY <1>4, <1>7 DEF SameFor
  <2> QED BY <1>7, <2>1, OneIsTorn
<1>6. CASE t \notin Cut /\ t \notin Cut'
  <2>0. Cut' = Cut /\ Seen(t)' = TakesAll(Seen(t), chunks)
    BY <1>4, <1>6
  <2>1. SameFor(Tasks \ (Cut \cup {t}))
    BY <1>4 DEF SameFor
  <2>2. /\ Showing' = [Showing EXCEPT ![t] = Seen(t)'.text]
        /\ LastDrafts' = [LastDrafts EXCEPT ![t] = turns'[t].last]
        /\ Begun' = IF turns'[t] # NoTurn THEN Begun \cup {t} ELSE Begun \ {t}
        /\ Showing[t] = Seen(t).text /\ LastDrafts[t] = turns[t].last
        /\ t \in Begun <=> turns[t] # NoTurn
    BY <1>6, <2>0, <2>1, OneChanges
  <2>3. InStep(turns[t], Seen(t)) /\ Seen(t) \in Views
    <3>1. Seen(t) = view[t] /\ view[t] \in Views
      BY <1>1, TakesNone DEF DraftTypes, Idle, Seen
    <3> QED BY <1>6, <3>1 DEF DraftInv, InStepOfAll, Cut
  <2>4. NoTurn.last = << >>
    BY DEF NoTurn
  <2>5. CASE /\ chunks = Advanced(t, text, final).chunks
             /\ s = IF final THEN NoTurn ELSE Advanced(t, text, final).state
    <3> DEFINE a == Advanced(t, text, final)
               settled == Settled(turns[t], text, final)
    <3>1. /\ a.state.part # 0 /\ a.state.last = text
          /\ TakesAll(Seen(t), a.chunks).text = Displayed(turns[t], Seen(t), settled)
      BY <1>1, <2>3, AdvancedShows
    <3> HIDE DEF a
    <3>2. Seen(t)'.text = Displayed(turns[t], Seen(t), settled)
      BY <2>0, <2>5, <3>1 DEF a
    <3>3. ShowsIn(t, settled)
      BY <2>2, <3>2 DEF ShowsIn, Displayed
    <3>4. CASE final
      <4>1. settled = text /\ turns'[t] = NoTurn
        BY <1>4, <2>5, <3>4 DEF Settled
      <4>2. EndsIn(t)
        BY <2>2, <2>4, <4>1 DEF EndsIn
      <4>3. ShowsIn(t, text)
        BY <3>3, <4>1
      <4> QED BY <1>6, <2>0, <4>2, <4>3, DisplaySteps
    <3>5. CASE ~ final
      <4>1. settled = LongestCommonPrefix({LastDrafts[t], text}) /\ turns'[t] = a.state
        BY <1>4, <2>2, <2>5, <3>5 DEF Settled, a
      <4>2. turns'[t] # NoTurn /\ turns'[t].last = text
        BY <3>1, <4>1 DEF NoTurn
      <4>3. ShowsIn(t, LongestCommonPrefix({LastDrafts[t], text}))
        BY <3>3, <4>1
      <4> QED BY <1>6, <2>0, <2>2, <4>2, <4>3, DisplaySteps
    <3> QED BY <3>4, <3>5
  <2>6. CASE chunks = AfterEnd(t, text) /\ s = NoTurn
    <3>1. chunks = << >> \/ IsMessage(chunks, text)
      BY <2>6 DEF AfterEnd, IsMessage
    <3>2. Seen(t)'.text = Seen(t).text
      BY <1>1, <2>0, <2>3, <3>1, TakesNone, MessageShows
    <3>3. Showing' = Showing
      BY <1>6, <2>2, <3>2 DEF Showing
    <3>4. EndsIn(t)
      BY <1>4, <2>2, <2>4, <2>6 DEF EndsIn
    <3> QED BY <1>6, <2>0, <3>3, <3>4, DisplaySteps
  <2> QED BY <1>3, <2>5, <2>6
<1> QED BY <1>5, <1>6, <1>7

LEMMA StepShows == DraftInv /\ [Next]_vars => [Shows!Next]_Shows!vars
<1> SUFFICES ASSUME DraftInv, [Next]_vars PROVE [Shows!Next]_Shows!vars
  OBVIOUS
<1>1. DraftTypes
  BY DEF DraftInv
<1>2. ASSUME NEW t \in Tasks, Cut' \in {Cut, Cut \cup {t}}, turns' = turns,
             \A u \in Tasks \ {t} : Seen(u)' = Seen(u), t \notin Cut' => Seen(t)' = Seen(t)
      PROVE  [Shows!Next]_Shows!vars
  <2>1. CASE Cut' = Cut
    <3>1. SameFor(Tasks \ Cut)
      BY <1>2, <2>1 DEF SameFor
    <3> QED BY <2>1, <3>1, NothingChanges, DisplaySteps
  <2>2. CASE Cut' # Cut
    <3>1. SameFor(Tasks \ (Cut \cup {t})) /\ t \notin Cut /\ Cut' = Cut \cup {t}
      BY <1>2, <2>2 DEF SameFor
    <3> QED BY <3>1, OneIsTorn
  <2> QED BY <2>1, <2>2
<1>3. ASSUME NEW t \in Tasks, NEW copies \in 0..2, NEW ok \in BOOLEAN, Posted(t, copies, ok)
      PROVE  [Shows!Next]_Shows!vars
  <2>1. turns' = turns /\ torn' \in {torn, torn \cup {t}} /\ replaced' = replaced
    BY <1>3 DEF Posted
  <2>2. Cut' \in {Cut, Cut \cup {t}} /\ (t \notin Cut' => t \notin torn')
    BY <2>1 DEF Cut
  <2> QED BY <1>1, <1>2, <1>3, <2>1, <2>2, PostedSeen
<1>4. ASSUME NEW t \in Tasks, TimesOut(t)
      PROVE  [Shows!Next]_Shows!vars
  <2>1. turns' = turns /\ torn' \in {torn, torn \cup {t}} /\ replaced' = replaced
    BY <1>4 DEF TimesOut
  <2>2. Cut' \in {Cut, Cut \cup {t}} /\ (t \notin Cut' => t \notin torn')
    BY <2>1 DEF Cut
  <2> QED BY <1>1, <1>2, <1>4, <2>1, <2>2, TimesOutSeen
<1>5. CASE (\E t \in Tasks : Terminate(t)) \/ UNCHANGED vars
  <2>1. UNCHANGED <<turns, edit, view, Cut>>
    BY <1>5 DEF Terminate, vars, Cut
  <2>2. SameFor(Tasks \ Cut)
    BY <2>1 DEF SameFor, Seen
  <2> QED BY <2>1, <2>2, NothingChanges, DisplaySteps
<1>6. ASSUME NEW t \in Tasks, DispatchEnds(t)
      PROVE  [Shows!Next]_Shows!vars
  <2>1. UNCHANGED <<edit, view, Cut>> /\ turns' = [turns EXCEPT ![t] = NoTurn]
    BY <1>6 DEF DispatchEnds, Discard, Cut
  <2>2. Seen(t)' = Seen(t) /\ turns'[t] = NoTurn /\ SameFor(Tasks \ {t})
    BY <1>1, <2>1 DEF SameFor, Seen, DraftTypes
  <2>3. CASE t \in Cut
    <3>1. SameFor(Tasks \ Cut)
      BY <2>2, <2>3 DEF SameFor
    <3> QED BY <2>1, <3>1, NothingChanges, DisplaySteps
  <2>4. CASE t \notin Cut
    <3>1. SameFor(Tasks \ (Cut \cup {t}))
      BY <2>2 DEF SameFor
    <3>2. /\ Showing' = [Showing EXCEPT ![t] = Seen(t)'.text] /\ Showing[t] = Seen(t).text
          /\ LastDrafts' = [LastDrafts EXCEPT ![t] = turns'[t].last]
          /\ Begun' = IF turns'[t] # NoTurn THEN Begun \cup {t} ELSE Begun \ {t}
      BY <2>1, <2>4, <3>1, OneChanges
    <3>3. Showing' = Showing
      BY <2>2, <3>2 DEF Showing
    <3>4. EndsIn(t)
      BY <2>2, <3>2 DEF EndsIn, NoTurn
    <3> QED BY <2>1, <2>4, <3>3, <3>4, DisplaySteps
  <2> QED BY <2>3, <2>4
<1>7. CASE Disconnect
  <2>1. UNCHANGED <<edit, view, Cut>> /\ turns' = [t \in Tasks |-> NoTurn] /\ NoTurn.last = << >>
    BY <1>7 DEF Disconnect, NoTurn, Cut
  <2>2. \A u \in Tasks : Seen(u)' = Seen(u)
    BY <2>1 DEF Seen
  <2>3. Showing' = Showing /\ LastDrafts' = [t \in Tasks |-> << >>] /\ Begun' = {}
    <3> HIDE DEF NoTurn
    <3> QED BY <2>1, <2>2 DEF Showing, LastDrafts, Begun
  <2> QED BY <2>1, <2>3, DisplaySteps
<1> QED BY <1>3, <1>4, <1>5, <1>6, <1>7, EditShows DEF Next

\* A client that loses nothing shows at any time, once what has been posted is
\* there, a text on which two drafts in a row agreed or a final one.
THEOREM DraftsKeepDisplay == Spec => ImplementsDisplay
<1>1. Init => Shows!Init
  <2> SUFFICES ASSUME Init PROVE Shows!Init
    OBVIOUS
  <2>1. \A t \in Tasks : view[t] \in Views /\ edit[t].left = << >> /\ view[t].text = << >>
    BY DraftInit DEF Init, NoEdit, DraftInv, DraftTypes
  <2>2. \A t \in Tasks : Seen(t).text = << >>
    BY <2>1, TakesNone DEF Seen
  <2>3. Cut = {} /\ turns = [t \in Tasks |-> NoTurn] /\ NoTurn.last = << >>
    BY DEF Init, NoTurn, Cut
  <2>4. Showing = [t \in Tasks |-> << >>] /\ LastDrafts = [t \in Tasks |-> << >>] /\ Begun = {}
    <3> HIDE DEF NoTurn
    <3> QED BY <2>2, <2>3 DEF Showing, LastDrafts, Begun
  <2> QED BY <2>3, <2>4, DisplaySteps
<1> QED BY <1>1, DraftAlways, StepShows, PTL DEF Spec, ImplementsDisplay, Shows!Spec
=============================================================================
