--------------------------- MODULE Adapter_proofs ---------------------------
(***************************************************************************)
(* Theorems about turns and reply streams together.                        *)
(***************************************************************************)
EXTENDS Adapter, Turns_proofs

-----------------------------------------------------------------------------
(* A step of the composition is one of the turns or leaves them alone, and *)
(* what a step of the turns adds to the payloads is captured.              *)

\* A step that is handed to the streams.
Handed == [Next]_vars /\ ToStreams
\* A step that reports progress.
Reports ==
  \E h \in Accepted :
    /\ S!Publish(task[h]) /\ UNCHANGED <<log, cut>>
    /\ \/ Start(h)
       \/ UNCHANGED vars /\ Alive(h)
       \/ UNCHANGED vars /\ \E c \in Chats : h = IF active[c] # None THEN active[c] ELSE Peek(c)
\* A step of a connection, of the clock, or of nobody.
Connects ==
  /\ UNCHANGED <<vars, log, cut>>
  /\ \/ \E cl \in Clients : S!Subscribe(cl)
     \/ \E c \in S!Conns : S!Serve(c) \/ S!Leave(c) \/ S!ConnectionLost(c)
     \/ S!Age
     \/ UNCHANGED streamVars

LEMMA StepsOfTurns ==
  ASSUME AdapterNext \/ UNCHANGED adapterVars, TypeOK
  PROVE  Handed \/ Reports \/ Connects
<1>1. CASE \E h \in DOMAIN task : Proceed(h)
  <2>1. PICK h \in DOMAIN task : Proceed(h)
    BY <1>1
  <2>2. CASE StartAndReport(h)
    BY <2>1, <2>2 DEF StartAndReport, Reports, Accepted
  <2>3. CASE (TakeLock(h) \/ AgentReturns(h) \/ AgentFails(h) \/ Settle(h)) /\ ToStreams
    <3>1. Dispatch(h)
      BY <2>3 DEF Dispatch
    <3> QED BY <2>1, <2>3, <3>1 DEF Next, Handed
  <2> QED BY <2>1, <2>2, <2>3 DEF Proceed
<1>2. CASE \E h \in DOMAIN task : Keepalive(h)
  BY <1>2 DEF Keepalive, Report, Reports, Accepted
<1>3. CASE Others /\ ToStreams
  BY <1>3 DEF Others, Next, Handed
<1>4. CASE ClearWhenAlone
  BY <1>4 DEF ClearWhenAlone, Next, Handed
<1>5. CASE \E c \in Chats : SendTyping(c)
  <2>1. PICK c \in Chats : SendTyping(c)
    BY <1>5
  <2> DEFINE h == IF active[c] # None THEN active[c] ELSE Peek(c)
  <2>2. h # None /\ Report(h)
    BY <2>1 DEF SendTyping
  <2>3. h \in Accepted
    BY <2>2, PeekType DEF TypeOK, Slots, Accepted
  <2> QED BY <2>2, <2>3 DEF Report, Reports
<1>6. CASE Connection
  BY <1>6 DEF Connection, Connects
<1>7. CASE UNCHANGED adapterVars
  BY <1>7 DEF adapterVars, Connects
<1> QED BY <1>1, <1>2, <1>3, <1>4, <1>5, <1>6, <1>7 DEF AdapterNext

LEMMA TurnsStep ==
  ASSUME AdapterNext \/ UNCHANGED adapterVars, TypeOK
  PROVE  [Next]_vars
<1>1. CASE Reports
  BY <1>1 DEF Reports, Next, Dispatch, Accepted
<1> QED BY <1>1, StepsOfTurns DEF Handed, Connects

LEMMA TurnsInit == AdapterInit => Init
BY DEF AdapterInit

\* Every behaviour of the composition is one of the turns: what the streams and
\* their readers do never keeps a handler from doing what it does without them.
THEOREM TurnsAreTurns == AdapterSpec => Spec
<1>1. TypeOK /\ [AdapterNext]_adapterVars => [Next]_vars
  BY TurnsStep
<1>2. TypeOK /\ [Next]_vars => TypeOK'
  BY TypeStep
<1>3. AdapterInit => Init /\ TypeOK
  BY TurnsInit, TypeInit
<1> QED BY <1>1, <1>2, <1>3, PTL DEF AdapterSpec, Spec
-----------------------------------------------------------------------------
(* The log of what was captured.                                           *)

Records == [handle : Handles, kind : Wire]

\* An end in the log is that of a turn that is over; a turn that is over has
\* left, unless somebody else ended it.
LogInv ==
  /\ log \in Seq(Records) /\ captured = Len(log)
  /\ \A n \in 1..Len(log) :
       /\ log[n].handle \in Accepted
       /\ log[n].kind \in Terminals => log[n].handle \in terminated
  /\ \A h \in terminated \ cut : pc[h] = "done"

\* One more payload of h is captured.
CapturesOne(h, kind, size) ==
  /\ kind \in Terminals => h \in terminated'
  /\ S!Capture(TaskId(h, kind), size)
  /\ log' = Append(log, [handle |-> h, kind |-> kind])
  /\ UNCHANGED task

LEMMA HandedIs ==
  ASSUME EndInv, Handed
  PROVE  \/ UNCHANGED <<streamVars, log>>
         \/ \E h \in Accepted, kind \in Wire, size \in Sizes : CapturesOne(h, kind, size)
<1>1. TypeOK /\ posts = {}
  BY AdapterAssumption DEF EndInv, PostsOnCallback, OnStream
<1>2. CASE \A h \in Handles : out'[h] = out[h]
  BY <1>2 DEF Handed, ToStreams
<1>3. ASSUME NEW h \in Handles, out'[h] # out[h], Captures(h)
      PROVE  \E kind \in Wire, size \in Sizes : h \in Accepted /\ CapturesOne(h, kind, size)
  <2>1. PICK g \in Accepted, kind \in Wire :
          (Ends(g, kind) \/ Says(g, kind)) /\ UNCHANGED task
    <3>1. ~ \E t \in Tasks : Accept(t)
      BY <1>3 DEF Accept
    <3>2. ~ Silent
      BY <1>3 DEF Silent
    <3> QED BY <1>1, <3>1, <3>2, StepEffect DEF Handed, EndInv, Effect
  <2>2. /\ out' = Got(g, kind)
        /\ kind \in Terminals => g \in terminated'
    BY <2>1, AdapterAssumption DEF Ends, Says, Shows, OnStream
  <2>3. g = h
    BY <1>1, <1>3, <2>2, GotOne
  <2>4. out'[h][Len(out'[h])] = kind
    <3>1. /\ Len(out[h]) \in Nat /\ DOMAIN out'[h] = 1..(Len(out[h]) + 1)
          /\ out'[h][Len(out[h]) + 1] = kind
      BY <1>1, <2>2, <2>3, GotOne
    <3>2. out'[h] = Append(out[h], kind) /\ out[h] \in Seq(Wire)
      BY <1>1, <2>2, <2>3 DEF Got, TypeOK
    <3>3. Len(out'[h]) = Len(out[h]) + 1
      BY <3>2, AppendProperties
    <3> QED BY <3>1, <3>3
  <2>5. PICK size \in SizesOf(kind) :
          /\ S!Capture(TaskId(h, kind), size)
          /\ log' = Append(log, [handle |-> h, kind |-> kind])
    BY <1>3, <2>4 DEF Captures
  <2>6. size \in Sizes
    BY AdapterAssumption DEF SizesOf
  <2> QED BY <2>1, <2>2, <2>3, <2>5, <2>6 DEF CapturesOne
<1> QED BY <1>2, <1>3 DEF Handed, ToStreams

\* A turn whose dispatch has left stays so.
LEMMA DoneStays ==
  ASSUME EndInv, OrderInv, [Next]_vars, NEW h \in Accepted, pc[h] = "done"
  PROVE  pc'[h] = "done"
<1>1. CASE FreesSome
  BY <1>1 DEF FreesSome, Frees
<1>2. ASSUME NEW t \in Tasks, Accept(t) PROVE pc'[h] = "done"
  BY <1>2, AcceptIs DEF EndInv
<1>3. CASE ClearTables
  BY <1>3 DEF ClearTables
<1> QED BY <1>1, <1>2, <1>3, StepFrees

LEMMA CapturedKept ==
  ASSUME Reports \/ Connects
  PROVE  captured' = captured /\ log' = log /\ cut' = cut /\ terminated' = terminated
BY DEF Reports, Connects, Start, vars, S!Publish, S!storeVars, S!Subscribe, S!Serve,
       S!Open, S!Wake, S!Write, S!WriteFails, S!Leave, S!ConnectionLost, S!Age,
       streamVars

LEMMA LogStep ==
  ASSUME EndInv, OrderInv, LogInv, Handed \/ Reports \/ Connects
  PROVE  LogInv'
<1>1. [Next]_vars /\ TypeOK /\ TypeOK' /\ terminated \subseteq Accepted
  <2>1. [Next]_vars
    BY DEF Handed, Reports, Connects, Next, Dispatch, Accepted
  <2> QED BY <2>1, TypeStep DEF EndInv, TypeOK, Accepted
<1>2. Accepted \subseteq Accepted' /\ Accepted \subseteq Handles
  BY <1>1, AcceptedStays, AcceptedHandles
<1>3. \A h \in terminated' \ cut' : pc'[h] = "done"
  <2> SUFFICES ASSUME NEW h \in terminated' \ cut' PROVE pc'[h] = "done"
    OBVIOUS
  <2>1. CASE h \in terminated /\ h \notin cut
    BY <1>1, <2>1, DoneStays DEF LogInv
  <2>2. CASE Handed
    <3>1. h \in terminated \/ pc'[h] = "done"
      BY <2>2 DEF Handed, ToStreams
    <3>2. cut \subseteq cut'
      BY <2>2 DEF Handed, ToStreams
    <3> QED BY <2>1, <3>1, <3>2
  <2> QED BY <2>1, <2>2, CapturedKept
<1>4. terminated \subseteq terminated'
  <2>1. CASE \E t \in Tasks : Accept(t)
    BY <2>1 DEF Accept
  <2>2. CASE ClearTables
    BY <2>2 DEF ClearTables
  <2> QED BY <1>1, <2>1, <2>2, StepFrees DEF FreesSome, Frees
<1>5. CASE UNCHANGED <<captured, log>>
  BY <1>2, <1>3, <1>4, <1>5 DEF LogInv
<1>6. ASSUME NEW h \in Accepted, NEW kind \in Wire, NEW size, CapturesOne(h, kind, size)
      PROVE  LogInv'
  <2>1. log' = Append(log, [handle |-> h, kind |-> kind])
    BY <1>6 DEF CapturesOne
  <2> DEFINE r == [handle |-> h, kind |-> kind]
  <2>2. r \in Records /\ r.handle = h /\ r.kind = kind
    BY <1>2 DEF Records
  <2>3. /\ log' \in Seq(Records) /\ Len(log') = Len(log) + 1 /\ Len(log) \in Nat
        /\ log'[Len(log) + 1] = r /\ \A n \in 1..Len(log) : log'[n] = log[n]
    <3> HIDE DEF r
    <3> QED BY <2>1, <2>2, AppendProperties, LenProperties DEF LogInv, r
  <2>4. captured' = captured + 1
    BY <1>6 DEF CapturesOne, S!Capture
  <2>5. kind \in Terminals => h \in terminated'
    BY <1>6 DEF CapturesOne, Terminals
  <2>6. \A n \in 1..Len(log') : n \in 1..Len(log) \/ n = Len(log) + 1
    BY <2>3
  <2>7. \A n \in 1..Len(log') :
          /\ log'[n].handle \in Accepted'
          /\ log'[n].kind \in Terminals => log'[n].handle \in terminated'
    BY <1>2, <1>4, <2>2, <2>3, <2>5, <2>6 DEF LogInv
  <2> QED BY <1>3, <2>3, <2>4, <2>7 DEF LogInv
<1> QED BY <1>5, <1>6, HandedIs, CapturedKept DEF streamVars

LEMMA LogInit == AdapterInit => LogInv
<1>1. AdapterInit => log = << >> /\ captured = 0 /\ terminated = {}
  BY TurnsInit DEF AdapterInit, S!Init, Init
<1> QED BY <1>1 DEF LogInv
-----------------------------------------------------------------------------
(* Sequences of frames, whatever else a frame says.                        *)

IsRow(q) == \E X : q \in Seq(X)

\* Every durable frame of q is one of the first n captures.
Row(q, n) == IsRow(q) /\ \A i \in 1..Len(q) : q[i].durable => q[i].stamp \in 1..n
\* ... and q has no other frames.
Firm(q, n) == IsRow(q) /\ \A i \in 1..Len(q) : q[i].durable /\ q[i].stamp \in 1..n

LEMMA RowLength ==
  ASSUME NEW q, IsRow(q)
  PROVE  Len(q) \in Nat /\ DOMAIN q = 1..Len(q)
<1>1. PICK X : q \in Seq(X)
  BY DEF IsRow
<1> QED BY <1>1, LenProperties

LEMMA RowEmpty == IsRow(<< >>) /\ \A n : Row(<< >>, n) /\ Firm(<< >>, n)
<1>1. << >> \in Seq({}) /\ 1..Len(<< >>) = {}
  OBVIOUS
<1> QED BY <1>1 DEF IsRow, Row, Firm

LEMMA RowLater ==
  ASSUME NEW q, NEW n \in Nat, NEW m \in Nat, n <= m
  PROVE  (Row(q, n) => Row(q, m)) /\ (Firm(q, n) => Firm(q, m))
<1>1. 1..n \subseteq 1..m
  OBVIOUS
<1> QED BY <1>1 DEF Row, Firm

LEMMA RowAppend ==
  ASSUME NEW q, IsRow(q), NEW e
  PROVE  /\ IsRow(Append(q, e)) /\ Len(Append(q, e)) = Len(q) + 1
         /\ Append(q, e)[Len(q) + 1] = e /\ \A i \in 1..Len(q) : Append(q, e)[i] = q[i]
         /\ Append(q, e) = q \o <<e>>
<1>1. PICK X : q \in Seq(X)
  BY DEF IsRow
<1> DEFINE Y == X \cup {e}
<1>2. X \subseteq Y /\ e \in Y
  OBVIOUS
<1> HIDE DEF Y
<1>3. q \in Seq(Y)
  BY <1>1, <1>2
<1>4. Append(q, e) \in Seq(Y) /\ Len(Append(q, e)) = Len(q) + 1
      /\ Append(q, e)[Len(q) + 1] = e /\ \A i \in 1..Len(q) : Append(q, e)[i] = q[i]
  BY <1>2, <1>3, AppendProperties
<1>5. Append(q, e) = q \o <<e>>
  BY <1>2, <1>3, AppendIsConcat
<1> QED BY <1>4, <1>5 DEF IsRow

LEMMA RowConcat ==
  ASSUME NEW p, NEW q, IsRow(p), IsRow(q)
  PROVE  /\ IsRow(p \o q) /\ Len(p \o q) = Len(p) + Len(q)
         /\ \A i \in 1..Len(p) : (p \o q)[i] = p[i]
         /\ \A i \in 1..Len(q) : (p \o q)[Len(p) + i] = q[i]
<1>1. PICK X : p \in Seq(X)
  BY DEF IsRow
<1>2. PICK Y : q \in Seq(Y)
  BY DEF IsRow
<1> DEFINE Z == X \cup Y
<1>3. X \subseteq Z /\ Y \subseteq Z
  OBVIOUS
<1> HIDE DEF Z
<1>4. p \in Seq(Z) /\ q \in Seq(Z)
  BY <1>1, <1>2, <1>3
<1>5. p \o q \in Seq(Z) /\ Len(p \o q) = Len(p) + Len(q)
      /\ \A i \in 1..(Len(p) + Len(q)) : (p \o q)[i] = IF i <= Len(p) THEN p[i] ELSE q[i - Len(p)]
  BY <1>4, ConcatProperties
<1>6. Len(p) \in Nat /\ Len(q) \in Nat
  BY <1>4, LenProperties
<1>7. \A i \in 1..Len(p) : i \in 1..(Len(p) + Len(q)) /\ i <= Len(p)
  BY <1>6
<1>8. \A i \in 1..Len(q) : /\ Len(p) + i \in 1..(Len(p) + Len(q)) /\ ~ (Len(p) + i <= Len(p))
                           /\ Len(p) + i - Len(p) = i
  BY <1>6
<1>9. IsRow(p \o q)
  BY <1>5 DEF IsRow
<1> QED BY <1>5, <1>7, <1>8, <1>9

LEMMA RowTail ==
  ASSUME NEW q, IsRow(q), q # << >>
  PROVE  /\ IsRow(Tail(q)) /\ IsRow(<<Head(q)>>) /\ Head(q) = q[1] /\ 1 \in 1..Len(q)
         /\ Len(Tail(q)) = Len(q) - 1 /\ \A i \in 1..(Len(q) - 1) : Tail(q)[i] = q[i + 1]
         /\ q = <<Head(q)>> \o Tail(q)
<1>1. PICK X : q \in Seq(X)
  BY DEF IsRow
<1>2. Tail(q) \in Seq(X) /\ <<Head(q)>> \in Seq(X) /\ Head(q) = q[1] /\ 1 \in 1..Len(q)
  BY <1>1
<1>3. Len(Tail(q)) = Len(q) - 1 /\ \A i \in 1..(Len(q) - 1) : Tail(q)[i] = q[i + 1]
  BY <1>1
<1>4. q = <<Head(q)>> \o Tail(q)
  BY <1>1
<1> QED BY <1>2, <1>3, <1>4 DEF IsRow

LEMMA RowSub ==
  ASSUME NEW q, IsRow(q), NEW m \in 0..Len(q)
  PROVE  /\ IsRow(SubSeq(q, m + 1, Len(q))) /\ Len(SubSeq(q, m + 1, Len(q))) = Len(q) - m
         /\ \A i \in 1..(Len(q) - m) : SubSeq(q, m + 1, Len(q))[i] = q[m + i]
<1>1. PICK X : q \in Seq(X)
  BY DEF IsRow
<1>2. /\ SubSeq(q, m + 1, Len(q)) \in Seq(X)
      /\ Len(SubSeq(q, m + 1, Len(q))) = Len(q) - m
      /\ \A i \in 1..(Len(q) - m) : SubSeq(q, m + 1, Len(q))[i] = q[m + i]
  BY <1>1
<1> QED BY <1>2 DEF IsRow

LEMMA FirmIsRow == ASSUME NEW q, NEW n, Firm(q, n) PROVE Row(q, n) /\ IsRow(q)
BY DEF Firm, Row

LEMMA FirmAppend ==
  ASSUME NEW q, NEW n, Firm(q, n), NEW e, e.durable, e.stamp \in 1..n
  PROVE  Firm(Append(q, e), n)
<1> DEFINE r == Append(q, e)
<1>1. /\ IsRow(r) /\ Len(r) = Len(q) + 1 /\ r[Len(q) + 1] = e
      /\ \A i \in 1..Len(q) : r[i] = q[i]
  <2>1. IsRow(q)
    BY DEF Firm
  <2>2. IsRow(r) /\ Len(r) = Len(q) + 1 /\ r[Len(q) + 1] = e
    BY <2>1, RowAppend, Zenon
  <2>3. \A i \in 1..Len(q) : r[i] = q[i]
    BY <2>1, RowAppend
  <2> HIDE DEF r
  <2> QED BY <2>2, <2>3
<1> HIDE DEF r
<1>2. Len(q) \in Nat
  BY RowLength DEF Firm
<1>3. \A i \in 1..Len(r) : i \in 1..Len(q) \/ i = Len(q) + 1
  BY <1>1, <1>2
<1>4. Firm(r, n)
  BY <1>1, <1>3 DEF Firm
<1> QED BY <1>4 DEF r

LEMMA FirmSub ==
  ASSUME NEW q, NEW n, Firm(q, n), NEW m \in 0..Len(q)
  PROVE  Firm(SubSeq(q, m + 1, Len(q)), n)
<1> DEFINE r == SubSeq(q, m + 1, Len(q))
<1>1. /\ IsRow(r) /\ Len(r) = Len(q) - m
      /\ \A i \in 1..(Len(q) - m) : r[i] = q[m + i]
  BY RowSub DEF Firm
<1> HIDE DEF r
<1>2. \A i \in 1..(Len(q) - m) : m + i \in 1..Len(q)
  BY RowLength DEF Firm
<1>3. Firm(r, n)
  BY <1>1, <1>2 DEF Firm
<1> QED BY <1>3 DEF r

LEMMA RowJoin ==
  ASSUME NEW p, NEW q, NEW n, Row(p, n), Row(q, n)
  PROVE  Row(p \o q, n)
<1> DEFINE r == p \o q
<1>1. /\ IsRow(r) /\ Len(r) = Len(p) + Len(q)
      /\ \A i \in 1..Len(p) : r[i] = p[i]
      /\ \A i \in 1..Len(q) : r[Len(p) + i] = q[i]
  BY RowConcat DEF Row
<1> HIDE DEF r
<1>2. Len(p) \in Nat /\ Len(q) \in Nat
  BY RowLength DEF Row
<1>3. ASSUME NEW i \in 1..Len(r), r[i].durable PROVE r[i].stamp \in 1..n
  <2>1. CASE i <= Len(p)
    BY <1>1, <1>2, <1>3, <2>1 DEF Row
  <2>2. CASE ~ (i <= Len(p))
    <3>1. i - Len(p) \in 1..Len(q) /\ Len(p) + (i - Len(p)) = i
      BY <1>1, <1>2, <2>2
    <3>2. r[i] = q[i - Len(p)]
      BY <1>1, <3>1
    <3> QED BY <1>3, <3>1, <3>2 DEF Row
  <2> QED BY <2>1, <2>2
<1>4. Row(r, n)
  BY <1>1, <1>3 DEF Row
<1> QED BY <1>4 DEF r

LEMMA RowRest ==
  ASSUME NEW q, NEW n, Row(q, n), q # << >>
  PROVE  Row(Tail(q), n) /\ Row(<<Head(q)>>, n)
<1>1. /\ IsRow(Tail(q)) /\ IsRow(<<Head(q)>>) /\ Head(q) = q[1] /\ 1 \in 1..Len(q)
      /\ Len(Tail(q)) = Len(q) - 1 /\ \A i \in 1..(Len(q) - 1) : Tail(q)[i] = q[i + 1]
  BY RowTail DEF Row
<1>2. \A i \in 1..(Len(q) - 1) : i + 1 \in 1..Len(q)
  BY RowLength DEF Row
<1>3. Len(<<Head(q)>>) = 1 /\ <<Head(q)>>[1] = Head(q)
  OBVIOUS
<1>4. \A i \in 1..1 : i = 1
  OBVIOUS
<1> QED BY <1>1, <1>2, <1>3, <1>4 DEF Row
-----------------------------------------------------------------------------
(* What the streams hold: entries of backlogs, readers and what clients    *)
(* have, as far as it matters which captures they speak of.                *)

LEMMA SameStreamDict ==
  /\ \A d, k, v : S!Put(d, k, v) = Put(d, k, v)
  /\ \A d, gone, none : S!Drop(d, gone, none) = Drop(d, gone, none)
  /\ \A d, cap, none : S!Trim(d, cap, none) = Trim(d, cap, none)
  /\ \A d : S!Keys(d) = Keys(d)
  /\ \A K, none : S!Empty(K, none) = Empty(K, none)
<1>1. \A p, k : S!AtEnd(p, k) = AtEnd(p, k)
  BY Zenon DEF S!AtEnd, AtEnd, S!Renumber, Renumber, S!Cardinality, Cardinality
<1>2. \A d, gone, none : S!Drop(d, gone, none) = Drop(d, gone, none)
  BY Zenon DEF S!Drop, Drop, S!Renumber, Renumber, S!Cardinality, Cardinality
<1>3. \A d, cap, none : S!Trim(d, cap, none) = Trim(d, cap, none)
  <2>1. \A d, cap : {k \in S!Keys(d) : d.pos[k] <= S!Cardinality(S!Keys(d)) - cap}
                     = {k \in Keys(d) : d.pos[k] <= Cardinality(Keys(d)) - cap}
    BY Zenon DEF S!Keys, Keys, S!Cardinality, Cardinality
  <2> QED BY <1>2, <2>1, Zenon DEF S!Trim, Trim
<1>4. \A d, k, v : S!Put(d, k, v) = Put(d, k, v)
  BY <1>1, Zenon DEF S!Put, Put
<1>5. \A d : S!Keys(d) = Keys(d)
  BY Zenon DEF S!Keys, Keys
<1>6. \A K, none : S!Empty(K, none) = Empty(K, none)
  BY Zenon DEF S!Empty, Empty
<1> QED BY <1>2, <1>3, <1>4, <1>5, <1>6

\* The ids under which something is captured or reported, and their sessions.
Known == Tasks \cup Sessions
Home == [x \in Clients \cup Tasks \cup Sessions |->
           IF x \in Clients THEN ClientSession[x]
           ELSE IF x \in Tasks THEN SessionOf[ChatOf[x]] ELSE x]

LEMMA ConstantsAre ==
  /\ IsFiniteSet(Known) /\ Sizes \subseteq Nat \ {0}
         /\ BacklogEvents \in Nat \ {0} /\ BacklogBytes \in Nat \ {0}
         /\ S!EventCap \in Nat \ {0} /\ S!EventCap <= BacklogBytes
         /\ \A x \in Clients \cup Tasks \cup Sessions : Home[x] \in Sessions
<1>1. IsFiniteSet(Known)
  <2>1. IsFiniteSet(Tasks)
    BY ConstantsAssumption
  <2>2. IsFiniteSet(Sessions)
    BY AdapterAssumption
  <2> QED BY <2>1, <2>2, FS_Union, Zenon DEF Known
<1>2. MaxEventBytes \in Nat \ {0} /\ BacklogBytes \in Nat \ {0} /\ BacklogEvents \in Nat \ {0}
  BY AdapterAssumption
<1>3. S!EventCap \in {MaxEventBytes, BacklogBytes} /\ S!EventCap <= BacklogBytes
  <2> DEFINE M == {MaxEventBytes, BacklogBytes}
  <2>1. \E x \in M : \A y \in M : x <= y
    BY <1>2
  <2> QED BY <2>1 DEF S!EventCap, S!Min
<1>4. \A x \in Clients \cup Tasks \cup Sessions : Home[x] \in Sessions
  BY ConstantsAssumption, AdapterAssumption DEF Home
<1> QED BY <1>1, <1>2, <1>3, <1>4, AdapterAssumption

ConnectedAt == {"opening", "writing", "waiting"}

LEMMA ConnectionIs ==
  /\ \A c : S!Session(c) = Home[sub[c].client]
  /\ S!Conns = 1..MaxConns
  /\ S!Subscribed = {c \in 1..MaxConns : sub[c].pc \in ConnectedAt}
<1>1. \A c : S!Session(c) = Home[sub[c].client]
  BY Zenon DEF S!Session, Home
<1>2. S!Conns = 1..MaxConns
  BY DEF S!Conns
<1>3. S!Subscribed = {c \in 1..MaxConns : sub[c].pc \in ConnectedAt}
  BY <1>2 DEF S!Subscribed, ConnectedAt
<1> QED BY <1>1, <1>2, <1>3

\* A subscriber and its coroutine.
ReaderShape(x) ==
  x = [client |-> x.client, live |-> x.live, pc |-> x.pc, pending |-> x.pending,
       bytes |-> x.bytes, transient |-> x.transient, dropped |-> x.dropped,
       wakeup |-> x.wakeup, batch |-> x.batch]

Reader(x, n) ==
  /\ ReaderShape(x)
  /\ x.client \in Clients
  /\ x.live => x.pc \in ConnectedAt
  /\ Firm(x.pending, n) /\ Row(x.batch, n)
  /\ x.transient \in Dict(Known, Nat) /\ InOrder(x.transient)
  /\ x.dropped => Keys(x.transient) = {}
  /\ Keys(x.transient) # {} => x.pc \in ConnectedAt
  /\ x.pc = "writing" => x.batch # << >>

LEMMA NoProgress ==
  /\ S!Empty(Known, 0) \in Dict(Known, Nat) /\ InOrder(S!Empty(Known, 0))
         /\ Keys(S!Empty(Known, 0)) = {}
<1>1. Empty(Known, 0) \in Dict(Known, Nat)
  BY ConstantsAre, EmptyType
<1> QED BY <1>1, EmptyOrder, SameStreamDict

LEMMA ReaderLater ==
  ASSUME NEW x, NEW n \in Nat, NEW m \in Nat, n <= m, Reader(x, n)
  PROVE  Reader(x, m)
BY RowLater DEF Reader

\* What is offered to a reader, or reported to it, changes only what waits.
SameReader(x, y) ==
  y.client = x.client /\ y.live = x.live /\ y.pc = x.pc /\ y.batch = x.batch

LEMMA DroppedReader ==
  ASSUME NEW x, ReaderShape(x), x.client \in Clients, x.live => x.pc \in ConnectedAt,
         NEW n, Row(x.batch, n), x.pc = "writing" => x.batch # << >>
  PROVE  /\ Reader(S!Dropped(x), n) /\ SameReader(x, S!Dropped(x))
         /\ Keys(S!Dropped(x).transient) = {}
<1> DEFINE y == S!Dropped(x)
<1>1. y = [x EXCEPT !.dropped = TRUE, !.pending = << >>, !.bytes = 0,
                    !.transient = S!Empty(Known, 0), !.wakeup = TRUE]
  BY Zenon DEF S!Dropped, Known
<1> DEFINE empty == S!Empty(Known, 0)
<1>2. y = [client |-> x.client, live |-> x.live, pc |-> x.pc, pending |-> << >>,
           bytes |-> 0, transient |-> empty, dropped |-> TRUE,
           wakeup |-> TRUE, batch |-> x.batch]
  <2> HIDE DEF empty, y
  <2> QED BY <1>1 DEF ReaderShape, empty
<1>3. empty \in Dict(Known, Nat) /\ InOrder(empty) /\ Keys(empty) = {}
  BY NoProgress
<1> HIDE DEF empty, y
<1>4. ReaderShape(y) /\ SameReader(x, y) /\ y.pending = << >> /\ y.transient = empty /\ y.dropped
  BY <1>2 DEF ReaderShape, SameReader
<1>5. Reader(y, n) /\ SameReader(x, y) /\ Keys(y.transient) = {}
  BY <1>3, <1>4, RowEmpty DEF Reader, SameReader
<1> QED BY <1>5 DEF y

LEMMA OfferedReader ==
  ASSUME NEW x, NEW n \in Nat, NEW m \in Nat, n <= m, Reader(x, n),
         NEW e, e.durable, e.stamp \in 1..m
  PROVE  /\ Reader(S!Offered(x, e), m) /\ SameReader(x, S!Offered(x, e))
         /\ Keys(S!Offered(x, e).transient) \subseteq Keys(x.transient) \ {e.task}
<1> DEFINE y == S!Queued(x, e)
           left == Drop(x.transient, {e.task}, 0)
           grown == Append(x.pending, e)
<1>1. y = [x EXCEPT !.pending = Append(@, e), !.bytes = @ + e.size, !.wakeup = TRUE,
                    !.transient = Drop(@, {e.task}, 0)]
  BY SameStreamDict, Zenon DEF S!Queued
<1>2. y = [client |-> x.client, live |-> x.live, pc |-> x.pc, pending |-> grown,
           bytes |-> x.bytes + e.size, transient |-> left, dropped |-> x.dropped,
           wakeup |-> TRUE, batch |-> x.batch]
  <2> HIDE DEF y
  <2> QED BY <1>1 DEF Reader, ReaderShape
<1>3. left \in Dict(Known, Nat) /\ InOrder(left) /\ Keys(left) = Keys(x.transient) \ {e.task}
  <2>1. x.transient \in Dict(Known, Nat) /\ InOrder(x.transient) /\ IsFiniteSet(Known) /\ 0 \in Nat
    BY ConstantsAre DEF Reader
  <2> QED BY <2>1, DropType, DropOrder
<1>4. Firm(grown, m)
  BY RowLater, FirmAppend DEF Reader
<1> HIDE DEF y, left, grown
<1>5. /\ ReaderShape(y) /\ SameReader(x, y) /\ y.pending = grown /\ y.transient = left
      /\ y.dropped = x.dropped
  BY <1>2 DEF ReaderShape, SameReader
<1>6. Reader(x, m)
  BY ReaderLater
<1>7. Reader(y, m)
  BY <1>3, <1>4, <1>5, <1>6 DEF Reader, SameReader
<1>8. S!Offered(x, e) = IF x.dropped THEN x
        ELSE IF Len(y.pending) > BacklogEvents \/ y.bytes > BacklogBytes
        THEN S!Dropped(y) ELSE y
  BY DEF S!Offered, y
<1>9. CASE x.dropped
  BY <1>6, <1>8, <1>9 DEF Reader, SameReader
<1>10. CASE S!Offered(x, e) = y
  BY <1>3, <1>5, <1>7, <1>10
<1>11. CASE S!Offered(x, e) = S!Dropped(y)
  <2>1. /\ Reader(S!Dropped(y), m) /\ SameReader(y, S!Dropped(y))
        /\ Keys(S!Dropped(y).transient) = {}
    BY <1>7, DroppedReader DEF Reader
  <2> QED BY <1>5, <1>11, <2>1 DEF SameReader
<1> QED BY <1>8, <1>9, <1>10, <1>11

\* Progress of t is reported to a reader that has not been dropped.
Reported(x, t) == [x EXCEPT !.transient = S!Put(@, t, captured), !.wakeup = TRUE]

LEMMA ReportedReader ==
  ASSUME captured \in Nat, NEW x, NEW n \in Nat, Reader(x, n), NEW t \in Known,
         ~ x.dropped, x.pc \in ConnectedAt,
         NEW z \in {Reported(x, t), S!Dropped(Reported(x, t))}
  PROVE  Reader(z, n) /\ SameReader(x, z) /\ Keys(z.transient) \subseteq Keys(x.transient) \cup {t}
<1> DEFINE y == Reported(x, t)
           more == Put(x.transient, t, captured)
<1>1. y = [x EXCEPT !.transient = Put(@, t, captured), !.wakeup = TRUE]
  BY SameStreamDict, Zenon DEF Reported
<1>2. y = [client |-> x.client, live |-> x.live, pc |-> x.pc, pending |-> x.pending,
           bytes |-> x.bytes, transient |-> more, dropped |-> x.dropped,
           wakeup |-> TRUE, batch |-> x.batch]
  <2> HIDE DEF y
  <2> QED BY <1>1 DEF Reader, ReaderShape
<1>3. more \in Dict(Known, Nat) /\ InOrder(more) /\ Keys(more) = Keys(x.transient) \cup {t}
  <2>1. x.transient \in Dict(Known, Nat) /\ InOrder(x.transient) /\ IsFiniteSet(Known)
    BY ConstantsAre DEF Reader
  <2>2. more \in Dict(Known, Nat)
    BY <2>1, PutType
  <2>3. InOrder(more) /\ Keys(more) = Keys(x.transient) \cup {t}
    BY <2>1, PutOrder
  <2> QED BY <2>2, <2>3
<1> HIDE DEF y, more
<1>4. /\ ReaderShape(y) /\ SameReader(x, y) /\ y.pending = x.pending /\ y.transient = more
      /\ y.dropped = x.dropped
  BY <1>2 DEF ReaderShape, SameReader
<1>5. Reader(y, n)
  BY <1>3, <1>4 DEF Reader, SameReader
<1>6. CASE z = y
  BY <1>3, <1>4, <1>5, <1>6
<1>7. CASE z = S!Dropped(y)
  <2>1. /\ Reader(S!Dropped(y), n) /\ SameReader(y, S!Dropped(y))
        /\ Keys(S!Dropped(y).transient) = {}
    BY <1>5, DroppedReader DEF Reader
  <2> QED BY <1>4, <1>7, <2>1 DEF SameReader
<1> QED BY <1>6, <1>7 DEF y

\* The frames of the progress that waits are about its keys.
Speaks(q, K) == IsRow(q) /\ \A i \in 1..Len(q) : ~ q[i].durable /\ q[i].task \in K

LEMMA ProgressSpeaks ==
  ASSUME NEW c, NEW n, Reader(sub[c], n)
  PROVE  Speaks(S!Progress(c), Keys(sub[c].transient))
<1> DEFINE waiting == sub[c].transient
           K == Keys(waiting)
           frame(i) == LET t == CHOOSE u \in K : waiting.pos[u] = i
                       IN  [task |-> t, stamp |-> waiting.val[t], durable |-> FALSE]
<1>1. S!Progress(c) = [i \in 1..Cardinality(K) |-> frame(i)]
  <2>1. S!Cardinality(S!Keys(waiting)) = Cardinality(K)
    BY SameStreamDict, Zenon DEF S!Cardinality, Cardinality
  <2>2. S!Keys(waiting) = K
    BY SameStreamDict
  <2> QED BY <2>1, <2>2, Zenon DEF S!Progress
<1>2. Cardinality(K) \in Nat /\ \A i \in 1..Cardinality(K) : \E k \in K : waiting.pos[k] = i
  <2>1. waiting \in Dict(Known, Nat) /\ InOrder(waiting) /\ IsFiniteSet(Known)
    BY ConstantsAre DEF Reader
  <2> QED BY <2>1, KeysFinite DEF InOrder
<1>3. \A i \in 1..Cardinality(K) : frame(i).task \in K /\ ~ frame(i).durable
  BY <1>2
<1> DEFINE m == Cardinality(K)
           F == {frame(i) : i \in 1..m}
<1> HIDE DEF K, m
<1>4. /\ [i \in 1..m |-> frame(i)] \in Seq(F)
      /\ Len([i \in 1..m |-> frame(i)]) = m
  <2>1. m \in Nat /\ \A i \in 1..m : frame(i) \in F
    BY <1>2 DEF m
  <2> HIDE DEF frame, F
  <2> QED BY <2>1
<1>5. S!Progress(c) = [i \in 1..m |-> frame(i)]
  BY <1>1 DEF m
<1> DEFINE p == [i \in 1..m |-> frame(i)]
<1>6. \A i \in 1..m : p[i] = frame(i)
  OBVIOUS
<1>7. \A i \in 1..m : p[i].task \in K /\ ~ p[i].durable
  BY <1>3, <1>6 DEF m
<1> HIDE DEF frame, F, p
<1>8. Speaks(p, K)
  BY <1>4, <1>7 DEF Speaks, IsRow, p
<1> QED BY <1>5, <1>8 DEF p, K
-----------------------------------------------------------------------------
(* The store: the newest entry of a backlog is kept, the others are older. *)

LEMMA BytesOfNone == S!Bytes(<< >>) = 0
<1> DEFINE Sum(f) == f = [i \in 0..0 |-> IF i = 0 THEN 0 ELSE f[i - 1] + << >>[i].size]
<1>1. S!Bytes(<< >>) = (CHOOSE f : Sum(f))[0]
  BY DEF S!Bytes
<1>2. Sum([i \in 0..0 |-> 0])
  OBVIOUS
<1>3. Sum(CHOOSE f : Sum(f))
  BY <1>2
<1> QED BY <1>1, <1>3

LEMMA BytesOfOne ==
  ASSUME NEW e, e.size \in Nat
  PROVE  S!Bytes(<<e>>) = e.size
<1> DEFINE Sum(f) == f = [i \in 0..1 |-> IF i = 0 THEN 0 ELSE f[i - 1] + <<e>>[i].size]
<1>1. S!Bytes(<<e>>) = (CHOOSE f : Sum(f))[1]
  BY DEF S!Bytes
<1>2. Sum([i \in 0..1 |-> IF i = 0 THEN 0 ELSE e.size])
  OBVIOUS
<1>3. Sum(CHOOSE f : Sum(f))
  BY <1>2
<1> DEFINE g == CHOOSE f : Sum(f)
<1>4. g = [i \in 0..1 |-> IF i = 0 THEN 0 ELSE g[i - 1] + <<e>>[i].size]
  BY <1>3
<1> HIDE DEF g
<1>5. g[0] = 0 /\ g[1] = e.size
  BY <1>4
<1> QED BY <1>1, <1>5 DEF g

LEMMA WithinLast ==
  ASSUME NEW q, NEW n, Firm(q, n), NEW e, e.durable, e.stamp \in 1..n,
         e.size \in Nat, e.size <= BacklogBytes
  PROVE  /\ Firm(S!Within(Append(q, e)), n)
         /\ S!Last(S!Within(Append(q, e))) = e
<1> DEFINE r == Append(q, e)
           tail(k) == SubSeq(r, k + 1, Len(r))
           fits == {k \in 0..Len(r) : /\ Len(tail(k)) <= BacklogEvents
                                      /\ S!Bytes(tail(k)) <= BacklogBytes}
           m == S!Min(fits)
<1>1. Firm(r, n) /\ IsRow(r) /\ Len(r) = Len(q) + 1 /\ Len(q) \in Nat /\ r[Len(r)] = e
  BY FirmAppend, RowAppend, RowLength, FirmIsRow
<1>2. S!Within(r) = tail(m)
  BY Zenon DEF S!Within
<1> HIDE DEF r
<1>3. Len(q) \in fits
  <2>1. Len(q) \in 0..Len(r) /\ Len(r) - Len(q) = 1 /\ Len(q) + 1 = Len(r)
    BY <1>1
  <2>2. IsRow(tail(Len(q))) /\ Len(tail(Len(q))) = 1 /\ tail(Len(q))[1] = e
    <3>1. /\ IsRow(tail(Len(q))) /\ Len(tail(Len(q))) = Len(r) - Len(q)
          /\ \A i \in 1..(Len(r) - Len(q)) : tail(Len(q))[i] = r[Len(q) + i]
      BY <1>1, <2>1, RowSub
    <3> HIDE DEF tail
    <3> QED BY <1>1, <2>1, <3>1
  <2>3. tail(Len(q)) = <<e>>
    <3> DEFINE one == tail(Len(q))
    <3> HIDE DEF one
    <3>1. IsRow(one) /\ Len(one) = 1 /\ one[1] = e
      BY <2>2 DEF one
    <3>2. PICK X : one \in Seq(X)
      BY <3>1 DEF IsRow
    <3>3. one = <<e>>
      BY <3>1, <3>2
    <3> QED BY <3>3 DEF one
  <2>4. S!Bytes(tail(Len(q))) <= BacklogBytes
    BY <2>3, BytesOfOne
  <2>5. 1 <= BacklogEvents
    BY ConstantsAre
  <2> HIDE DEF tail
  <2> QED BY <2>1, <2>2, <2>4, <2>5
<1>4. fits \in SUBSET Nat /\ fits \subseteq 0..Len(r)
  OBVIOUS
<1> HIDE DEF fits
<1>5. m \in fits /\ \A y \in fits : m <= y
  <2>1. \E x \in fits : \A y \in fits : x <= y
    BY <1>3, <1>4, LeastNatural
  <2> QED BY <2>1 DEF S!Min
<1>6. m \in 0..Len(r) /\ m <= Len(q)
  BY <1>3, <1>4, <1>5
<1> HIDE DEF m
<1>7. Firm(tail(m), n)
  BY <1>1, <1>6, FirmSub
<1>8. /\ Len(tail(m)) = Len(r) - m
      /\ tail(m)[Len(r) - m] = e
  <2>1. /\ Len(tail(m)) = Len(r) - m
        /\ \A i \in 1..(Len(r) - m) : tail(m)[i] = r[m + i]
    BY <1>1, <1>6, RowSub
  <2>2. Len(r) - m \in 1..(Len(r) - m) /\ m + (Len(r) - m) = Len(r)
    BY <1>1, <1>6
  <2> HIDE DEF tail
  <2> QED BY <1>1, <2>1, <2>2
<1>9. S!Last(tail(m)) = e
  BY <1>8 DEF S!Last
<1> QED BY <1>2, <1>7, <1>9 DEF r

\* A retained backlog.
Stock(b, n) ==
  /\ b = [token |-> b.token, next |-> b.next, entries |-> b.entries, bytes |-> b.bytes]
  /\ Firm(b.entries, n)

LEMMA NoStock == \A n : Stock(S!NoBacklog, n)
BY RowEmpty DEF Stock, S!NoBacklog

LEMMA ExtendedStock ==
  ASSUME captured \in Nat, NEW s, Stock(S!Pruned.val[s], captured),
         NEW t, NEW size \in Sizes,
         NEW b, b = S!Extended(s, t, S!Stored(size))
  PROVE  /\ Stock(b, captured + 1)
         /\ S!Last(b.entries).task = t /\ S!Last(b.entries).durable
         /\ S!Last(b.entries).stamp \in 1..(captured + 1)
<1> DEFINE a == IF S!Pruned.pos[s] # 0 THEN S!Pruned.val[s]
                ELSE [S!NoBacklog EXCEPT !.token = S!NewToken(s)]
           e == [token |-> a.token, seq |-> a.next, task |-> t, size |-> S!Stored(size),
                 stamp |-> captured + 1, durable |-> TRUE]
           kept == S!Within(Append(a.entries, e))
<1>1. b = [a EXCEPT !.next = @ + 1, !.entries = kept, !.bytes = S!Bytes(kept)]
  BY Zenon DEF S!Extended
<1>2. Stock(a, captured)
  <2> DEFINE none == [S!NoBacklog EXCEPT !.token = S!NewToken(s)]
  <2>1. none = [token |-> S!NewToken(s), next |-> 0, entries |-> << >>, bytes |-> 0]
    BY DEF S!NoBacklog
  <2> HIDE DEF none
  <2>2. Stock(none, captured)
    BY <2>1, RowEmpty DEF Stock
  <2> QED BY <2>2 DEF none
<1>3. /\ e.durable /\ e.stamp = captured + 1 /\ e.stamp \in 1..(captured + 1)
      /\ e.task = t /\ e.size = S!Stored(size)
  OBVIOUS
<1>4. S!Stored(size) \in Nat /\ S!Stored(size) <= BacklogBytes
  BY ConstantsAre DEF S!Stored
<1> HIDE DEF a, e
<1>5. Firm(a.entries, captured + 1)
  BY <1>2, RowLater DEF Stock
<1>6. Firm(kept, captured + 1) /\ S!Last(kept) = e
  BY <1>3, <1>4, <1>5, WithinLast
<1> HIDE DEF kept
<1>7. b = [token |-> a.token, next |-> a.next + 1, entries |-> kept, bytes |-> S!Bytes(kept)]
  BY <1>1, <1>2 DEF Stock
<1>8. Stock(b, captured + 1) /\ b.entries = kept
  BY <1>6, <1>7 DEF Stock
<1> QED BY <1>3, <1>6, <1>8

Store(d, n) ==
  d.val = [s \in Sessions |-> d.val[s]] /\ \A s \in Sessions : Stock(d.val[s], n)

LEMMA DropStore ==
  ASSUME NEW d, NEW n, Store(d, n), NEW gone
  PROVE  Store(Drop(d, gone, S!NoBacklog), n)
<1> DEFINE none == S!NoBacklog
           left == Drop(d, gone, none)
<1>1. Stock(none, n)
  BY NoStock
<1> HIDE DEF none
<1>2. left.val = [s \in Sessions |-> IF s \in gone THEN none ELSE d.val[s]]
  <2>1. left.val = [s \in DOMAIN d.val |-> IF s \in gone THEN none ELSE d.val[s]]
    BY DEF Drop
  <2>2. DOMAIN d.val = Sessions
    BY DEF Store
  <2> QED BY <2>1, <2>2
<1> HIDE DEF left
<1>3. Store(left, n)
  BY <1>1, <1>2 DEF Store
<1> QED BY <1>3 DEF left, none
-----------------------------------------------------------------------------
(* What a capture, a report and a step of a connection do to the readers.  *)

\* A client reads one connection at a time.
OneLive ==
  \A c, d \in 1..MaxConns : sub[c].live /\ sub[d].live /\ sub[c].client = sub[d].client => c = d

Streams ==
  /\ captured \in Nat
  /\ Store(backlogs, captured)
  /\ sub = [c \in 1..MaxConns |-> sub[c]] /\ \A c \in 1..MaxConns : Reader(sub[c], captured)
  /\ got = [cl \in Clients |-> got[cl]] /\ \A cl \in Clients : Row(got[cl], captured)
  /\ OneLive

LEMMA PrunedIs == ASSUME Streams PROVE Store(S!Pruned, captured)
<1>1. S!Pruned = Drop(backlogs, old, S!NoBacklog)
  BY SameStreamDict, Zenon DEF S!Pruned
<1> QED BY <1>1, DropStore DEF Streams

\* A payload of t is captured: it is queued, and makes queued progress of t void.
Takes(t) ==
  /\ captured' = captured + 1 /\ got' = got
  /\ Store(backlogs', captured')
  /\ sub' = [c \in 1..MaxConns |-> sub'[c]]
  /\ \A c \in 1..MaxConns :
       /\ Reader(sub'[c], captured') /\ SameReader(sub[c], sub'[c])
       /\ Keys(sub'[c].transient) \subseteq Keys(sub[c].transient)
       /\ Home[sub[c].client] = Home[t] => t \notin Keys(sub'[c].transient)

LEMMA CaptureTakes ==
  ASSUME Streams, NEW t \in Known, NEW size \in Sizes, S!Capture(t, size)
  PROVE  Takes(t)
<1> DEFINE s == Home[t]
           b == S!Extended(s, t, S!Stored(size))
           e == S!Last(b.entries)
           placed == Put(S!Pruned, s, b)
<1>1. /\ captured' = captured + 1 /\ got' = got
      /\ backlogs' = Trim(placed, MaxSessions, S!NoBacklog)
      /\ sub' = [c \in 1..MaxConns |->
                   IF c \in S!Subscribed /\ Home[sub[c].client] = s
                   THEN S!Offered(sub[c], e) ELSE sub[c]]
  <2>1. /\ captured' = captured + 1 /\ got' = got
        /\ backlogs' = S!Trim(S!Put(S!Pruned, s, b), MaxSessions, S!NoBacklog)
        /\ sub' = [c \in S!Conns |->
                     IF c \in S!Subscribed /\ S!Session(c) = s
                     THEN S!Offered(sub[c], e) ELSE sub[c]]
    BY Zenon DEF S!Capture, Home
  <2> HIDE DEF b, e, s
  <2> QED BY <2>1, SameStreamDict, ConnectionIs DEF placed
<1>2. s \in Sessions /\ captured \in Nat
  BY ConstantsAre DEF Known, Streams
<1>3. Store(S!Pruned, captured)
  BY PrunedIs
<1>4. Stock(b, captured + 1) /\ e.task = t /\ e.durable /\ e.stamp \in 1..(captured + 1)
  <2>1. Stock(S!Pruned.val[s], captured)
    BY <1>2, <1>3 DEF Store
  <2> HIDE DEF s
  <2> QED BY <1>2, <2>1, ExtendedStock
<1> HIDE DEF b, e, s
<1>5. Store(placed, captured + 1)
  <2>1. placed.val = [S!Pruned.val EXCEPT ![s] = b]
    BY DEF placed, Put
  <2>2. placed.val = [r \in Sessions |-> IF r = s THEN b ELSE S!Pruned.val[r]]
    BY <1>2, <1>3, <2>1 DEF Store
  <2>3. \A r \in Sessions : Stock(S!Pruned.val[r], captured + 1)
    BY <1>2, <1>3, RowLater DEF Store, Stock
  <2> HIDE DEF placed
  <2> QED BY <1>4, <2>2, <2>3 DEF Store
<1> HIDE DEF placed
<1>6. Store(backlogs', captured')
  BY <1>1, <1>5, DropStore DEF Trim
<1>7. ASSUME NEW c \in 1..MaxConns
      PROVE  /\ Reader(sub'[c], captured') /\ SameReader(sub[c], sub'[c])
             /\ Keys(sub'[c].transient) \subseteq Keys(sub[c].transient)
             /\ Home[sub[c].client] = Home[t] => t \notin Keys(sub'[c].transient)
  <2>1. Reader(sub[c], captured) /\ Reader(sub[c], captured + 1)
    BY <1>2, ReaderLater DEF Streams
  <2>2. CASE c \in S!Subscribed /\ Home[sub[c].client] = s
    <3>1. sub'[c] = S!Offered(sub[c], e)
      BY <1>1, <2>2
    <3>2. captured \in Nat /\ captured + 1 \in Nat /\ captured <= captured + 1
      BY <1>2
    <3>3. /\ Reader(sub'[c], captured + 1) /\ SameReader(sub[c], sub'[c])
          /\ Keys(sub'[c].transient) \subseteq Keys(sub[c].transient) \ {e.task}
      BY <1>4, <2>1, <3>1, <3>2, OfferedReader
    <3> QED BY <1>1, <1>4, <3>3
  <2>3. CASE ~ (c \in S!Subscribed /\ Home[sub[c].client] = s)
    <3>1. sub'[c] = sub[c]
      BY <1>1, <2>3
    <3>2. Home[sub[c].client] = Home[t] => Keys(sub[c].transient) = {}
      BY <2>1, <2>3, ConnectionIs DEF Reader, s
    <3> QED BY <1>1, <2>1, <3>1, <3>2 DEF SameReader
  <2> QED BY <2>2, <2>3
<1>8. sub' = [c \in 1..MaxConns |-> sub'[c]]
  BY <1>1
<1> QED BY <1>1, <1>6, <1>7, <1>8 DEF Takes

\* Progress of t waits for the readers of its session.
Tells(t) ==
  /\ UNCHANGED <<captured, got, backlogs>>
  /\ sub' = [c \in 1..MaxConns |-> sub'[c]]
  /\ \A c \in 1..MaxConns :
       /\ Reader(sub'[c], captured) /\ SameReader(sub[c], sub'[c])
       /\ \A u \in Keys(sub'[c].transient) :
            u \in Keys(sub[c].transient) \/ (u = t /\ Home[sub[c].client] = Home[t])

LEMMA PublishTells ==
  ASSUME Streams, NEW t \in Known, S!Publish(t)
  PROVE  Tells(t)
<1>1. /\ UNCHANGED <<captured, got, backlogs>>
      /\ sub' = [c \in 1..MaxConns |->
           IF c \notin S!Subscribed \/ Home[sub[c].client] # Home[t] \/ sub[c].dropped THEN sub[c]
           ELSE IF S!Cardinality(S!Keys(Reported(sub[c], t).transient)) > BacklogEvents
           THEN S!Dropped(Reported(sub[c], t)) ELSE Reported(sub[c], t)]
  <2>1. /\ UNCHANGED <<captured, got, backlogs>>
        /\ sub' = [c \in S!Conns |->
             IF c \notin S!Subscribed \/ S!Session(c) # Home[t] \/ sub[c].dropped THEN sub[c]
             ELSE IF S!Cardinality(S!Keys(Reported(sub[c], t).transient)) > BacklogEvents
             THEN S!Dropped(Reported(sub[c], t)) ELSE Reported(sub[c], t)]
    BY Zenon DEF S!Publish, S!storeVars, Home, Reported
  <2> QED BY <2>1, ConnectionIs
<1>2. ASSUME NEW c \in 1..MaxConns
      PROVE  /\ Reader(sub'[c], captured) /\ SameReader(sub[c], sub'[c])
             /\ \A u \in Keys(sub'[c].transient) :
                  u \in Keys(sub[c].transient) \/ (u = t /\ Home[sub[c].client] = Home[t])
  <2>1. Reader(sub[c], captured) /\ captured \in Nat
    BY DEF Streams
  <2>2. CASE sub'[c] = sub[c]
    BY <2>1, <2>2 DEF SameReader
  <2>3. CASE /\ c \in S!Subscribed /\ Home[sub[c].client] = Home[t] /\ ~ sub[c].dropped
             /\ sub'[c] \in {Reported(sub[c], t), S!Dropped(Reported(sub[c], t))}
    <3>1. sub[c].pc \in ConnectedAt
      BY <2>3, ConnectionIs
    <3>2. /\ Reader(sub'[c], captured) /\ SameReader(sub[c], sub'[c])
          /\ Keys(sub'[c].transient) \subseteq Keys(sub[c].transient) \cup {t}
      BY <2>1, <2>3, <3>1, ReportedReader
    <3> QED BY <2>3, <3>2
  <2> QED BY <1>1, <2>2, <2>3
<1>3. sub' = [c \in 1..MaxConns |-> sub'[c]]
  BY <1>1
<1> QED BY <1>1, <1>2, <1>3 DEF Tells

\* A frame reaches the client of c.
Receives(c) ==
  /\ sub[c].live /\ sub[c].batch # << >>
  /\ got' = [got EXCEPT ![sub[c].client] = Append(@, Head(sub[c].batch))]

Opens(c) ==
  /\ got' = got /\ sub'[c].batch = << >> /\ Keys(sub'[c].transient) = {}
  /\ \A d \in 1..MaxConns : sub[d].live => sub[d].client # sub'[c].client
Idles(c) ==
  /\ ~ sub'[c].live /\ sub'[c].client = sub[c].client
  /\ Keys(sub'[c].transient) \subseteq Keys(sub[c].transient)
  /\ got' = got \/ Receives(c)
Drains(c) ==
  /\ got' = got /\ sub'[c].live = sub[c].live /\ sub'[c].client = sub[c].client
  /\ sub'[c].batch = sub[c].pending \o S!Progress(c) /\ Keys(sub'[c].transient) = {}
Writes(c) ==
  /\ Receives(c) /\ sub'[c].live = sub[c].live /\ sub'[c].client = sub[c].client
  /\ sub'[c].batch = Tail(sub[c].batch) /\ sub'[c].transient = sub[c].transient

\* One connection goes on.
Proceeds(c) ==
  /\ captured' = captured /\ Store(backlogs', captured)
  /\ sub' = [sub EXCEPT ![c] = sub'[c]] /\ Reader(sub'[c], captured)
  /\ Opens(c) \/ Idles(c) \/ Drains(c) \/ Writes(c)
\* No connection does.
Rests == UNCHANGED <<captured, sub, got>> /\ Store(backlogs', captured)

LEMMA ClosedIdles ==
  ASSUME Streams, NEW c \in 1..MaxConns, S!Closed(c)
  PROVE  /\ sub' = [sub EXCEPT ![c] = sub'[c]] /\ Reader(sub'[c], captured)
         /\ ~ sub'[c].live /\ sub'[c].client = sub[c].client
         /\ Keys(sub'[c].transient) \subseteq Keys(sub[c].transient)
<1> DEFINE x == sub[c]
           empty == S!Empty(Known, 0)
           y == [client |-> x.client, live |-> FALSE, pc |-> "closed", pending |-> << >>,
                 bytes |-> x.bytes, transient |-> empty, dropped |-> x.dropped,
                 wakeup |-> x.wakeup, batch |-> << >>]
<1>1. Reader(x, captured) /\ c \in DOMAIN sub
  BY DEF Streams
<1>2. sub' = [sub EXCEPT ![c] = y]
  <2>1. sub' = [sub EXCEPT ![c].pc = "closed", ![c].live = FALSE, ![c].pending = << >>,
                           ![c].transient = empty, ![c].batch = << >>]
    BY Zenon DEF S!Closed, Known
  <2>2. sub' = [sub EXCEPT ![c] = [@ EXCEPT !.pc = "closed", !.live = FALSE, !.pending = << >>,
                                            !.transient = empty, !.batch = << >>]]
    BY <1>1, <2>1
  <2> HIDE DEF empty
  <2>3. [x EXCEPT !.pc = "closed", !.live = FALSE, !.pending = << >>,
                  !.transient = empty, !.batch = << >>] = y
    <3>1. ReaderShape(x)
      BY <1>1 DEF Reader
    <3> HIDE DEF x
    <3>2. ASSUME NEW z, z = [x EXCEPT !.pc = "closed", !.live = FALSE, !.pending = << >>,
                                    !.transient = empty, !.batch = << >>]
          PROVE z = y
      BY <3>1, <3>2 DEF ReaderShape
    <3> QED BY <3>2
  <2> HIDE DEF y
  <2> QED BY <2>2, <2>3
<1>3. empty \in Dict(Known, Nat) /\ InOrder(empty) /\ Keys(empty) = {}
  BY NoProgress
<1> HIDE DEF empty
<1>4. /\ ReaderShape(y) /\ y.client = x.client /\ ~ y.live /\ y.pending = << >> /\ y.batch = << >>
      /\ y.transient = empty /\ y.pc = "closed"
  BY DEF ReaderShape
<1> HIDE DEF y
<1>5. Reader(y, captured)
  BY <1>1, <1>3, <1>4, RowEmpty DEF Reader
<1>6. sub'[c] = y
  BY <1>1, <1>2
<1> QED BY <1>2, <1>3, <1>4, <1>5, <1>6

LEMMA StoreStays == ASSUME Streams, UNCHANGED S!storeVars PROVE captured' = captured /\ Store(backlogs', captured)
BY DEF Streams, S!storeVars

LEMMA LeaveMoves ==
  ASSUME Streams, NEW c \in 1..MaxConns, S!Leave(c)
  PROVE  Proceeds(c)
<1> DEFINE x == sub[c]
           y == [client |-> x.client, live |-> FALSE, pc |-> x.pc, pending |-> x.pending,
                 bytes |-> x.bytes, transient |-> x.transient, dropped |-> x.dropped,
                 wakeup |-> x.wakeup, batch |-> x.batch]
<1>1. Reader(x, captured) /\ c \in DOMAIN sub
  BY DEF Streams
<1>2. sub' = [sub EXCEPT ![c] = y]
  <2>1. sub' = [sub EXCEPT ![c] = [@ EXCEPT !.live = FALSE]]
    BY <1>1 DEF S!Leave
  <2>2. [x EXCEPT !.live = FALSE] = y
    <3>1. ReaderShape(x)
      BY <1>1 DEF Reader
    <3> HIDE DEF x
    <3>2. ASSUME NEW z, z = [x EXCEPT !.live = FALSE] PROVE z = y
      BY <3>1, <3>2 DEF ReaderShape
    <3> QED BY <3>2
  <2> HIDE DEF y
  <2> QED BY <2>1, <2>2
<1>3. /\ ReaderShape(y) /\ y.client = x.client /\ ~ y.live /\ y.pending = x.pending
      /\ y.batch = x.batch /\ y.transient = x.transient /\ y.pc = x.pc /\ y.dropped = x.dropped
  BY DEF ReaderShape
<1> HIDE DEF y
<1>4. Reader(y, captured)
  BY <1>1, <1>3 DEF Reader
<1>5. sub'[c] = y
  BY <1>1, <1>2
<1>6. got' = got
  BY DEF S!Leave
<1>7. Idles(c)
  BY <1>3, <1>5, <1>6 DEF Idles
<1> QED BY <1>2, <1>4, <1>5, <1>7, StoreStays DEF Proceeds, S!Leave

LEMMA LostMoves ==
  ASSUME Streams, NEW c \in 1..MaxConns, S!ConnectionLost(c)
  PROVE  Proceeds(c)
<1>1. S!Closed(c) /\ got' = got /\ UNCHANGED S!storeVars
  BY DEF S!ConnectionLost
<1> QED BY <1>1, ClosedIdles, StoreStays DEF Proceeds, Idles

LEMMA TurnMoves ==
  ASSUME Streams, NEW c \in 1..MaxConns, S!Turn(c), got' = got,
         UNCHANGED S!storeVars, sub[c].pc \in ConnectedAt
  PROVE  Proceeds(c)
<1> DEFINE x == sub[c]
           frames == x.pending \o S!Progress(c)
           empty == S!Empty(Known, 0)
           to == IF frames = << >> THEN "waiting" ELSE "writing"
           y == [client |-> x.client, live |-> x.live, pc |-> to, pending |-> << >>,
                 bytes |-> 0, transient |-> empty, dropped |-> x.dropped,
                 wakeup |-> FALSE, batch |-> frames]
<1>1. Reader(x, captured) /\ c \in DOMAIN sub
  BY DEF Streams
<1>2. CASE S!Closed(c)
  BY <1>2, ClosedIdles, StoreStays DEF Proceeds, Idles
<1>3. CASE ~ S!Closed(c)
  <2>1. sub' = [sub EXCEPT ![c] = [S!Drained(@, frames) EXCEPT !.pc = to]]
    BY <1>3 DEF S!Turn
  <2>2. [S!Drained(x, frames) EXCEPT !.pc = to] = y
    <3>1. S!Drained(x, frames) = [x EXCEPT !.wakeup = FALSE, !.pending = << >>, !.bytes = 0,
                                             !.transient = empty, !.batch = frames]
      BY Zenon DEF S!Drained, Known
    <3>2. ReaderShape(x)
      BY <1>1 DEF Reader
    <3> HIDE DEF x, frames, empty, to
    <3>3. ASSUME NEW z, z = [[x EXCEPT !.wakeup = FALSE, !.pending = << >>, !.bytes = 0,
                                       !.transient = empty, !.batch = frames] EXCEPT !.pc = to]
          PROVE  z = y
      BY <3>2, <3>3 DEF ReaderShape
    <3> QED BY <3>1, <3>3
  <2>3. empty \in Dict(Known, Nat) /\ InOrder(empty) /\ Keys(empty) = {}
    BY NoProgress
  <2>4. Row(frames, captured)
    <3>1. Speaks(S!Progress(c), Keys(x.transient))
      BY <1>1, ProgressSpeaks
    <3>2. Row(S!Progress(c), captured)
      BY <3>1 DEF Speaks, Row
    <3> QED BY <1>1, <3>2, RowJoin, FirmIsRow DEF Reader
  <2>5. to \in ConnectedAt /\ (to = "writing" => frames # << >>)
    BY DEF ConnectedAt
  <2> HIDE DEF frames, empty, to
  <2>6. /\ ReaderShape(y) /\ y.client = x.client /\ y.live = x.live /\ y.pending = << >>
        /\ y.batch = frames /\ y.transient = empty /\ y.pc = to /\ y.dropped = x.dropped
    BY DEF ReaderShape
  <2> HIDE DEF y
  <2>7. Reader(y, captured)
    BY <1>1, <2>3, <2>4, <2>5, <2>6, RowEmpty DEF Reader
  <2>8. sub' = [sub EXCEPT ![c] = y] /\ sub'[c] = y
    BY <1>1, <2>1, <2>2
  <2>9. Drains(c)
    BY <2>3, <2>6, <2>8 DEF Drains, frames
  <2> QED BY <2>7, <2>8, <2>9, StoreStays DEF Proceeds
<1> QED BY <1>2, <1>3

LEMMA WriteMoves ==
  ASSUME Streams, NEW c \in 1..MaxConns, S!Write(c)
  PROVE  Proceeds(c)
<1> DEFINE x == sub[c]
           rest == Tail(x.batch)
           to == IF rest = << >> THEN "waiting" ELSE "writing"
           y == [client |-> x.client, live |-> x.live, pc |-> to, pending |-> x.pending,
                 bytes |-> x.bytes, transient |-> x.transient, dropped |-> x.dropped,
                 wakeup |-> x.wakeup, batch |-> rest]
<1>1. Reader(x, captured) /\ c \in DOMAIN sub
  BY DEF Streams
<1>2. x.pc = "writing" /\ x.batch # << >>
  BY <1>1 DEF S!Write, Reader
<1>3. IF x.live THEN Receives(c) ELSE got' = got
  BY <1>2 DEF S!Write, S!Reaches, Receives
<1>4. UNCHANGED S!storeVars
  BY DEF S!Write
<1>5. CASE S!Closed(c)
  BY <1>3, <1>4, <1>5, ClosedIdles, StoreStays DEF Proceeds, Idles
<1>6. CASE ~ S!Closed(c)
  <2>1. sub' = [sub EXCEPT ![c].batch = rest, ![c].pc = to]
    BY <1>6 DEF S!Write
  <2>2. Row(rest, captured)
    BY <1>1, <1>2, RowRest DEF Reader
  <2>3. to \in ConnectedAt /\ (to = "writing" => rest # << >>)
    BY DEF ConnectedAt
  <2> HIDE DEF rest, to
  <2>4. sub' = [sub EXCEPT ![c] = y]
    <3>1. sub' = [sub EXCEPT ![c] = [@ EXCEPT !.batch = rest, !.pc = to]]
      BY <1>1, <2>1
    <3>2. [x EXCEPT !.batch = rest, !.pc = to] = y
      <4>1. ReaderShape(x)
        BY <1>1 DEF Reader
      <4> HIDE DEF x
      <4>2. ASSUME NEW z, z = [x EXCEPT !.batch = rest, !.pc = to] PROVE z = y
        BY <4>1, <4>2 DEF ReaderShape
      <4> QED BY <4>2
    <3> HIDE DEF y
    <3> QED BY <3>1, <3>2
  <2>5. /\ ReaderShape(y) /\ y.client = x.client /\ y.live = x.live /\ y.pending = x.pending
        /\ y.batch = rest /\ y.transient = x.transient /\ y.pc = to /\ y.dropped = x.dropped
    BY DEF ReaderShape
  <2> HIDE DEF y
  <2>6. Reader(y, captured)
    BY <1>1, <2>2, <2>3, <2>5 DEF Reader
  <2>7. sub'[c] = y
    BY <1>1, <2>4
  <2>8. Writes(c) \/ Idles(c)
    BY <1>3, <2>5, <2>7 DEF Writes, Idles, rest
  <2> QED BY <1>4, <2>4, <2>6, <2>7, <2>8, StoreStays DEF Proceeds
<1> QED BY <1>5, <1>6

LEMMA FailsMoves ==
  ASSUME Streams, NEW c \in 1..MaxConns, S!WriteFails(c)
  PROVE  Proceeds(c)
<1>1. sub[c].batch # << >>
  BY DEF S!WriteFails, Streams, Reader
<1>2. got' = got \/ Receives(c)
  BY <1>1 DEF S!WriteFails, S!Reaches, Receives
<1>3. S!Closed(c) /\ UNCHANGED S!storeVars
  BY DEF S!WriteFails
<1> QED BY <1>2, <1>3, ClosedIdles, StoreStays DEF Proceeds, Idles

LEMMA ReplayedFirm ==
  ASSUME NEW b, NEW n, Stock(b, n), NEW floor
  PROVE  Firm(S!Replayed(b, floor), n)
<1> DEFINE skipped == {i \in DOMAIN b.entries : b.entries[i].seq <= floor}
           M == skipped \cup {0}
           m == S!Max(M)
<1>1. Firm(b.entries, n) /\ Len(b.entries) \in Nat /\ DOMAIN b.entries = 1..Len(b.entries)
  BY FirmIsRow, RowLength DEF Stock
<1>2. M \subseteq 0..Len(b.entries) /\ M # {}
  BY <1>1
<1>3. S!Replayed(b, floor) = SubSeq(b.entries, m + 1, Len(b.entries))
  BY Zenon DEF S!Replayed
<1> HIDE DEF M
<1>4. m \in M
  <2> DEFINE left == {Len(b.entries) - i : i \in M}
  <2>1. left \in SUBSET Nat /\ left # {}
    <3>1. \A i \in M : Len(b.entries) - i \in Nat
      BY <1>1, <1>2
    <3> QED BY <1>2, <3>1
  <2>2. PICK a \in left : \A z \in left : a <= z
    BY <2>1, LeastNatural
  <2>3. PICK i \in M : a = Len(b.entries) - i
    BY <2>2
  <2>4. \A j \in M : i >= j
    <3> SUFFICES ASSUME NEW j \in M PROVE i >= j
      OBVIOUS
    <3>1. a <= Len(b.entries) - j
      BY <2>2
    <3>2. i \in 0..Len(b.entries) /\ j \in 0..Len(b.entries)
      BY <1>2
    <3>3. Len(b.entries) - i <= Len(b.entries) - j
      BY <2>3, <3>1
    <3> HIDE DEF left
    <3> QED BY <1>1, <3>2, <3>3
  <2> QED BY <2>4 DEF S!Max
<1>5. m \in 0..Len(b.entries)
  BY <1>2, <1>4
<1> QED BY <1>1, <1>3, <1>5, FirmSub

LEMMA SubscribeMoves ==
  ASSUME Streams, NEW cl \in Clients, S!Subscribe(cl)
  PROVE  Rests \/ \E c \in 1..MaxConns : Proceeds(c)
<1> DEFINE b == S!Pruned.val[Home[cl]]
           floor == S!Floor(b, IF cl \in Resuming THEN S!LastEvent(cl) ELSE S!NoEvent)
           replayed == S!Replayed(b, floor)
<1>1. /\ \A d \in S!Subscribed : sub[d].client = cl => ~ sub[d].live
      /\ backlogs' = S!Pruned /\ captured' = captured /\ got' = got
      /\ \/ sub' = sub
         \/ \E c \in S!Conns :
              sub[c].pc = "unused"
              /\ sub' = [sub EXCEPT ![c] = S!Fresh(cl, replayed, S!Bytes(replayed))]
  BY Zenon DEF S!Subscribe, Home
<1>2. Store(backlogs', captured)
  BY <1>1, PrunedIs
<1>3. Firm(replayed, captured)
  <2>1. Home[cl] \in Sessions
    BY ConstantsAre
  <2>2. Stock(b, captured)
    BY <2>1, PrunedIs DEF Store
  <2> QED BY <2>2, ReplayedFirm
<1>4. CASE sub' = sub
  BY <1>1, <1>2, <1>4 DEF Rests
<1>5. ASSUME NEW c \in S!Conns,
             sub' = [sub EXCEPT ![c] = S!Fresh(cl, replayed, S!Bytes(replayed))]
      PROVE  Proceeds(c)
  <2> DEFINE x == S!Fresh(cl, replayed, S!Bytes(replayed))
             empty == S!Empty(Known, 0)
             bytes == S!Bytes(replayed)
  <2>1. x = [client |-> cl, live |-> TRUE, pc |-> "opening", pending |-> replayed,
             bytes |-> bytes, transient |-> empty, dropped |-> FALSE,
             wakeup |-> FALSE, batch |-> << >>]
    BY Zenon DEF S!Fresh, Known
  <2>2. c \in 1..MaxConns /\ c \in DOMAIN sub
    BY ConnectionIs DEF Streams
  <2>3. empty \in Dict(Known, Nat) /\ InOrder(empty) /\ Keys(empty) = {}
    BY NoProgress
  <2> HIDE DEF empty, bytes, x, replayed
  <2>4. /\ ReaderShape(x) /\ x.client = cl /\ x.pc = "opening" /\ x.pending = replayed
        /\ x.batch = << >> /\ x.transient = empty
    BY <2>1 DEF ReaderShape
  <2>5. Reader(x, captured)
    BY <1>3, <2>3, <2>4, RowEmpty DEF Reader, ConnectedAt
  <2>6. sub' = [sub EXCEPT ![c] = x] /\ sub'[c] = x
    BY <1>5, <2>2 DEF x, bytes
  <2>7. \A d \in 1..MaxConns : sub[d].live => sub[d].client # cl
    BY <1>1, ConnectionIs DEF Streams, Reader
  <2>8. Opens(c)
    BY <1>1, <2>3, <2>4, <2>6, <2>7 DEF Opens
  <2> QED BY <1>1, <1>2, <2>5, <2>6, <2>8 DEF Proceeds
<1> QED BY <1>1, <1>4, <1>5, ConnectionIs

LEMMA ConnectsMoves ==
  ASSUME Streams, Connects
  PROVE  Rests \/ \E c \in 1..MaxConns : Proceeds(c)
<1>1. CASE \E cl \in Clients : S!Subscribe(cl)
  BY <1>1, SubscribeMoves
<1>2. ASSUME NEW c \in S!Conns, S!Serve(c) PROVE \E d \in 1..MaxConns : Proceeds(d)
  <2>1. c \in 1..MaxConns
    BY ConnectionIs
  <2>2. CASE S!Open(c) \/ S!Wake(c)
    BY <2>1, <2>2, TurnMoves DEF S!Open, S!Wake, ConnectedAt
  <2> QED BY <1>2, <2>1, <2>2, WriteMoves, FailsMoves DEF S!Serve
<1>3. ASSUME NEW c \in S!Conns, S!Leave(c) \/ S!ConnectionLost(c)
      PROVE  \E d \in 1..MaxConns : Proceeds(d)
  BY <1>3, ConnectionIs, LeaveMoves, LostMoves
<1>4. CASE S!Age
  BY <1>4 DEF S!Age, Rests, Streams
<1>5. CASE UNCHANGED streamVars
  BY <1>5 DEF streamVars, Rests, Streams
<1> QED BY <1>1, <1>2, <1>3, <1>4, <1>5 DEF Connects
-----------------------------------------------------------------------------
(* The streams stay as they are said to be.                                *)

LEMMA UnusedIs ==
  S!Unused = [client |-> CHOOSE cl \in Clients : TRUE, live |-> FALSE, pc |-> "unused",
                pending |-> << >>, bytes |-> 0, transient |-> S!Empty(Known, 0),
                dropped |-> FALSE, wakeup |-> FALSE, batch |-> << >>]
<1> DEFINE x == S!Unused
           some == CHOOSE cl \in Clients : TRUE
           empty == S!Empty(Known, 0)
           z == S!Fresh(some, << >>, 0)
<1>1. x = [z EXCEPT !.pc = "unused", !.live = FALSE]
  BY Zenon DEF S!Unused
<1>2. z = [client |-> some, live |-> TRUE, pc |-> "opening", pending |-> << >>,
           bytes |-> 0, transient |-> empty, dropped |-> FALSE, wakeup |-> FALSE, batch |-> << >>]
  BY Zenon DEF S!Fresh, Known
<1> HIDE DEF x, some, empty, z
<1>3. x = [client |-> some, live |-> FALSE, pc |-> "unused", pending |-> << >>,
           bytes |-> 0, transient |-> empty, dropped |-> FALSE, wakeup |-> FALSE, batch |-> << >>]
  <2>1. /\ z.client = some /\ z.pending = << >> /\ z.bytes = 0 /\ z.transient = empty
        /\ z.dropped = FALSE /\ z.wakeup = FALSE /\ z.batch = << >>
    BY <1>2
  <2>2. ReaderShape(z)
    BY <1>2 DEF ReaderShape
  <2>3. x = [client |-> z.client, live |-> FALSE, pc |-> "unused", pending |-> z.pending,
             bytes |-> z.bytes, transient |-> z.transient, dropped |-> z.dropped,
             wakeup |-> z.wakeup, batch |-> z.batch]
    BY <1>1, <2>2 DEF ReaderShape
  <2> QED BY <2>1, <2>3, Zenon
<1> QED BY <1>3 DEF x, some, empty

LEMMA StreamsInit == ASSUME AdapterInit PROVE Streams
<1>1. /\ backlogs = Empty(Sessions, S!NoBacklog) /\ captured = 0
      /\ sub = [c \in 1..MaxConns |-> S!Unused] /\ got = [cl \in Clients |-> << >>]
  BY SameStreamDict, ConnectionIs DEF AdapterInit, S!Init
<1>2. Store(backlogs, 0)
  <2> DEFINE none == S!NoBacklog
  <2>1. backlogs.val = [s \in Sessions |-> none]
    BY <1>1 DEF Empty
  <2>2. Stock(none, 0)
    BY NoStock
  <2> HIDE DEF none
  <2> QED BY <2>1, <2>2 DEF Store
<1> DEFINE x == S!Unused
           some == CHOOSE cl \in Clients : TRUE
           empty == S!Empty(Known, 0)
<1>3. x = [client |-> some, live |-> FALSE, pc |-> "unused", pending |-> << >>,
           bytes |-> 0, transient |-> empty, dropped |-> FALSE, wakeup |-> FALSE, batch |-> << >>]
  BY UnusedIs
<1>5. some \in Clients
  BY AdapterAssumption
<1>6. empty \in Dict(Known, Nat) /\ InOrder(empty) /\ Keys(empty) = {}
  BY NoProgress
<1> HIDE DEF x, some, empty
<1>8. /\ ReaderShape(x) /\ x.client = some /\ ~ x.live /\ x.pc = "unused" /\ x.pending = << >>
      /\ x.batch = << >> /\ x.transient = empty
  BY <1>3 DEF ReaderShape
<1>9. Reader(x, 0)
  BY <1>5, <1>6, <1>8, RowEmpty DEF Reader
<1>10. \A c \in 1..MaxConns : sub[c] = x
  BY <1>1 DEF x
<1>11. sub = [c \in 1..MaxConns |-> sub[c]] /\ got = [cl \in Clients |-> got[cl]]
  BY <1>1
<1>12. \A cl \in Clients : Row(got[cl], 0)
  BY <1>1, RowEmpty
<1> QED BY <1>1, <1>2, <1>8, <1>9, <1>10, <1>11, <1>12 DEF Streams, OneLive

LEMMA TakesStreams ==
  ASSUME Streams, NEW t, Takes(t)
  PROVE  Streams'
<1>1. captured' \in Nat /\ captured <= captured'
  BY DEF Streams, Takes
<1>2. \A cl \in Clients : Row(got'[cl], captured')
  BY <1>1, RowLater DEF Streams, Takes
<1>3. OneLive'
  BY DEF Streams, Takes, OneLive, SameReader
<1> QED BY <1>1, <1>2, <1>3 DEF Streams, Takes

LEMMA TellsStreams ==
  ASSUME Streams, NEW t, Tells(t)
  PROVE  Streams'
<1>1. OneLive'
  BY DEF Streams, Tells, OneLive, SameReader
<1> QED BY <1>1 DEF Streams, Tells

LEMMA ReceivedIs ==
  ASSUME Streams, NEW c \in 1..MaxConns, Receives(c)
  PROVE  /\ got' = [cl \in Clients |-> got'[cl]]
         /\ \A cl \in Clients : Row(got'[cl], captured)
         /\ \A cl \in Clients : cl # sub[c].client => got'[cl] = got[cl]
         /\ got'[sub[c].client] = got[sub[c].client] \o <<Head(sub[c].batch)>>
<1> DEFINE cl == sub[c].client
           e == Head(sub[c].batch)
<1>1. cl \in Clients /\ Row(sub[c].batch, captured) /\ Row(got[cl], captured)
  BY DEF Streams, Reader
<1>2. got' = [k \in Clients |-> IF k = cl THEN Append(got[k], e) ELSE got[k]]
  BY <1>1 DEF Receives, Streams
<1>3. got'[cl] = got[cl] \o <<e>>
  BY <1>1, <1>2, RowAppend DEF Row
<1>4. Row(got'[cl], captured)
  <2>1. Row(<<e>>, captured)
    BY <1>1, RowRest DEF Receives
  <2> QED BY <1>1, <1>3, <2>1, RowJoin
<1> HIDE DEF cl
<1>5. \A k \in Clients : k # cl => got'[k] = got[k]
  BY <1>2
<1>6. got' = [k \in Clients |-> got'[k]]
  BY <1>2
<1> QED BY <1>1, <1>3, <1>4, <1>5, <1>6 DEF cl, Streams

LEMMA MovesStreams ==
  ASSUME Streams, NEW c \in 1..MaxConns, Proceeds(c)
  PROVE  Streams'
<1>1. /\ sub' = [d \in 1..MaxConns |-> sub'[d]] /\ \A d \in 1..MaxConns : d # c => sub'[d] = sub[d]
      /\ captured' = captured /\ Store(backlogs', captured) /\ Reader(sub'[c], captured)
  BY DEF Proceeds, Streams
<1>2. got' = got \/ Receives(c)
  BY DEF Proceeds, Opens, Idles, Drains, Writes
<1>3. got' = [cl \in Clients |-> got'[cl]] /\ \A cl \in Clients : Row(got'[cl], captured)
  BY <1>2, ReceivedIs DEF Streams
<1>4. \/ ~ sub'[c].live
      \/ sub'[c].live = sub[c].live /\ sub'[c].client = sub[c].client
      \/ \A d \in 1..MaxConns : sub[d].live => sub[d].client # sub'[c].client
  BY DEF Proceeds, Opens, Idles, Drains, Writes
<1>5. OneLive'
  BY <1>1, <1>4 DEF Streams, OneLive
<1> QED BY <1>1, <1>3, <1>5 DEF Streams

\* A turn under which progress is reported has not ended by itself.
GoesOn(h) == pc[h] # "done" \/ h \notin terminated

\* A step of the composition, told by what it does to the streams and the log.
Effects ==
  \/ Handed /\ \E h \in Accepted, kind \in Wire, size \in Sizes :
                 CapturesOne(h, kind, size) /\ Takes(TaskId(h, kind))
  \/ Handed /\ Rests /\ log' = log
  \/ Reports /\ \E h \in Accepted : GoesOn(h) /\ Tells(task[h])
  \/ Connects /\ (Rests \/ \E c \in 1..MaxConns : Proceeds(c))

LEMMA TaskIdIs ==
  ASSUME TypeOK, NEW h \in Accepted, NEW kind
  PROVE  TaskId(h, kind) \in Known /\ task[h] \in Known
<1>1. task[h] \in Tasks /\ ChatOf[task[h]] \in Chats
  BY AcceptedHandles DEF Chat
<1>2. SessionOf[ChatOf[task[h]]] \in Sessions
  BY <1>1, ConstantsAssumption
<1> QED BY <1>1, <1>2 DEF TaskId, Known

LEMMA StepEffects ==
  ASSUME EndInv, OrderInv, Streams, AdapterNext \/ UNCHANGED adapterVars
  PROVE  Effects
<1>1. TypeOK
  BY DEF EndInv
<1>2. CASE Handed
  <2>1. CASE UNCHANGED <<streamVars, log>>
    <3>1. Rests
      BY <2>1 DEF streamVars, Rests, Streams
    <3> QED BY <1>2, <2>1, <3>1 DEF Effects
  <2>2. ASSUME NEW h \in Accepted, NEW kind \in Wire, NEW size \in Sizes,
               CapturesOne(h, kind, size)
        PROVE  Effects
    <3>1. Takes(TaskId(h, kind))
      BY <1>1, <2>2, TaskIdIs, CaptureTakes DEF CapturesOne
    <3> QED BY <1>2, <2>2, <3>1 DEF Effects
  <2> QED BY <1>2, <2>1, <2>2, HandedIs
<1>3. CASE Reports
  <2>1. PICK h \in Accepted :
          /\ S!Publish(task[h])
          /\ \/ Start(h)
             \/ Alive(h)
             \/ \E c \in Chats : h = IF active[c] # None THEN active[c] ELSE Peek(c)
    BY <1>3 DEF Reports
  <2>2. Tells(task[h])
    BY <1>1, <2>1, TaskIdIs, PublishTells
  <2>3. h # None
    BY <1>1, AcceptedHandles
  <2>4. ASSUME NEW c \in Chats, h = IF active[c] # None THEN active[c] ELSE Peek(c)
        PROVE  pc[h] \in RunningAt \cup OpenAt
    <3>1. CASE active[c] # None
      BY <2>4, <3>1 DEF OrderInv, Order, ActiveRuns
    <3>2. CASE active[c] = None
      BY <1>1, <2>3, <2>4, <3>2, PeekType DEF QueueOf, OrderInv, Order, QueuedIsOpen
    <3> QED BY <3>1, <3>2
  <2>5. GoesOn(h)
    BY <2>1, <2>4 DEF GoesOn, Start, Alive, RunningAt, OpenAt
  <2> QED BY <1>3, <2>2, <2>5 DEF Effects
<1>4. CASE Connects
  BY <1>4, ConnectsMoves DEF Effects
<1> QED BY <1>1, <1>2, <1>3, <1>4, StepsOfTurns

JointInv == EndInv /\ OrderInv /\ LogInv /\ Streams

LEMMA JointStep ==
  ASSUME JointInv, AdapterNext \/ UNCHANGED adapterVars
  PROVE  JointInv' /\ Effects /\ [Next]_vars
<1>1. TypeOK
  BY DEF JointInv, EndInv
<1>2. Effects /\ [Next]_vars
  BY <1>1, StepEffects, TurnsStep DEF JointInv
<1>3. EndInv' /\ OrderInv'
  BY <1>2, EndStep, OrderStep DEF JointInv
<1>4. LogInv'
  BY <1>1, LogStep, StepsOfTurns DEF JointInv
<1>5. CASE Rests
  BY <1>3, <1>4, <1>2, <1>5 DEF JointInv, Rests, Streams, OneLive
<1>6. (\E t : Takes(t)) \/ (\E t : Tells(t)) \/ (\E c \in 1..MaxConns : Proceeds(c)) => Streams'
  BY TakesStreams, TellsStreams, MovesStreams DEF JointInv
<1> QED BY <1>2, <1>3, <1>4, <1>5, <1>6 DEF Effects, JointInv

LEMMA JointInit == ASSUME AdapterInit PROVE JointInv
BY TurnsInit, EndInit, OrderInit, LogInit, StreamsInit DEF JointInv
-----------------------------------------------------------------------------
(* A turn that is over is remembered: its task is neither in flight nor    *)
(* accepted again, and a client hears of no end that is not in the log.    *)

EndedIsOut == \A h \in terminated : task[h] \notin inflight

LEMMA OutStep == Remembers /\ Memory /\ EndInv /\ EndedIsOut /\ [Next]_vars => EndedIsOut'
<1> SUFFICES ASSUME Remembers, Memory, EndInv, EndedIsOut, [Next]_vars PROVE EndedIsOut'
  OBVIOUS
<1>1. terminated \subseteq Accepted /\ TypeOK
  BY DEF Memory, TypeOK, Accepted
<1>2. CASE Remember
  BY <1>2 DEF Remember, EndedIsOut
<1>3. ASSUME NEW t \in Tasks, Accept(t) PROVE EndedIsOut'
  <2>1. \A h \in Accepted : task'[h] = task[h]
    BY <1>1, <1>3, AcceptIs
  <2>2. ~ Cached(t) /\ inflight' = inflight \cup {t} /\ terminated' = terminated
    BY <1>3 DEF Accept
  <2> QED BY <1>1, <2>1, <2>2 DEF EndedIsOut, Memory, EndedIsCached
<1>4. CASE ClearTables
  BY <1>4 DEF ClearTables, EndedIsOut
<1> QED BY <1>2, <1>3, <1>4, StepRemembers DEF Memory

LEMMA HeardIsLogged ==
  ASSUME JointInv, NEW cl \in Clients, NEW i \in DOMAIN got[cl], got[cl][i].durable
  PROVE  got[cl][i].stamp \in 1..Len(log)
<1>1. captured = Len(log) /\ Row(got[cl], captured)
  BY DEF JointInv, LogInv, Streams
<1> QED BY <1>1, RowLength DEF Row

LEMMA RememberedIsDuplicate ==
  JointInv /\ Memory /\ EndedIsOut => EndedIsDuplicate
<1> SUFFICES ASSUME JointInv, Memory, EndedIsOut, NEW cl \in Clients, NEW h \in Accepted,
                    Ended(cl, h)
             PROVE  Cached(task[h]) /\ task[h] \notin inflight
  BY DEF EndedIsDuplicate, Accepted
<1>1. PICK i \in DOMAIN got[cl] : got[cl][i].durable /\ EndOf(got[cl][i].stamp, h)
  BY DEF Ended
<1>2. got[cl][i].stamp \in 1..Len(log)
  BY <1>1, HeardIsLogged
<1>3. h \in terminated
  BY <1>1, <1>2 DEF EndOf, JointInv, LogInv
<1> QED BY <1>3 DEF Memory, EndedIsCached, EndedIsOut

\* A client that heard the end of a turn, over whichever connection and however
\* late, and repeats its POST gets a duplicate, as long as the idempotency cache
\* has room for every task.
THEOREM RepeatIsDuplicate ==
  ASSUME DedupCap >= Cardinality(Tasks)
  PROVE  AdapterSpec => []EndedIsDuplicate
<1> DEFINE Inv == JointInv /\ Memory /\ EndedIsOut
<1>1. Remembers
  BY AdapterAssumption DEF Remembers
<1>2. AdapterInit => Inv
  <2>1. Init => EndedIsOut
    BY DEF Init, EndedIsOut
  <2> QED BY <2>1, JointInit, TurnsInit, OnceInit
<1>3. Inv /\ [AdapterNext]_adapterVars => Inv'
  BY <1>1, JointStep, MemoryStep, OutStep DEF JointInv
<1>4. Inv => EndedIsDuplicate
  BY RememberedIsDuplicate
<1> QED BY <1>2, <1>3, <1>4, PTL DEF AdapterSpec
-----------------------------------------------------------------------------
(* A turn that ended by itself is not shown busy after its end: whatever   *)
(* progress waits for a reader, or has been taken for it, is of turns      *)
(* whose end was not captured before.                                      *)

\* A turn of t that ended by itself has its end in the log.
Finished(t) == \E n \in 1..Len(log), h \in Accepted \ cut : EndOf(n, h) /\ task[h] = t

\* No progress in q follows the end of its turn.
Calm(q) ==
  \A i, j \in 1..Len(q) : i < j /\ q[i].durable /\ ~ q[j].durable =>
    \A h \in Accepted \ cut : EndOf(q[i].stamp, h) => q[j].task # task[h]

\* What the client of c has when it has read what is being written.
Line(c) == got[sub[c].client] \o sub[c].batch

CalmInv ==
  /\ \A cl \in Clients : Calm(got[cl])
  /\ \A c \in 1..MaxConns : sub[c].live => Calm(Line(c))
  /\ \A c \in 1..MaxConns : \A t \in Keys(sub[c].transient) :
       Home[sub[c].client] = Home[t] /\ ~ Finished(t)

LEMMA CalmPrefix ==
  ASSUME NEW p, NEW q, IsRow(p), IsRow(q), Calm(p \o q)
  PROVE  Calm(p)
<1> DEFINE r == p \o q
<1>1. /\ Len(p) \in Nat /\ Len(q) \in Nat /\ Len(r) = Len(p) + Len(q)
      /\ \A i \in 1..Len(p) : r[i] = p[i]
  BY RowLength, RowConcat
<1>2. \A i \in 1..Len(p) : i \in 1..Len(r)
  BY <1>1
<1> HIDE DEF r
<1>3. Calm(r)
  BY DEF r
<1> QED BY <1>1, <1>2, <1>3 DEF Calm

LEMMA Regroup ==
  ASSUME NEW p, NEW q, NEW r, IsRow(p), IsRow(q), IsRow(r)
  PROVE  (p \o q) \o r = p \o (q \o r) /\ p \o << >> = p
<1>1. PICK X : p \in Seq(X)
  BY DEF IsRow
<1>2. PICK Y : q \in Seq(Y)
  BY DEF IsRow
<1>3. PICK Z : r \in Seq(Z)
  BY DEF IsRow
<1> DEFINE V == X \cup Y \cup Z
<1>4. X \subseteq V /\ Y \subseteq V /\ Z \subseteq V
  OBVIOUS
<1> HIDE DEF V
<1>5. p \in Seq(V) /\ q \in Seq(V) /\ r \in Seq(V)
  BY <1>1, <1>2, <1>3, <1>4
<1> QED BY <1>5, ConcatAssociative, ConcatEmptySeq

\* Progress that waits can be read after all that was captured.
LEMMA CalmDrained ==
  ASSUME LogInv, NEW p, NEW q, NEW r, NEW K, Row(p, captured), Firm(q, captured), Speaks(r, K),
         Calm(p), \A t \in K : ~ Finished(t)
  PROVE  Calm(p \o (q \o r))
<1> DEFINE d == p \o q
           s == d \o r
<1>1. IsRow(p) /\ IsRow(q) /\ IsRow(r) /\ Row(d, captured)
  BY FirmIsRow, RowJoin DEF Row, Speaks
<1>2. IsRow(d)
  BY <1>1, RowConcat
<1>3. /\ Len(p) \in Nat /\ Len(q) \in Nat /\ Len(r) \in Nat
      /\ Len(d) = Len(p) + Len(q)
      /\ \A i \in 1..Len(p) : d[i] = p[i]
      /\ \A i \in 1..Len(q) : d[Len(p) + i] = q[i]
  BY <1>1, RowLength, RowConcat
<1>4. /\ Len(s) = Len(d) + Len(r)
      /\ \A i \in 1..Len(d) : s[i] = d[i]
      /\ \A i \in 1..Len(r) : s[Len(d) + i] = r[i]
  BY <1>1, <1>2, RowConcat
<1>5. p \o (q \o r) = s
  <2>1. IsRow(p) /\ IsRow(q) /\ IsRow(r)
    BY <1>1
  <2> QED BY <2>1, Regroup
<1> HIDE DEF d, s
<1>6. ASSUME NEW i \in 1..Len(s), NEW j \in 1..Len(s), i < j, s[i].durable, ~ s[j].durable,
             NEW h \in Accepted \ cut, EndOf(s[i].stamp, h)
      PROVE  s[j].task # task[h]
  <2>1. CASE j <= Len(p)
    <3>1. i \in 1..Len(p) /\ j \in 1..Len(p) /\ i \in 1..Len(d) /\ j \in 1..Len(d)
      BY <1>3, <1>6, <2>1
    <3>2. s[i] = p[i] /\ s[j] = p[j]
      BY <1>3, <1>4, <3>1
    <3> QED BY <1>6, <3>1, <3>2 DEF Calm
  <2>2. CASE Len(p) < j /\ j <= Len(d)
    <3>1. j - Len(p) \in 1..Len(q) /\ Len(p) + (j - Len(p)) = j /\ j \in 1..Len(d)
      BY <1>3, <2>2
    <3>2. s[j] = q[j - Len(p)]
      BY <1>3, <1>4, <3>1
    <3> QED BY <1>6, <3>1, <3>2 DEF Firm
  <2>3. CASE Len(d) < j
    <3>1. j - Len(d) \in 1..Len(r) /\ Len(d) + (j - Len(d)) = j
      BY <1>3, <1>4, <2>3
    <3>2. s[j] = r[j - Len(d)]
      BY <1>4, <3>1
    <3>3. s[j].task \in K
      BY <3>1, <3>2 DEF Speaks
    <3>4. CASE i \in 1..Len(d)
      <4>1. s[i] = d[i]
        BY <1>4, <3>4
      <4>2. s[i].stamp \in 1..Len(log)
        BY <1>1, <1>6, <3>4, <4>1 DEF Row, LogInv
      <4> QED BY <1>6, <3>3, <4>2 DEF Finished
    <3>5. CASE i \notin 1..Len(d)
      <4>1. i - Len(d) \in 1..Len(r) /\ Len(d) + (i - Len(d)) = i
        BY <1>3, <1>4, <1>6, <3>5
      <4>2. s[i] = r[i - Len(d)]
        BY <1>4, <4>1
      <4> QED BY <1>6, <4>1, <4>2 DEF Speaks
    <3> QED BY <3>4, <3>5
  <2> QED BY <1>3, <1>4, <2>1, <2>2, <2>3
<1>7. Calm(s)
  BY <1>6 DEF Calm
<1> QED BY <1>5, <1>7

\* What is captured later does not make a line less calm.
Older ==
  /\ Len(log) \in Nat /\ \A n \in 1..Len(log) : log'[n] = log[n]
  /\ cut \subseteq cut'
  /\ \A h \in Accepted : h \in Accepted' /\ task'[h] = task[h]

LEMMA CalmLater ==
  ASSUME LogInv, Older, NEW q, Row(q, captured), Calm(q)
  PROVE  Calm(q)'
<1> SUFFICES ASSUME NEW i \in 1..Len(q), NEW j \in 1..Len(q), i < j, q[i].durable,
                    ~ q[j].durable, NEW h \in Accepted' \ cut', EndOf(q[i].stamp, h)'
             PROVE  q[j].task # task'[h]
  BY DEF Calm
<1>1. q[i].stamp \in 1..Len(log)
  BY DEF Row, LogInv
<1>2. EndOf(q[i].stamp, h) /\ h \in Accepted /\ h \notin cut
  BY <1>1 DEF EndOf, Older, LogInv, Terminals
<1> QED BY <1>2 DEF Calm, Older

LEMMA FinishedLater ==
  ASSUME LogInv, Older, log' = log, NEW t, Finished(t)'
  PROVE  Finished(t)
<1>1. PICK n \in 1..Len(log), h \in Accepted' \ cut' : EndOf(n, h)' /\ task'[h] = t
  BY DEF Finished
<1>2. EndOf(n, h) /\ h \in Accepted /\ h \notin cut
  BY <1>1 DEF EndOf, Older, LogInv, Terminals
<1> QED BY <1>1, <1>2 DEF Finished, Older

LEMMA StepOlder ==
  ASSUME JointInv, [Next]_vars, Effects
  PROVE  Older /\ (log' = log \/ \E h \in Accepted, kind \in Wire, size \in Sizes :
                                   CapturesOne(h, kind, size) /\ Takes(TaskId(h, kind)))
<1>1. /\ TypeOK /\ log \in Seq(Records) /\ Len(log) \in Nat
  BY LenProperties DEF JointInv, EndInv, LogInv
<1>2. cut \subseteq cut'
  BY CapturedKept DEF Effects, Handed, ToStreams
<1>3. log' = log \/ \E h \in Accepted, kind \in Wire, size \in Sizes :
                      CapturesOne(h, kind, size) /\ Takes(TaskId(h, kind))
  BY CapturedKept DEF Effects
<1>4. \A n \in 1..Len(log) : log'[n] = log[n]
  <2>1. ASSUME NEW h \in Accepted, NEW kind \in Wire, NEW size \in Sizes, CapturesOne(h, kind, size)
        PROVE  \A n \in 1..Len(log) : log'[n] = log[n]
    <3>1. log' = Append(log, [handle |-> h, kind |-> kind])
      BY <2>1 DEF CapturesOne
    <3> DEFINE r == [handle |-> h, kind |-> kind]
    <3>2. r \in Records
      BY <1>1, AcceptedHandles DEF Records
    <3> HIDE DEF r
    <3> QED BY <1>1, <3>1, <3>2, AppendProperties DEF r
  <2> QED BY <1>3, <2>1
<1> QED BY <1>1, <1>2, <1>3, <1>4, AcceptedStays DEF Older

\* A captured end makes the progress void that waits under its task.
LEMMA TakesCalm ==
  ASSUME JointInv, CalmInv, Older,
         NEW h \in Accepted, NEW kind \in Wire, NEW size \in Sizes,
         CapturesOne(h, kind, size), Takes(TaskId(h, kind))
  PROVE  CalmInv'
<1> DEFINE t == TaskId(h, kind)
<1>1. LogInv /\ Streams /\ TypeOK
  BY DEF JointInv, EndInv
<1>2. \A cl \in Clients : Calm(got[cl])'
  <2> SUFFICES ASSUME NEW cl \in Clients PROVE Calm(got[cl])'
    OBVIOUS
  <2> DEFINE q == got[cl]
  <2>1. Row(q, captured) /\ Calm(q) /\ got'[cl] = q
    BY <1>1 DEF Streams, CalmInv, Takes
  <2> HIDE DEF q
  <2>2. \A r : Row(r, captured) /\ Calm(r) => Calm(r)'
    BY <1>1, CalmLater
  <2> QED BY <2>1, <2>2, Zenon
<1>3. \A c \in 1..MaxConns : sub'[c].live => Calm(Line(c))'
  <2> SUFFICES ASSUME NEW c \in 1..MaxConns, sub'[c].live PROVE Calm(Line(c))'
    OBVIOUS
  <2>1. Line(c)' = Line(c) /\ sub[c].live
    BY DEF Takes, SameReader, Line
  <2>2. Row(Line(c), captured)
    BY <1>1, RowJoin DEF Line, Streams, Reader
  <2>3. Calm(Line(c))
    BY <2>1 DEF CalmInv
  <2>4. \A r : Row(r, captured) /\ Calm(r) => Calm(r)'
    BY <1>1, CalmLater
  <2> QED BY <2>1, <2>2, <2>3, <2>4, Zenon
<1>4. ASSUME NEW c \in 1..MaxConns, NEW u \in Keys(sub'[c].transient)
      PROVE  Home[sub'[c].client] = Home[u] /\ ~ Finished(u)'
  <2>1. u \in Keys(sub[c].transient) /\ sub'[c].client = sub[c].client
    BY <1>4 DEF Takes, SameReader
  <2>2. Home[sub[c].client] = Home[u] /\ ~ Finished(u)
    BY <2>1 DEF CalmInv
  <2>3. u # t
    BY <1>4, <2>2 DEF Takes
  <2>4. ASSUME NEW n \in 1..Len(log'), NEW g \in Accepted' \ cut', EndOf(n, g)', task'[g] = u
        PROVE  FALSE
    <3>1. log' = Append(log, [handle |-> h, kind |-> kind])
      BY DEF CapturesOne
    <3> DEFINE r == [handle |-> h, kind |-> kind]
    <3>2. r \in Records /\ r.handle = h /\ r.kind = kind
      BY <1>1, AcceptedHandles DEF Records
    <3>3. Len(log') = Len(log) + 1 /\ Len(log) \in Nat /\ log'[Len(log) + 1] = r
      <4> HIDE DEF r
      <4> QED BY <1>1, <3>1, <3>2, AppendProperties, LenProperties DEF LogInv, r
    <3> HIDE DEF r
    <3>4. CASE n \in 1..Len(log)
      <4>1. EndOf(n, g) /\ g \in Accepted /\ g \notin cut
        BY <1>1, <2>4, <3>4 DEF EndOf, Older, LogInv, Terminals
      <4> QED BY <2>2, <2>4, <3>4, <4>1 DEF Finished, Older
    <3>5. CASE n = Len(log) + 1
      <4>1. g = h /\ kind \in Terminals
        BY <2>4, <3>2, <3>3, <3>5 DEF EndOf
      <4>2. kind \notin OnWire("new")
        BY <4>1, WireKinds DEF Terminals
      <4>3. t = task[h]
        BY <4>2 DEF TaskId
      <4> QED BY <2>3, <2>4, <4>1, <4>3 DEF Older
    <3> QED BY <2>4, <3>3, <3>4, <3>5
  <2> QED BY <2>1, <2>2, <2>4 DEF Finished
<1> QED BY <1>2, <1>3, <1>4 DEF CalmInv

LEMMA CalmSame ==
  ASSUME log' = log, task' = task, cut' = cut, NEW r
  PROVE  Calm(r)' <=> Calm(r)
<1>1. \A n, h : EndOf(n, h)' <=> EndOf(n, h)
  BY Zenon DEF EndOf, Terminals
<1>2. (Accepted \ cut)' = Accepted \ cut
  BY Zenon DEF Accepted
<1> QED BY <1>1, <1>2 DEF Calm

\* A turn that goes on has not finished, and no other turn has its task.
LEMMA TellsCalm ==
  ASSUME JointInv, CalmInv, Older, log' = log, Once, task' = task, cut' = cut,
         NEW h \in Accepted, GoesOn(h), Tells(task[h])
  PROVE  CalmInv'
<1>1. LogInv /\ Streams
  BY DEF JointInv
<1>2. \A r : Calm(r)' <=> Calm(r)
  BY CalmSame
<1>3. \A cl \in Clients : Calm(got[cl])'
  BY <1>2 DEF CalmInv, Tells
<1>4. \A c \in 1..MaxConns : sub'[c].live => Calm(Line(c))'
  <2> SUFFICES ASSUME NEW c \in 1..MaxConns, sub'[c].live PROVE Calm(Line(c))'
    OBVIOUS
  <2>1. Line(c)' = Line(c) /\ sub[c].live
    BY DEF Tells, SameReader, Line
  <2> QED BY <1>2, <2>1 DEF CalmInv
<1>5. ~ Finished(task[h])
  <2> SUFFICES ASSUME NEW n \in 1..Len(log), NEW g \in Accepted \ cut, EndOf(n, g),
                      task[g] = task[h]
               PROVE  FALSE
    BY DEF Finished
  <2>1. g = h
    BY DEF Once
  <2>2. h \in terminated
    BY <1>1, <2>1 DEF EndOf, LogInv
  <2> QED BY <1>1, <2>1, <2>2 DEF LogInv, GoesOn
<1>6. ASSUME NEW c \in 1..MaxConns, NEW u \in Keys(sub'[c].transient)
      PROVE  Home[sub'[c].client] = Home[u] /\ ~ Finished(u)'
  <2>1. sub'[c].client = sub[c].client
    BY DEF Tells, SameReader
  <2>2. \/ u \in Keys(sub[c].transient)
        \/ u = task[h] /\ Home[sub[c].client] = Home[task[h]]
    BY <1>6 DEF Tells
  <2>3. Home[sub[c].client] = Home[u] /\ ~ Finished(u)
    BY <1>5, <2>2 DEF CalmInv
  <2> QED BY <1>1, <2>1, <2>3, FinishedLater
<1> QED BY <1>3, <1>4, <1>6 DEF CalmInv

LEMMA MovesCalm ==
  ASSUME JointInv, CalmInv, Older, log' = log, task' = task, cut' = cut,
         NEW c \in 1..MaxConns, Proceeds(c)
  PROVE  CalmInv'
<1>1. LogInv /\ Streams /\ captured = Len(log)
  BY DEF JointInv, LogInv
<1>2. \A r : Calm(r)' <=> Calm(r)
  BY CalmSame
<1>3. /\ \A d \in 1..MaxConns : d # c => sub'[d] = sub[d]
      /\ Reader(sub[c], captured) /\ Reader(sub'[c], captured)
  BY <1>1 DEF Proceeds, Streams
<1>4. IsRow(got[sub[c].client]) /\ IsRow(sub[c].batch)
  BY <1>1, <1>3 DEF Reader, Row, Streams
<1>5. CASE got' = got /\ (Opens(c) \/ Idles(c) \/ Drains(c))
  <2>1. \A d \in 1..MaxConns : d # c => Line(d)' = Line(d)
    BY <1>3, <1>5 DEF Line
  <2>2. sub'[c].live => Calm(Line(c)')
    <3>1. CASE Opens(c)
      <4>1. sub'[c].client \in Clients
        BY <1>3 DEF Reader
      <4>2. Line(c)' = got[sub'[c].client] \o << >>
        BY <3>1 DEF Opens, Line
      <4>3. Line(c)' = got[sub'[c].client]
        <5> DEFINE p == got[sub'[c].client]
        <5>1. IsRow(p)
          BY <1>1, <4>1 DEF Streams, Row
        <5> HIDE DEF p
        <5>2. p \o << >> = p
          BY <5>1, Regroup
        <5> QED BY <4>2, <5>2 DEF p
      <4> QED BY <4>1, <4>3 DEF CalmInv
    <3>2. CASE Idles(c)
      BY <3>2 DEF Idles
    <3>3. CASE Drains(c)
      <4>1. Line(c)' = got[sub[c].client] \o (sub[c].pending \o S!Progress(c))
        BY <3>3 DEF Drains, Line
      <4>2. Speaks(S!Progress(c), Keys(sub[c].transient))
        BY <1>3, ProgressSpeaks
      <4>3. /\ Row(got[sub[c].client], captured) /\ Firm(sub[c].pending, captured)
            /\ Calm(got[sub[c].client]) /\ \A t \in Keys(sub[c].transient) : ~ Finished(t)
        BY <1>1, <1>3 DEF Reader, Streams, CalmInv
      <4> QED BY <1>1, <4>1, <4>2, <4>3, CalmDrained
    <3> QED BY <1>5, <3>1, <3>2, <3>3
  <2>3. \A d \in 1..MaxConns : sub'[d].live => Calm(Line(d)')
    BY <1>3, <2>1, <2>2 DEF CalmInv
  <2>4. \A cl \in Clients : Calm(got'[cl])
    BY <1>5 DEF CalmInv
  <2>5. \A d \in 1..MaxConns : \A t \in Keys(sub'[d].transient) :
          Home[sub'[d].client] = Home[t] /\ ~ Finished(t)'
    <3> SUFFICES ASSUME NEW d \in 1..MaxConns, NEW t \in Keys(sub'[d].transient)
                 PROVE  Home[sub'[d].client] = Home[t] /\ ~ Finished(t)'
      OBVIOUS
    <3>1. sub'[d].client = sub[d].client /\ t \in Keys(sub[d].transient)
      BY <1>3 DEF Proceeds, Opens, Idles, Drains, Writes
    <3> QED BY <1>1, <3>1, FinishedLater DEF CalmInv
  <2> QED BY <1>2, <2>3, <2>4, <2>5 DEF CalmInv
<1>6. CASE Receives(c) /\ (Idles(c) \/ Writes(c))
  <2> DEFINE cl == sub[c].client
  <2>1. /\ \A k \in Clients : k # cl => got'[k] = got[k]
        /\ got'[cl] = got[cl] \o <<Head(sub[c].batch)>>
    BY <1>1, <1>6, ReceivedIs
  <2>2. /\ IsRow(Tail(sub[c].batch)) /\ IsRow(<<Head(sub[c].batch)>>)
        /\ sub[c].batch = <<Head(sub[c].batch)>> \o Tail(sub[c].batch)
    BY <1>4, <1>6, RowTail DEF Receives
  <2>3. Line(c) = got'[cl] \o Tail(sub[c].batch) /\ IsRow(got'[cl])
    <3>1. (got[cl] \o <<Head(sub[c].batch)>>) \o Tail(sub[c].batch)
            = got[cl] \o (<<Head(sub[c].batch)>> \o Tail(sub[c].batch))
      <4> DEFINE p == got[cl]
                 q == <<Head(sub[c].batch)>>
                 r == Tail(sub[c].batch)
      <4>1. IsRow(p) /\ IsRow(q) /\ IsRow(r)
        BY <1>4, <2>2
      <4> HIDE DEF p, q, r
      <4>2. (p \o q) \o r = p \o (q \o r)
        BY <4>1, Regroup
      <4> QED BY <4>2 DEF p, q, r
    <3>2. IsRow(got[cl] \o <<Head(sub[c].batch)>>)
      BY <1>4, <2>2, RowConcat
    <3> QED BY <2>1, <2>2, <3>1, <3>2 DEF Line
  <2>4. Calm(Line(c)) /\ sub[c].live
    BY <1>6 DEF Receives, CalmInv
  <2>5. Calm(got'[cl])
    BY <2>2, <2>3, <2>4, CalmPrefix
  <2>6. \A k \in Clients : Calm(got'[k])
    BY <2>1, <2>5 DEF CalmInv
  <2>7. ASSUME NEW d \in 1..MaxConns, sub'[d].live PROVE Calm(Line(d)')
    <3>1. CASE d # c
      <4>1. sub'[d] = sub[d] /\ sub[d].client # cl
        BY <1>1, <1>3, <2>4, <2>7, <3>1 DEF Streams, OneLive
      <4>2. sub[d].client \in Clients
        BY <1>1 DEF Streams, Reader
      <4>3. Line(d)' = Line(d)
        BY <2>1, <4>1, <4>2 DEF Line
      <4> QED BY <2>7, <4>1, <4>3 DEF CalmInv
    <3>2. CASE d = c
      <4>1. Writes(c)
        BY <1>6, <2>7, <3>2 DEF Idles
      <4>2. Line(c)' = Line(c)
        BY <2>3, <4>1 DEF Writes, Line
      <4> QED BY <2>4, <3>2, <4>2
    <3> QED BY <3>1, <3>2
  <2>8. ASSUME NEW d \in 1..MaxConns, NEW t \in Keys(sub'[d].transient)
        PROVE  Home[sub'[d].client] = Home[t] /\ ~ Finished(t)'
    <3>1. sub'[d].client = sub[d].client /\ t \in Keys(sub[d].transient)
      BY <1>3, <1>6, <2>8 DEF Idles, Writes
    <3> QED BY <1>1, <3>1, FinishedLater DEF CalmInv
  <2> QED BY <1>2, <2>6, <2>7, <2>8 DEF CalmInv
<1> QED BY <1>5, <1>6 DEF Proceeds, Opens, Idles, Drains, Writes

\* Nobody reads anything.
LEMMA RestsCalm ==
  ASSUME JointInv, CalmInv, Older, log' = log, Rests
  PROVE  CalmInv'
<1>1. LogInv /\ Streams
  BY DEF JointInv
<1>2. \A r : Row(r, captured) /\ Calm(r) => Calm(r)'
  BY <1>1, CalmLater
<1>3. \A cl \in Clients : Calm(got[cl])'
  BY <1>1, <1>2 DEF Rests, Streams, CalmInv
<1>4. ASSUME NEW c \in 1..MaxConns, sub'[c].live PROVE Calm(Line(c))'
  <2>1. Line(c)' = Line(c) /\ Calm(Line(c))
    BY <1>4 DEF Rests, Line, CalmInv
  <2>2. Row(Line(c), captured)
    BY <1>1, RowJoin DEF Line, Streams, Reader
  <2> QED BY <1>2, <2>1, <2>2, Zenon
<1>5. ASSUME NEW c \in 1..MaxConns, NEW t \in Keys(sub'[c].transient)
      PROVE  Home[sub'[c].client] = Home[t] /\ ~ Finished(t)'
  BY <1>1, <1>5, FinishedLater DEF Rests, CalmInv
<1> QED BY <1>3, <1>4, <1>5 DEF CalmInv

LEMMA CalmStep ==
  ASSUME JointInv, Once => CalmInv, AdapterNext \/ UNCHANGED adapterVars
  PROVE  Once' => CalmInv'
<1> SUFFICES ASSUME Once' PROVE CalmInv'
  OBVIOUS
<1>1. Effects /\ [Next]_vars /\ Older
  BY JointStep, StepOlder
<1>2. Once /\ CalmInv
  BY <1>1, OnceBefore DEF JointInv, EndInv
<1>3. Reports \/ Connects => task' = task /\ log' = log /\ cut' = cut
  BY DEF Reports, Connects, vars, turnVars, Start
<1> QED BY <1>1, <1>2, <1>3, TakesCalm, TellsCalm, MovesCalm, RestsCalm DEF Effects

LEMMA CalmInit == ASSUME AdapterInit PROVE CalmInv
<1>1. /\ got = [cl \in Clients |-> << >>] /\ \A c \in 1..MaxConns : sub[c] = S!Unused
  BY ConnectionIs DEF AdapterInit, S!Init
<1>2. Streams
  BY StreamsInit
<1>3. \A cl \in Clients : Calm(got[cl])
  <2>1. 1..Len(<< >>) = {}
    OBVIOUS
  <2> QED BY <1>1, <2>1 DEF Calm
<1> DEFINE x == S!Unused
           some == CHOOSE cl \in Clients : TRUE
           empty == S!Empty(Known, 0)
<1>4. x = [client |-> some, live |-> FALSE, pc |-> "unused", pending |-> << >>,
           bytes |-> 0, transient |-> empty, dropped |-> FALSE, wakeup |-> FALSE, batch |-> << >>]
  BY UnusedIs
<1>5. Keys(empty) = {}
  BY NoProgress
<1> HIDE DEF x, some, empty
<1>6. ~ x.live /\ Keys(x.transient) = {}
  BY <1>4, <1>5
<1> QED BY <1>1, <1>3, <1>6 DEF CalmInv, x

LEMMA CalmIsQuiet == JointInv /\ CalmInv => NotBusyAfterEnd
<1> SUFFICES ASSUME JointInv, CalmInv, NEW cl \in Clients,
                    NEW i \in DOMAIN got[cl], NEW j \in DOMAIN got[cl],
                    i < j, got[cl][i].durable, ~ got[cl][j].durable,
                    NEW h \in Accepted \ cut, EndOf(got[cl][i].stamp, h)
             PROVE  got[cl][j].task # task[h]
  BY DEF NotBusyAfterEnd, Accepted
<1>1. DOMAIN got[cl] = 1..Len(got[cl]) /\ Calm(got[cl])
  BY RowLength DEF JointInv, Streams, Row, CalmInv
<1> QED BY <1>1 DEF Calm

\* A turn that ended by itself is not shown busy after its end, over whichever
\* connections its client reads the two, as long as no task had two turns.
THEOREM EndedTurnsAreQuiet ==
  AdapterSpec => [](Once => NotBusyAfterEnd)
<1> DEFINE Inv == JointInv /\ (Once => CalmInv)
<1>1. AdapterInit => Inv
  BY JointInit, CalmInit
<1>2. Inv /\ [AdapterNext]_adapterVars => Inv'
  BY JointStep, CalmStep
<1>3. Inv => (Once => NotBusyAfterEnd)
  BY CalmIsQuiet
<1> QED BY <1>1, <1>2, <1>3, PTL DEF AdapterSpec
-----------------------------------------------------------------------------
(* The streams of the composition are those of ReplyStreams.               *)

\* The composition gives the streams constants that they can work with.
LEMMA StreamConstants ==
  /\ IsFiniteSet(Sessions) /\ IsFiniteSet(Clients) /\ IsFiniteSet(Known) /\ Clients # {}
  /\ Home \in [Clients \cup Known -> Sessions]
  /\ {2 * MaxHandles + MaxSends, MaxHandles + MaxTyping, MaxConns, 0} \subseteq Nat
<1>1. Home \in [Clients \cup Known -> Sessions]
  BY ConstantsAre DEF Home, Known
<1>2. {2 * MaxHandles + MaxSends, MaxHandles + MaxTyping, MaxConns, 0} \subseteq Nat
  BY ConstantsAssumption, AdapterAssumption
<1> QED BY <1>1, <1>2, ConstantsAre, AdapterAssumption

LEMMA StreamsStep ==
  ASSUME JointInv, AdapterNext \/ UNCHANGED adapterVars
  PROVE  [S!Next]_S!vars
<1>1. EndInv /\ TypeOK
  BY DEF JointInv, EndInv
<1>2. UNCHANGED streamVars => UNCHANGED S!vars
  BY DEF streamVars, S!vars, S!storeVars
<1>3. CASE Handed
  <2>1. ASSUME NEW h \in Accepted, NEW kind \in Wire, NEW size \in Sizes, CapturesOne(h, kind, size)
        PROVE  S!Next
    <3>1. S!Capture(TaskId(h, kind), size) /\ TaskId(h, kind) \in Tasks \cup Sessions
      BY <1>1, <2>1, TaskIdIs DEF CapturesOne, Known
    <3> QED BY <3>1 DEF S!Next
  <2> QED BY <1>1, <1>2, <1>3, <2>1, HandedIs
<1>4. CASE Reports
  <2>1. PICK h \in Accepted : S!Publish(task[h])
    BY <1>4 DEF Reports
  <2>2. task[h] \in Tasks \cup Sessions
    BY <1>1, TaskIdIs DEF Known
  <2> QED BY <2>1, <2>2 DEF S!Next
<1>5. CASE Connects
  BY <1>2, <1>5 DEF Connects, S!Next
<1> QED BY <1>1, <1>3, <1>4, <1>5, StepsOfTurns

\* Every behaviour of the composition is one of the reply streams: turns only
\* ever capture and report for sessions and tasks the streams can serve.
THEOREM StreamsAreStreams == AdapterSpec => S!Spec
<1>1. AdapterInit => S!Init /\ JointInv
  BY JointInit DEF AdapterInit
<1>2. JointInv /\ [AdapterNext]_adapterVars => JointInv'
  BY JointStep
<1>3. JointInv /\ [AdapterNext]_adapterVars => [S!Next]_S!vars
  BY StreamsStep
<1> QED BY <1>1, <1>2, <1>3, PTL DEF AdapterSpec, S!Spec
=============================================================================
