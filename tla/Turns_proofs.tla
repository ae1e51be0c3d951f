---------------------------- MODULE Turns_proofs ----------------------------
(***************************************************************************)
(* Theorems about Turns, for every number of tasks, chats, handles, sends  *)
(* and reconnects: types and locks, how a turn ends, which one an          *)
(* interrupt ends, how often a task runs, and what the tables know of its  *)
(* turn.                                                                   *)
(***************************************************************************)
EXTENDS Turns, OrderedDict_proofs, SequenceTheorems

USE ConstantsAssumption

Accepted == DOMAIN task
Slots == {None} \cup Accepted

-----------------------------------------------------------------------------
(* Type correctness.                                                       *)

LEMMA AcceptedHandles ==
  ASSUME TypeOK
  PROVE  /\ Len(task) \in Nat
         /\ Accepted = 1..Len(task)
         /\ \A h \in Accepted : pc[h] # "free"
         /\ Accepted \subseteq Handles
         /\ \A h \in Accepted : task[h] \in Tasks /\ Chat(h) \in Chats /\ h \in Nat /\ h # None
<1>1. Len(task) \in Nat /\ Accepted = 1..Len(task)
  BY LenProperties DEF TypeOK, Accepted
<1>2. ASSUME NEW h \in Accepted
      PROVE  h \in Handles /\ pc[h] # "free" /\ task[h] \in Tasks /\ Chat(h) \in Chats
  BY <1>1, ElementOfSeq DEF TypeOK, Handles, Chat
<1> QED BY <1>1, <1>2 DEF None

\* The helpers that choose a handle choose an accepted one, or none.
LEMMA PeekType ==
  ASSUME TypeOK, NEW c \in Chats
  PROVE  /\ Peek(c) \in Slots
         /\ Peek(c) # None => /\ Peek(c) \in QueueOf(c)
                              /\ \A g \in QueueOf(c) : Peek(c) <= g
<1>1. CASE QueueOf(c) = {}
  BY <1>1 DEF Peek, Slots
<1>2. CASE QueueOf(c) # {}
  <2>1. QueueOf(c) \in SUBSET Nat /\ QueueOf(c) \subseteq Accepted
    BY AcceptedHandles DEF QueueOf, TypeOK, Accepted
  <2>2. \E h \in QueueOf(c) : \A g \in QueueOf(c) : h <= g
    BY <1>2, <2>1, LeastNatural
  <2>3. Oldest(QueueOf(c)) \in QueueOf(c) /\ \A g \in QueueOf(c) : Oldest(QueueOf(c)) <= g
    BY <2>2 DEF Oldest
  <2> QED BY <1>2, <2>1, <2>3 DEF Peek, Slots
<1> QED BY <1>1, <1>2

LEMMA ResolveType ==
  ASSUME TypeOK
  PROVE  /\ \A t \in Tasks : ByTask(t) \in Slots
         /\ \A c \in Chats : ByChat(c) \in Slots
<1>1. \A t \in Tasks : callbacks.val[t] \in Slots /\ closed.val[t] \in Slots
  BY DEF TypeOK, Dict, Slots, Accepted
<1>2. ASSUME NEW c \in Chats, ClosedIn(c) # {}
      PROVE  closed.val[Newest(closed, ClosedIn(c))] \in Slots
  <2>1. ClosedIn(c) \in SUBSET Tasks
    BY DEF ClosedIn, Keys, TypeOK, Dict
  <2>2. Newest(closed, ClosedIn(c)) \in Tasks
    BY <1>2, <2>1, NewestExists DEF TypeOK
  <2> QED BY <1>1, <2>2
<1>3. \A c \in Chats : active[c] \in Slots
  BY DEF TypeOK, Slots, Accepted
<1>4. \A t \in Tasks : ByTask(t) \in Slots
  BY <1>1 DEF ByTask
<1>5. \A c \in Chats : ByChat(c) \in Slots
  BY <1>2, <1>3, PeekType DEF ByChat, Slots
<1> QED BY <1>4, <1>5

LEMMA PutIdemType ==
  ASSUME TypeOK, NEW t \in Tasks, NEW result \in Results
  PROVE  PutIdem(t, result) \in Dict(Tasks, Results \cup {NoResult})
BY PutType, TrimType DEF PutIdem, TypeOK

\* What a client of the stream may read for each payload a turn sends.
LEMMA WireKinds ==
  /\ OnWire("message") = {"message", "lost_message"}
  /\ OnWire("notice") = {"notice", "lost_notice"}
  /\ OnWire("chunk") = {"chunk", "lost_chunk"}
  /\ OnWire("new") = {"new", "lost_new"}
  /\ \A kind \in Terminals : OnWire(kind) = {kind}
  /\ Wire = {"completed", "silent", "errored", "message", "notice", "chunk", "new",
             "lost_message", "lost_notice", "lost_chunk", "lost_new"}
<1>1. DOMAIN TooLarge = {"message", "notice", "chunk", "new"}
  BY DEF TooLarge
<1>2. /\ TooLarge["message"] = "lost_message" /\ TooLarge["notice"] = "lost_notice"
      /\ TooLarge["chunk"] = "lost_chunk" /\ TooLarge["new"] = "lost_new"
  BY DEF TooLarge
<1>3. /\ OnWire("message") = {"message", "lost_message"}
      /\ OnWire("notice") = {"notice", "lost_notice"}
      /\ OnWire("chunk") = {"chunk", "lost_chunk"}
      /\ OnWire("new") = {"new", "lost_new"}
  BY <1>1, <1>2 DEF OnWire
<1>4. \A kind \in Terminals : OnWire(kind) = {kind}
  BY <1>1 DEF OnWire, Terminals
<1>5. Wire = {"completed", "silent", "errored", "message", "notice", "chunk", "new",
             "lost_message", "lost_notice", "lost_chunk", "lost_new"}
  BY <1>3, <1>4 DEF Wire, Results, Terminals
<1> QED BY <1>3, <1>4, <1>5

\* What is appended to a client's view, and what is put in posts, is typed.
LEMMA GotType ==
  ASSUME TypeOK, NEW h \in Accepted, NEW kind \in Wire
  PROVE  Got(h, kind) \in [Handles -> Seq(Wire)]
<1>1. h \in Handles /\ out[h] \in Seq(Wire)
  BY AcceptedHandles DEF TypeOK
<1>2. Append(out[h], kind) \in Seq(Wire)
  BY <1>1, AppendProperties
<1> QED BY <1>1, <1>2 DEF Got, TypeOK

LEMMA StreamedType ==
  ASSUME TypeOK, NEW h \in Accepted, NEW kind \in Results \cup PostKinds("send"),
         Streamed(h, kind)
  PROVE  out' \in [Handles -> Seq(Wire)]
<1>1. OnWire(kind) \subseteq Wire
  <2>1. kind \in Terminals \cup {"message", "notice", "chunk", "new"}
    BY DEF Results, PostKinds
  <2>2. \A k \in Terminals : k \in Wire
    BY WireKinds DEF Terminals
  <2> QED BY <2>1, <2>2, WireKinds
<1>2. PICK shown \in OnWire(kind) : out' = Got(h, shown)
  BY DEF Streamed
<1>3. Got(h, shown) \in [Handles -> Seq(Wire)]
  BY <1>1, GotType
<1> QED BY <1>2, <1>3

LEMMA PostType ==
  ASSUME TypeOK, NEW h \in Accepted, NEW by \in Posters, NEW kind \in Wire,
         kind \in PostKinds(by)
  PROVE  Post(h, kind, by) \in Posts
BY DEF Post, Posts, TypeOK, Accepted

\* The parts of a step: releasing a task and leaving the dispatch keep the
\* types of what they change.
LEMMA ReleaseType ==
  ASSUME TypeOK, NEW h \in Accepted, Release(h)
  PROVE  /\ terminated' \subseteq Accepted
         /\ queue' \subseteq Accepted
         /\ callbacks' \in Dict(Tasks, Slots)
         /\ closed' \in Dict(Tasks, Slots)
         /\ pending' \subseteq Tasks
         /\ flushed' \subseteq Tasks
<1>1. task[h] \in Tasks /\ h \in Slots /\ None \in Slots
  BY AcceptedHandles DEF Slots
<1>2. callbacks \in Dict(Tasks, Slots) /\ closed \in Dict(Tasks, Slots)
  BY DEF TypeOK, Slots, Accepted
<1>3. callbacks' \in Dict(Tasks, Slots)
  BY <1>1, <1>2, DropType DEF Release
<1>4. closed' \in Dict(Tasks, Slots)
  <2>1. Put(closed, task[h], h) \in Dict(Tasks, Slots)
    BY <1>1, <1>2, PutType
  <2> QED BY <1>1, <2>1, TrimType DEF Release
<1> QED BY <1>3, <1>4 DEF Release, Forget, TypeOK, Accepted

LEMMA LeaveType ==
  ASSUME TypeOK, NEW h \in Accepted, Leave(h)
  PROVE  /\ pc' \in [Handles -> PCs]
         /\ \A g \in Handles : pc'[g] = "free" <=> pc[g] = "free"
         /\ active' \in [Chats -> Slots]
         /\ inflight' \subseteq Tasks
BY AcceptedHandles DEF Leave, TypeOK, PCs, Slots, Accepted

\* The state a dispatch leaves in either of the two ways it has.
LEMMA FinallyType ==
  ASSUME TypeOK, NEW h \in Accepted, Finally(h),
         UNCHANGED <<turnVars, connVars, prelude, sends>>
  PROVE  TypeOK'
<1>1. task[h] \in Tasks
  BY AcceptedHandles
<1>2. PutIdem(task[h], "silent") \in Dict(Tasks, Results \cup {NoResult})
  BY <1>1, PutIdemType DEF Results, Terminals
<1>3. /\ pc' \in [Handles -> PCs]
      /\ \A g \in Handles : pc'[g] = "free" <=> pc[g] = "free"
      /\ active' \in [Chats -> Slots]
      /\ inflight' \subseteq Tasks
  BY LeaveType DEF Finally
<1> QED BY <1>2, <1>3 DEF TypeOK, Finally, turnVars, Posts, connVars, Slots, Accepted

LEMMA EndTurnType ==
  ASSUME TypeOK, NEW h \in Accepted, NEW status \in Terminals, EndTurn(h, status),
         UNCHANGED <<turnVars, connVars, prelude, sends>>
  PROVE  TypeOK'
<1>1. task[h] \in Tasks /\ h \in Handles
  BY AcceptedHandles
<1>2. Release(h)
  BY DEF EndTurn
<1>3. /\ terminated' \subseteq Accepted
      /\ queue' \subseteq Accepted
      /\ callbacks' \in Dict(Tasks, Slots)
      /\ closed' \in Dict(Tasks, Slots)
      /\ pending' \subseteq Tasks
      /\ flushed' \subseteq Tasks
  BY <1>2, ReleaseType
<1>4. status \in Wire /\ status \in Results
  BY WireKinds DEF Results, Terminals
<1>5. CASE OnStream(h)
  <2>1. /\ pc' \in [Handles -> PCs]
        /\ \A g \in Handles : pc'[g] = "free" <=> pc[g] = "free"
        /\ active' \in [Chats -> Slots]
        /\ inflight' \subseteq Tasks
    BY <1>5, LeaveType DEF EndTurn
  <2>2. out' \in [Handles -> Seq(Wire)]
    BY <1>4, <1>5, StreamedType DEF EndTurn
  <2>3. idem' \in Dict(Tasks, Results \cup {NoResult})
    BY <1>1, <1>4, <1>5, PutIdemType DEF EndTurn
  <2> QED BY <1>3, <1>5, <2>1, <2>2, <2>3
          DEF TypeOK, EndTurn, turnVars, Posts, connVars, Slots, Accepted
<1>6. CASE ~ OnStream(h)
  <2>1. Post(h, status, "ending") \in Posts
    BY <1>4, PostType DEF Posters, PostKinds
  <2>2. /\ pc' \in [Handles -> PCs]
        /\ \A g \in Handles : pc'[g] = "free" <=> pc[g] = "free"
    BY <1>1, <1>6, AcceptedHandles DEF EndTurn, TypeOK, PCs
  <2>3. posts' \subseteq Posts
    BY <1>6, <2>1 DEF EndTurn, TypeOK, Posts, Accepted
  <2> QED BY <1>3, <1>6, <2>2, <2>3
          DEF TypeOK, EndTurn, turnVars, connVars, Slots, Accepted, Posts
<1> QED BY <1>5, <1>6

LEMMA TerminateFromType ==
  ASSUME TypeOK, NEW h \in Accepted, NEW by \in {"interrupt", "disconnect"}, TerminateFrom(h, by)
  PROVE  /\ terminated' \subseteq Accepted
         /\ queue' \subseteq Accepted
         /\ callbacks' \in Dict(Tasks, Slots)
         /\ closed' \in Dict(Tasks, Slots)
         /\ pending' \subseteq Tasks
         /\ flushed' \subseteq Tasks
         /\ out' \in [Handles -> Seq(Wire)]
         /\ idem' \in Dict(Tasks, Results \cup {NoResult})
         /\ inflight' \subseteq Tasks
         /\ posts' \subseteq Posts
<1>1. task[h] \in Tasks
  BY AcceptedHandles
<1>2. Release(h)
  BY DEF TerminateFrom
<1>3. "silent" \in Wire /\ "silent" \in Results
  BY WireKinds DEF Results, Terminals
<1>4. Streamed(h, "silent") => out' \in [Handles -> Seq(Wire)]
  BY <1>3, StreamedType
<1>5. PutIdem(task[h], "silent") \in Dict(Tasks, Results \cup {NoResult})
  BY <1>1, <1>3, PutIdemType
<1>6. Post(h, "silent", by) \in Posts
  BY <1>3, PostType DEF Posters, PostKinds, Terminals
<1>7. /\ out' \in [Handles -> Seq(Wire)]
      /\ idem' \in Dict(Tasks, Results \cup {NoResult})
      /\ inflight' \subseteq Tasks
      /\ posts' \subseteq Posts
  BY <1>4, <1>5, <1>6 DEF TerminateFrom, TypeOK, Posts, Accepted
<1> QED BY <1>2, <1>7, ReleaseType

\* A delivery to an accepted handle, and with it every send.
LEMMA DeliverType ==
  ASSUME TypeOK, NEW h \in Accepted, NEW kind \in PostKinds("send"), Deliver(h, kind)
  PROVE  /\ out' \in [Handles -> Seq(Wire)]
         /\ posts' \subseteq Posts
         /\ delivered' \subseteq Accepted
         /\ idem' \in Dict(Tasks, Results \cup {NoResult})
         /\ pending' \subseteq Tasks
<1>1. Streamed(h, kind) => out' \in [Handles -> Seq(Wire)]
  BY StreamedType
<1>2. PutIdem(task[h], "message") \in Dict(Tasks, Results \cup {NoResult})
  BY AcceptedHandles, PutIdemType DEF Results
<1>3. Post(h, kind, "send") \in Posts
  BY PostType, WireKinds DEF Posters, PostKinds
<1> QED BY <1>1, <1>2, <1>3 DEF Deliver, TypeOK, Posts, Accepted

LEMMA SendToType ==
  ASSUME TypeOK, NEW h \in Slots, NEW kind \in SendKinds, SendTo(h, kind)
  PROVE  TypeOK'
<1>1. kind \in PostKinds("send")
  BY DEF PostKinds
<1>2. WireKind(h, kind) \in PostKinds("send")
  BY <1>1 DEF WireKind, PostKinds
<1>3. CASE h = None \/ (kind = "notice" /\ Over(h))
  BY <1>3 DEF SendTo, TypeOK, turnVars, Posts, connVars
<1>4. CASE ~ (h = None \/ (kind = "notice" /\ Over(h)))
  <2>1. h \in Accepted /\ task[h] \in Tasks
    BY <1>4, AcceptedHandles DEF Slots
  <2>2. /\ out' \in [Handles -> Seq(Wire)]
        /\ posts' \subseteq Posts
        /\ delivered' \subseteq Accepted
        /\ idem' \in Dict(Tasks, Results \cup {NoResult})
        /\ pending' \subseteq Tasks
    <3>1. CASE Buffers(h, kind)
      BY <1>4, <2>1, <3>1 DEF SendTo, TypeOK, Posts, Accepted
    <3>2. CASE ~ Buffers(h, kind)
      BY <1>2, <1>4, <2>1, <3>2, DeliverType DEF SendTo
    <3> QED BY <3>1, <3>2
  <2> QED BY <2>2 DEF SendTo, TypeOK, turnVars, connVars, Posts, Accepted
<1> QED BY <1>3, <1>4

LEMMA AcceptType ==
  ASSUME TypeOK, NEW t \in Tasks, Accept(t)
  PROVE  TypeOK'
<1> DEFINE h == Len(task) + 1
           registered == Assign(callbacks, t, h)
           gone == Evicted(registered)
<1>1. /\ h \in Handles /\ h \in Nat
      /\ task' = Append(task, t)
      /\ callbacks' = Drop(registered, gone, None)
  BY LenProperties DEF Accept, Handles, TypeOK
<1>2. /\ task' \in Seq(Tasks)
      /\ Len(task') = h
      /\ Accepted' = Accepted \cup {h}
  BY <1>1, AcceptedHandles, AppendProperties, LenProperties DEF TypeOK, Accepted
<1>3. callbacks \in Dict(Tasks, Slots') /\ closed \in Dict(Tasks, Slots')
  BY <1>2 DEF TypeOK, Dict, Slots, Accepted
<1>4. callbacks' \in Dict(Tasks, Slots')
  <2>1. h \in Slots' /\ None \in Slots'
    BY <1>2 DEF Slots
  <2>2. registered \in Dict(Tasks, Slots')
    BY <1>3, <2>1, AssignType
  <2> QED BY <1>1, <2>1, <2>2, DropType
<1>5. /\ pc' \in [Handles -> PCs]
      /\ \A g \in Handles : pc'[g] = "free" <=> g > Len(task')
  <2>1. pc' = [pc EXCEPT ![h] = "queued"] /\ pc \in [Handles -> PCs]
    BY DEF Accept, TypeOK
  <2>2. \A g \in Handles : pc[g] = "free" <=> g > Len(task)
    BY DEF TypeOK
  <2>3. Len(task) \in Nat /\ \A g \in Handles : g \in Nat
    BY AcceptedHandles DEF Handles
  <2>4. \A g \in Handles : pc'[g] = IF g = h THEN "queued" ELSE pc[g]
    BY <1>1, <2>1
  <2> HIDE DEF h
  <2>5. h = Len(task) + 1
    BY DEF h
  <2> QED BY <1>1, <1>2, <2>1, <2>2, <2>3, <2>4, <2>5 DEF PCs
<1>6. /\ queue' \subseteq Accepted'
      /\ terminated' \subseteq Accepted'
      /\ delivered' \subseteq Accepted'
      /\ active' \in [Chats -> Slots']
  BY <1>2 DEF Accept, TypeOK, Accepted, Slots
<1>7. /\ lockGen' \in [Handles -> Nat]
      /\ pending' \subseteq Tasks
      /\ flushed' \subseteq Tasks
      /\ inflight' \subseteq Tasks
      /\ gen' \in Nat
      /\ phase' \in {"up", "draining", "closing", "down"}
      /\ draining' \subseteq Tasks
      /\ idem' \in Dict(Tasks, Results \cup {NoResult})
      /\ prelude' \subseteq Sessions
      /\ out' \in [Handles -> Seq(Wire)]
      /\ sends' \in Nat
  BY <1>1 DEF Accept, TypeOK, connVars
<1>8. posts' \subseteq Posts'
  BY <1>2 DEF Accept, TypeOK, Posts, Accepted
<1>9. Len(task') <= MaxHandles
  BY <1>1, <1>2 DEF Handles
<1>10. closed' \in Dict(Tasks, Slots')
  BY <1>3 DEF Accept
<1> QED BY <1>2, <1>4, <1>5, <1>6, <1>7, <1>8, <1>9, <1>10
        DEF TypeOK, Slots, Accepted, Posts

LEMMA AgentReturnsType ==
  ASSUME TypeOK, NEW h \in Accepted, AgentReturns(h)
  PROVE  TypeOK'
<1>1. h \in Handles /\ task[h] \in Tasks /\ pc[h] # "free"
  BY AcceptedHandles
<1>2. CASE ~ Reasoning(h)
  BY <1>1, <1>2, AcceptedHandles
     DEF AgentReturns, TypeOK, PCs, turnVars, Posts, routeVars, connVars
<1>3. CASE Reasoning(h) /\ Over(h)
  BY <1>3, FinallyType DEF AgentReturns
<1>4. CASE Reasoning(h) /\ ~ Over(h) /\ task[h] \in pending /\ ~ OnStream(h)
  <2>1. Post(h, "message", "flush") \in Posts
    BY PostType, WireKinds DEF Posters, PostKinds
  <2>2. /\ pc' \in [Handles -> PCs]
        /\ \A g \in Handles : pc'[g] = "free" <=> pc[g] = "free"
    BY <1>1, <1>4 DEF AgentReturns, TypeOK, PCs
  <2>3. posts' \subseteq Posts
    BY <1>4, <2>1 DEF AgentReturns, TypeOK, Posts, Accepted
  <2> QED BY <1>1, <1>4, <2>2, <2>3
          DEF AgentReturns, TypeOK, turnVars, connVars, Posts, Accepted
<1>5. CASE Reasoning(h) /\ ~ Over(h) /\ ~ (task[h] \in pending /\ ~ OnStream(h))
  <2>1. Leave(h)
    BY <1>5 DEF AgentReturns
  <2>2. /\ pc' \in [Handles -> PCs]
        /\ \A g \in Handles : pc'[g] = "free" <=> pc[g] = "free"
        /\ active' \in [Chats -> Slots]
        /\ inflight' \subseteq Tasks
    BY <2>1, LeaveType
  <2>3. Streamed(h, "message") => out' \in [Handles -> Seq(Wire)]
    BY StreamedType DEF Results
  <2>4. \A r \in {"silent", "message"} :
          PutIdem(task[h], r) \in Dict(Tasks, Results \cup {NoResult})
    BY <1>1, PutIdemType DEF Results, Terminals
  <2>5. /\ out' \in [Handles -> Seq(Wire)]
        /\ idem' \in Dict(Tasks, Results \cup {NoResult})
        /\ delivered' \subseteq Accepted
    BY <1>5, <2>3, <2>4 DEF AgentReturns, TypeOK, Accepted
  <2> QED BY <1>1, <1>5, <2>2, <2>5
          DEF AgentReturns, TypeOK, turnVars, Posts, connVars, Slots, Accepted
<1> QED BY <1>2, <1>3, <1>4, <1>5

LEMMA PostReturnsType ==
  ASSUME TypeOK, NEW p \in posts, PostReturns(p)
  PROVE  TypeOK'
<1> DEFINE h == p.handle
<1>1. PICK ok \in {p.got, FALSE} :
         \/ SendReturns(p, ok) \/ FlushReturns(p, ok)
         \/ EndingReturns(p, ok) \/ TerminateReturns(p, ok)
  BY DEF PostReturns
<1>2. p \in Posts /\ h \in Accepted
  BY DEF TypeOK, Posts, Accepted
<1>3. h \in Handles /\ task[h] \in Tasks /\ pc[h] # "free"
  BY <1>2, AcceptedHandles
<1>4. PutIdem(task[h], "message") \in Dict(Tasks, Results \cup {NoResult})
  BY <1>3, PutIdemType DEF Results
<1>5. ASSUME Leave(h)
      PROVE  /\ pc' \in [Handles -> PCs]
             /\ \A g \in Handles : pc'[g] = "free" <=> pc[g] = "free"
             /\ active' \in [Chats -> Slots]
             /\ inflight' \subseteq Tasks
  BY <1>2, <1>5, LeaveType
<1> HIDE DEF h
<1>6. CASE SendReturns(p, ok)
  BY <1>2, <1>4, <1>6
     DEF SendReturns, TypeOK, turnVars, Posts, routeVars, connVars, Accepted, h
<1>7. CASE FlushReturns(p, ok)
  <2>1. CASE ok \/ Over(h)
    BY <1>2, <1>4, <1>5, <1>7, <2>1
       DEF FlushReturns, TypeOK, turnVars, Posts, connVars, Accepted, Slots, h
  <2>2. CASE ~ ok /\ ~ Over(h)
    <3>1. Release(h)
      BY <1>7, <2>2 DEF FlushReturns, h
    <3>2. /\ terminated' \subseteq Accepted
          /\ queue' \subseteq Accepted
          /\ callbacks' \in Dict(Tasks, Slots)
          /\ closed' \in Dict(Tasks, Slots)
          /\ pending' \subseteq Tasks
          /\ flushed' \subseteq Tasks
      BY <1>2, <3>1, ReleaseType
    <3>3. Post(h, "errored", "ending") \in Posts
      BY <1>2, PostType, WireKinds DEF Terminals, Posters, PostKinds
    <3>4. /\ pc' \in [Handles -> PCs]
          /\ \A g \in Handles : pc'[g] = "free" <=> pc[g] = "free"
      BY <1>3, <1>7, <2>2 DEF FlushReturns, TypeOK, PCs, h
    <3>5. posts' \subseteq Posts
      BY <1>7, <2>2, <3>3 DEF FlushReturns, TypeOK, Posts, Accepted, h
    <3> QED BY <1>7, <2>2, <3>2, <3>4, <3>5
            DEF FlushReturns, TypeOK, turnVars, connVars, Accepted, Slots, Posts, Posters, h
  <2> QED BY <2>1, <2>2
<1>8. CASE EndingReturns(p, ok) \/ TerminateReturns(p, ok)
  <2>1. p.kind \in Results
    BY <1>2, <1>8 DEF EndingReturns, TerminateReturns, Posts, PostKinds, Results
  <2>2. PutIdem(task[h], p.kind) \in Dict(Tasks, Results \cup {NoResult})
    BY <1>3, <2>1, PutIdemType
  <2>3. CASE EndingReturns(p, ok)
    BY <1>2, <1>5, <2>2, <2>3
       DEF EndingReturns, TypeOK, turnVars, Posts, connVars, Accepted, Slots, h
  <2>4. CASE TerminateReturns(p, ok)
    BY <1>2, <2>2, <2>4
       DEF TerminateReturns, TypeOK, turnVars, Posts, routeVars, connVars, Accepted, h
  <2> QED BY <1>8, <2>3, <2>4
<1> QED BY <1>1, <1>6, <1>7, <1>8

LEMMA DisconnectType ==
  ASSUME TypeOK,
         BeginDisconnect \/ StopListening \/ ClearTables \/ Connect
           \/ \E t \in Tasks : DrainTask(t)
  PROVE  TypeOK'
<1>1. CASE BeginDisconnect
  BY <1>1 DEF BeginDisconnect, TypeOK, turnVars, routeVars, Posts
<1>2. CASE StopListening
  BY <1>2 DEF StopListening, TypeOK, turnVars, routeVars, Posts
<1>3. CASE ClearTables
  <2>1. None \in Slots
    BY DEF Slots
  <2>2. callbacks' \in Dict(Tasks, Slots)
    BY <1>3, <2>1, EmptyType DEF ClearTables
  <2> QED BY <1>3, <2>2 DEF ClearTables, TypeOK, turnVars, Posts, Slots, Accepted, None
<1>4. CASE Connect
  BY <1>4 DEF Connect, TypeOK, turnVars, routeVars, Posts
<1>5. ASSUME NEW t \in Tasks, DrainTask(t)
      PROVE  TypeOK'
  <2> DEFINE h == callbacks.val[t]
  <2>1. h \in Slots
    BY DEF TypeOK, Dict, Slots, Accepted
  <2>2. CASE h = None \/ h \in terminated \cup delivered
    BY <1>5, <2>2 DEF DrainTask, TypeOK, turnVars, routeVars, Posts
  <2>3. CASE ~ (h = None \/ h \in terminated \cup delivered)
    <3>1. h \in Accepted /\ TerminateFrom(h, "disconnect")
      BY <1>5, <2>1, <2>3 DEF DrainTask, Slots
    <3>2. /\ terminated' \subseteq Accepted
          /\ queue' \subseteq Accepted
          /\ callbacks' \in Dict(Tasks, Slots)
          /\ closed' \in Dict(Tasks, Slots)
          /\ pending' \subseteq Tasks
          /\ flushed' \subseteq Tasks
          /\ out' \in [Handles -> Seq(Wire)]
          /\ idem' \in Dict(Tasks, Results \cup {NoResult})
          /\ inflight' \subseteq Tasks
          /\ posts' \subseteq Posts
      BY <3>1, TerminateFromType
    <3>3. UNCHANGED <<turnVars, phase, gen, prelude, sends, pc, delivered, active>>
          /\ draining' \subseteq Tasks
      BY <1>5, <3>1 DEF DrainTask, TerminateFrom, TypeOK
    <3> QED BY <3>2, <3>3 DEF TypeOK, turnVars, Posts, Slots, Accepted
  <2> QED BY <2>2, <2>3
<1> QED BY <1>1, <1>2, <1>3, <1>4, <1>5

LEMMA InterruptType ==
  ASSUME TypeOK, NEW c \in Chats, Interrupt(c)
  PROVE  TypeOK'
<1> DEFINE h == Peek(c)
<1>1. h \in Accepted /\ TerminateFrom(h, "interrupt")
  BY PeekType DEF Interrupt, Slots
<1>2. /\ terminated' \subseteq Accepted
      /\ queue' \subseteq Accepted
      /\ callbacks' \in Dict(Tasks, Slots)
      /\ closed' \in Dict(Tasks, Slots)
      /\ pending' \subseteq Tasks
      /\ flushed' \subseteq Tasks
      /\ out' \in [Handles -> Seq(Wire)]
      /\ idem' \in Dict(Tasks, Results \cup {NoResult})
      /\ inflight' \subseteq Tasks
      /\ posts' \subseteq Posts
  BY <1>1, TerminateFromType
<1>3. UNCHANGED <<turnVars, connVars, prelude, sends, pc, delivered, active>>
  BY <1>1 DEF Interrupt, TerminateFrom
<1> QED BY <1>2, <1>3 DEF TypeOK, turnVars, connVars, Posts, Slots, Accepted

LEMMA ReceiveType ==
  ASSUME TypeOK, NEW p \in posts, Receive(p)
  PROVE  TypeOK'
<1>1. p \in Posts /\ p.handle \in Accepted /\ p.kind \in Wire
  BY DEF TypeOK, Posts, Accepted
<1>2. out' \in [Handles -> Seq(Wire)]
  BY <1>1, GotType DEF Receive
<1>3. [p EXCEPT !.got = TRUE] \in Posts
  BY <1>1 DEF Posts, PostKinds
<1>4. posts' \subseteq Posts
  BY <1>3 DEF Receive, TypeOK
<1> QED BY <1>2, <1>4 DEF Receive, TypeOK, turnVars, routeVars, connVars, Posts

LEMMA DispatchType ==
  ASSUME TypeOK, NEW h \in Accepted, Dispatch(h)
  PROVE  TypeOK'
<1>1. h \in Handles /\ pc[h] # "free" /\ Chat(h) \in Chats
  BY AcceptedHandles
<1>2. CASE TakeLock(h)
  BY <1>1, <1>2 DEF TakeLock, TypeOK, PCs, turnVars, routeVars, connVars, Posts
<1>3. CASE Start(h)
  <2>1. /\ pc' \in [Handles -> PCs]
        /\ \A g \in Handles : pc'[g] = "free" <=> pc[g] = "free"
    BY <1>1, <1>3 DEF Start, TypeOK, PCs
  <2>2. active' \in [Chats -> Slots] /\ prelude' \subseteq Sessions
    BY <1>1, <1>3 DEF Start, TypeOK, Slots, Accepted, None
  <2> QED BY <1>3, <2>1, <2>2
          DEF Start, TypeOK, turnVars, routeVars, connVars, Posts, Slots, Accepted
<1>4. CASE AgentFails(h)
  BY <1>4, FinallyType, EndTurnType DEF AgentFails, Terminals
<1>5. CASE Settle(h)
  BY <1>5, FinallyType, EndTurnType DEF Settle, Terminals
<1> QED BY <1>2, <1>3, <1>4, <1>5, AgentReturnsType DEF Dispatch

\* Every step of the adapter keeps the types.
LEMMA TypeStep ==
  ASSUME TypeOK, [Next]_vars
  PROVE  TypeOK'
<1>1. ASSUME NEW t \in Tasks, Accept(t) \/ Duplicate(t) \/ DrainTask(t)
      PROVE  TypeOK'
  <2>1. CASE Duplicate(t)
    BY <2>1, PromoteType DEF Duplicate, TypeOK, turnVars, routeVars, connVars, Posts
  <2> QED BY <1>1, <2>1, AcceptType, DisconnectType
<1>2. ASSUME NEW s \in PreludeSessions, StashPrelude(s)
      PROVE  TypeOK'
  <2>1. prelude' \subseteq Sessions
    BY <1>2, AcceptedHandles DEF StashPrelude, TypeOK
  <2> QED BY <1>2, <2>1 DEF StashPrelude, TypeOK, turnVars, routeVars, connVars, Posts
<1>3. ASSUME NEW h \in Accepted, Dispatch(h)
      PROVE  TypeOK'
  BY <1>3, DispatchType
<1>4. ASSUME NEW h \in Accepted, NEW kind \in SendKinds, AgentSend(h, kind)
      PROVE  TypeOK'
  BY <1>4, AcceptedHandles, ResolveType, SendToType DEF AgentSend
<1>5. ASSUME NEW c \in Chats, NEW kind \in SendKinds, ChatSend(c, kind)
      PROVE  TypeOK'
  BY <1>5, ResolveType, SendToType DEF ChatSend
<1>6. ASSUME NEW p \in posts, Receive(p) \/ PostReturns(p)
      PROVE  TypeOK'
  BY <1>6, ReceiveType, PostReturnsType
<1>7. CASE UNCHANGED vars
  BY <1>7 DEF vars, TypeOK, turnVars, routeVars, connVars, Posts
<1> QED BY <1>1, <1>2, <1>3, <1>4, <1>5, <1>6, <1>7, InterruptType, DisconnectType
        DEF Next, Accepted

LEMMA TypeInit ==
  ASSUME Init
  PROVE  TypeOK
<1>1. None \in {None} \cup DOMAIN task /\ NoResult \in Results \cup {NoResult}
  OBVIOUS
<1>2. /\ callbacks \in Dict(Tasks, {None} \cup DOMAIN task)
      /\ closed \in Dict(Tasks, {None} \cup DOMAIN task)
      /\ idem \in Dict(Tasks, Results \cup {NoResult})
  BY <1>1, EmptyType DEF Init
<1>3. task \in Seq(Tasks) /\ Len(task) = 0
  BY EmptySeq DEF Init
<1>4. \A h \in Handles : << >> \in Seq(Wire) /\ h > 0
  BY EmptySeq DEF Handles
<1> QED BY <1>2, <1>3, <1>4 DEF Init, TypeOK, PCs, Posts, None

\* Every table of the adapter has its type in every reachable state: the
\* route tables only ever name handles that were accepted, and a callback
\* delivery only carries what its sender makes.
THEOREM TypeCorrect == Spec => []TypeOK
<1>1. Init => TypeOK
  BY TypeInit
<1>2. TypeOK /\ [Next]_vars => TypeOK'
  BY TypeStep
<1> QED BY <1>1, <1>2, PTL DEF Spec
-----------------------------------------------------------------------------
(* One dispatch per chat lock.                                             *)

\* The deliveries a dispatch awaits: it is at that await, and there is one.
AwaitedByDispatch ==
  /\ \A p \in posts : /\ p.by = "flush" => pc[p.handle] = "flush"
                      /\ p.by = "ending" => pc[p.handle] = "ending"
  /\ \A p, q \in posts :
       p.by \in {"flush", "ending"} /\ q.by \in {"flush", "ending"}
         /\ p.handle = q.handle => p = q

LockInv == TypeOK /\ AwaitedByDispatch /\ ChatSerialized

\* A dispatch moves from one await to the next, with what it posts in between.
Moved(h, to) == pc' = [pc EXCEPT ![h] = to]

LEMMA FinallyAwaited ==
  ASSUME TypeOK, AwaitedByDispatch, NEW h \in Accepted, pc[h] \in {"agent", "settle"},
         NEW to, Moved(h, to), posts' = posts
  PROVE  AwaitedByDispatch'
<1>1. \A p \in posts : p.handle \in Handles
  BY AcceptedHandles DEF TypeOK, Posts, Accepted
<1> QED BY <1>1 DEF AwaitedByDispatch, Moved, TypeOK

LEMMA PostingAwaited ==
  ASSUME TypeOK, AwaitedByDispatch, NEW h \in Accepted, pc[h] \in {"agent", "settle"},
         NEW by \in {"flush", "ending"}, NEW kind, Moved(h, by),
         posts' = posts \cup {Post(h, kind, by)}
  PROVE  AwaitedByDispatch'
<1> DEFINE new == Post(h, kind, by)
<1>1. \A p \in posts : p.handle \in Handles
  BY AcceptedHandles DEF TypeOK, Posts, Accepted
<1>2. \A p \in posts : p.by \in {"flush", "ending"} => p.handle # h
  BY DEF AwaitedByDispatch
<1>3. new.handle = h /\ new.by = by /\ h \in Handles
  BY AcceptedHandles DEF Post
<1>4. \A p \in posts' : p \in posts \/ p = new
  OBVIOUS
<1>5. pc'[h] = by /\ \A g \in Handles : g # h => pc'[g] = pc[g]
  BY <1>3 DEF Moved, TypeOK
<1>6. ASSUME NEW p \in posts'
      PROVE  /\ p.by = "flush" => pc'[p.handle] = "flush"
             /\ p.by = "ending" => pc'[p.handle] = "ending"
  BY <1>1, <1>2, <1>3, <1>4, <1>5 DEF AwaitedByDispatch
<1>7. ASSUME NEW p \in posts', NEW q \in posts',
             p.by \in {"flush", "ending"}, q.by \in {"flush", "ending"},
             p.handle = q.handle
      PROVE  p = q
  BY <1>2, <1>3, <1>4, <1>7 DEF AwaitedByDispatch
<1> QED BY <1>6, <1>7 DEF AwaitedByDispatch

\* A delivery nobody's dispatch awaits comes or goes, or a payload arrives.
LEMMA OtherAwaited ==
  ASSUME TypeOK, AwaitedByDispatch, UNCHANGED pc,
         \A p \in posts' : \/ p.by \notin {"flush", "ending"}
                           \/ p \in posts
  PROVE  AwaitedByDispatch'
BY DEF AwaitedByDispatch

LEMMA ReceiveAwaited ==
  ASSUME TypeOK, AwaitedByDispatch, NEW p \in posts, Receive(p)
  PROVE  AwaitedByDispatch'
<1> DEFINE got == [p EXCEPT !.got = TRUE]
<1>1. got.handle = p.handle /\ got.by = p.by
  BY DEF TypeOK, Posts
<1>2. \A q \in posts' : (q \in posts /\ q # p) \/ q = got
  BY DEF Receive
<1> HIDE DEF got
<1> QED BY <1>1, <1>2 DEF AwaitedByDispatch, Receive

LEMMA PostReturnsAwaited ==
  ASSUME TypeOK, AwaitedByDispatch, NEW p \in posts, PostReturns(p)
  PROVE  AwaitedByDispatch'
<1> DEFINE h == p.handle
<1>1. PICK ok \in {p.got, FALSE} :
         \/ SendReturns(p, ok) \/ FlushReturns(p, ok)
         \/ EndingReturns(p, ok) \/ TerminateReturns(p, ok)
  BY DEF PostReturns
<1>2. h \in Handles /\ \A q \in posts : q.handle \in Handles
  BY AcceptedHandles DEF TypeOK, Posts, Accepted
<1>3. CASE SendReturns(p, ok) \/ TerminateReturns(p, ok)
  BY <1>3, OtherAwaited DEF SendReturns, TerminateReturns
<1>4. CASE FlushReturns(p, ok) \/ EndingReturns(p, ok)
  <2>1. p.by \in {"flush", "ending"}
    BY <1>4 DEF FlushReturns, EndingReturns
  <2>2. \A q \in posts \ {p} : q.by \in {"flush", "ending"} => q.handle # h
    BY <2>1 DEF AwaitedByDispatch
  <2>3. CASE posts' = posts \ {p} /\ Moved(h, "done")
    BY <1>2, <2>2, <2>3 DEF AwaitedByDispatch, Moved, TypeOK
  <2>4. CASE posts' = (posts \ {p}) \cup {Post(h, "errored", "ending")} /\ Moved(h, "ending")
    <3> DEFINE new == Post(h, "errored", "ending")
    <3>1. new.handle = h /\ new.by = "ending"
      BY DEF Post
    <3>2. \A q \in posts' : q \in posts \ {p} \/ q = new
      BY <2>4
    <3>3. pc'[h] = "ending" /\ \A g \in Handles : g # h => pc'[g] = pc[g]
      BY <1>2, <2>4 DEF Moved, TypeOK
    <3> HIDE DEF new, h
    <3> QED BY <1>2, <2>2, <3>1, <3>2, <3>3 DEF AwaitedByDispatch
  <2> QED BY <1>4, <2>3, <2>4 DEF FlushReturns, EndingReturns, Leave, Moved
<1> QED BY <1>1, <1>3, <1>4

LEMMA EndTurnAwaited ==
  ASSUME TypeOK, AwaitedByDispatch, NEW h \in Accepted, pc[h] \in {"agent", "settle"},
         NEW status, Finally(h) \/ EndTurn(h, status)
  PROVE  AwaitedByDispatch'
<1>1. CASE Finally(h)
  BY <1>1, FinallyAwaited DEF Finally, Leave, Moved
<1>2. CASE EndTurn(h, status) /\ OnStream(h)
  BY <1>2, FinallyAwaited DEF EndTurn, Leave, Moved
<1>3. CASE EndTurn(h, status) /\ ~ OnStream(h)
  BY <1>3, PostingAwaited DEF EndTurn, Moved
<1> QED BY <1>1, <1>2, <1>3

LEMMA DispatchAwaited ==
  ASSUME TypeOK, AwaitedByDispatch, NEW h \in Accepted, Dispatch(h)
  PROVE  AwaitedByDispatch'
<1>1. h \in Handles /\ \A p \in posts : p.handle \in Handles
  BY AcceptedHandles DEF TypeOK, Posts, Accepted
<1>2. CASE TakeLock(h) \/ Start(h)
  <2>1. pc[h] \notin {"flush", "ending"} /\ UNCHANGED posts
        /\ \A g \in Handles : g # h => pc'[g] = pc[g]
    BY <1>1, <1>2 DEF TakeLock, Start, TypeOK
  <2> QED BY <1>1, <2>1 DEF AwaitedByDispatch
<1>3. CASE AgentReturns(h)
  <2>1. CASE ~ Reasoning(h)
    BY <1>3, <2>1, FinallyAwaited DEF AgentReturns, Moved
  <2>2. CASE Reasoning(h) /\ Over(h)
    BY <1>3, <2>2, EndTurnAwaited DEF AgentReturns
  <2>3. CASE Reasoning(h) /\ ~ Over(h) /\ task[h] \in pending /\ ~ OnStream(h)
    BY <1>3, <2>3, PostingAwaited DEF AgentReturns, Moved
  <2>4. CASE Reasoning(h) /\ ~ Over(h) /\ ~ (task[h] \in pending /\ ~ OnStream(h))
    BY <1>3, <2>4, FinallyAwaited DEF AgentReturns, Leave, Moved
  <2> QED BY <2>1, <2>2, <2>3, <2>4
<1>4. CASE AgentFails(h)
  BY <1>4, EndTurnAwaited DEF AgentFails
<1>5. CASE Settle(h)
  BY <1>5, EndTurnAwaited DEF Settle
<1> QED BY <1>2, <1>3, <1>4, <1>5 DEF Dispatch

LEMMA SendAwaited ==
  ASSUME TypeOK, AwaitedByDispatch, NEW h, NEW kind, SendTo(h, kind)
  PROVE  AwaitedByDispatch'
<1>1. \A k : Post(h, k, "send").by = "send"
  BY DEF Post
<1>2. UNCHANGED pc
  BY DEF SendTo
<1>3. \A p \in posts' : p.by \notin {"flush", "ending"} \/ p \in posts
  BY <1>1 DEF SendTo, Deliver
<1> QED BY <1>2, <1>3, OtherAwaited

LEMMA TerminateAwaited ==
  ASSUME TypeOK, AwaitedByDispatch, NEW h, NEW by \in {"interrupt", "disconnect"},
         TerminateFrom(h, by)
  PROVE  AwaitedByDispatch'
<1>1. Post(h, "silent", by).by = by
  BY DEF Post
<1>2. UNCHANGED pc
  BY DEF TerminateFrom
<1>3. \A p \in posts' : p.by \notin {"flush", "ending"} \/ p \in posts
  BY <1>1 DEF TerminateFrom
<1> QED BY <1>2, <1>3, OtherAwaited

LEMMA AwaitedStep ==
  ASSUME TypeOK, AwaitedByDispatch, [Next]_vars
  PROVE  AwaitedByDispatch'
<1>1. ASSUME NEW t \in Tasks, Accept(t)
      PROVE  AwaitedByDispatch'
  <2>1. \A p \in posts : p.handle \in Handles /\ pc[p.handle] # "free"
    BY AcceptedHandles DEF TypeOK, Posts, Accepted
  <2>2. UNCHANGED posts /\ \A g \in Handles : pc[g] # "free" => pc'[g] = pc[g]
    <3>1. pc' = [pc EXCEPT ![Len(task) + 1] = "queued"] /\ UNCHANGED posts
      BY <1>1 DEF Accept
    <3>2. Len(task) + 1 \in Handles => pc[Len(task) + 1] = "free"
      BY AcceptedHandles DEF TypeOK, Handles
    <3> QED BY <3>1, <3>2 DEF TypeOK
  <2> QED BY <2>1, <2>2 DEF AwaitedByDispatch
<1>2. ASSUME NEW t \in Tasks, DrainTask(t)
      PROVE  AwaitedByDispatch'
  BY <1>2, OtherAwaited, TerminateAwaited DEF DrainTask
<1>3. ASSUME NEW h \in Accepted, NEW kind \in SendKinds, AgentSend(h, kind)
      PROVE  AwaitedByDispatch'
  BY <1>3, SendAwaited DEF AgentSend
<1>4. ASSUME NEW c \in Chats, NEW kind \in SendKinds, ChatSend(c, kind)
      PROVE  AwaitedByDispatch'
  BY <1>4, SendAwaited DEF ChatSend
<1>5. ASSUME NEW c \in Chats, Interrupt(c)
      PROVE  AwaitedByDispatch'
  BY <1>5, TerminateAwaited DEF Interrupt
<1>6. CASE UNCHANGED <<pc, posts>>
  BY <1>6, OtherAwaited
<1>7. \/ UNCHANGED <<pc, posts>>
      \/ \E t \in Tasks : Accept(t) \/ DrainTask(t)
      \/ \E h \in Accepted : Dispatch(h) \/ \E kind \in SendKinds : AgentSend(h, kind)
      \/ \E c \in Chats : Interrupt(c) \/ \E kind \in SendKinds : ChatSend(c, kind)
      \/ \E p \in posts : Receive(p) \/ PostReturns(p)
  BY DEF Next, vars, Duplicate, StashPrelude, BeginDisconnect, StopListening,
         ClearTables, Connect, Accepted
<1> QED BY <1>1, <1>2, <1>3, <1>4, <1>5, <1>6, <1>7, DispatchAwaited,
           ReceiveAwaited, PostReturnsAwaited

\* Whoever has a lock after a step had it before, or has just taken it.
LEMMA LockStep ==
  ASSUME TypeOK, AwaitedByDispatch, [Next]_vars
  PROVE  \/ HasLock' \subseteq HasLock
         \/ \E h \in Accepted : TakeLock(h) /\ HasLock' \subseteq HasLock \cup {h}
<1>1. \A h \in Accepted : h \in Handles
  BY AcceptedHandles
<1>2. ASSUME NEW h \in Accepted, NEW to, h \in HasLock, Moved(h, to)
      PROVE  HasLock' \subseteq HasLock
  BY <1>2 DEF Moved, HasLock, TypeOK
<1>3. ASSUME NEW h \in Accepted, Moved(h, "done")
      PROVE  HasLock' \subseteq HasLock
  BY <1>1, <1>3 DEF Moved, HasLock, TypeOK
<1>4. ASSUME NEW t \in Tasks, Accept(t)
      PROVE  HasLock' \subseteq HasLock
  BY <1>4 DEF Accept, HasLock, TypeOK
<1>5. ASSUME NEW h \in Accepted, Dispatch(h), ~ TakeLock(h)
      PROVE  HasLock' \subseteq HasLock
  <2>1. h \in HasLock
    BY <1>1, <1>5 DEF Dispatch, Start, AgentReturns, AgentFails, Settle, HasLock
  <2>2. \E to : Moved(h, to)
    BY <1>5 DEF Dispatch, Start, AgentReturns, AgentFails, Settle, Finally,
                EndTurn, Leave, Moved
  <2> QED BY <1>2, <2>1, <2>2
<1>6. ASSUME NEW h \in Accepted, TakeLock(h)
      PROVE  HasLock' \subseteq HasLock \cup {h}
  BY <1>1, <1>6 DEF TakeLock, HasLock, TypeOK
<1>7. ASSUME NEW p \in posts, PostReturns(p)
      PROVE  HasLock' \subseteq HasLock
  <2>1. p.handle \in Accepted
    BY DEF TypeOK, Posts, Accepted
  <2>2. CASE Moved(p.handle, "done")
    BY <1>3, <2>1, <2>2
  <2>3. CASE p.by = "flush" /\ Moved(p.handle, "ending")
    <3>1. p.handle \in HasLock
      BY <1>1, <2>1, <2>3 DEF AwaitedByDispatch, HasLock
    <3> QED BY <1>2, <2>1, <2>3, <3>1
  <2>4. CASE UNCHANGED pc
    BY <2>4 DEF HasLock
  <2> QED BY <1>7, <2>2, <2>3, <2>4
          DEF PostReturns, SendReturns, FlushReturns, EndingReturns,
              TerminateReturns, Leave, Moved
<1>8. CASE UNCHANGED pc
  BY <1>8 DEF HasLock
<1>9. \/ UNCHANGED pc
      \/ \E t \in Tasks : Accept(t)
      \/ \E h \in Accepted : Dispatch(h)
      \/ \E p \in posts : PostReturns(p)
  BY DEF Next, vars, Duplicate, DrainTask, StashPrelude, AgentSend, ChatSend, SendTo,
         Interrupt, TerminateFrom, Receive, BeginDisconnect, StopListening,
         ClearTables, Connect, Accepted
<1> QED BY <1>4, <1>5, <1>6, <1>7, <1>8, <1>9

\* A task, once accepted, is never renamed, and keeps its lock.
LEMMA AcceptedStays ==
  ASSUME TypeOK, [Next]_vars
  PROVE  \A h \in Accepted : /\ h \in Accepted'
                             /\ task'[h] = task[h]
                             /\ lockGen'[h] = lockGen[h]
<1>1. CASE UNCHANGED turnVars
  BY <1>1 DEF turnVars, Accepted
<1>2. ASSUME NEW t \in Tasks, Accept(t)
      PROVE  \A h \in Accepted : /\ h \in Accepted'
                                 /\ task'[h] = task[h]
                                 /\ lockGen'[h] = lockGen[h]
  <2>1. task' = Append(task, t) /\ lockGen' = [lockGen EXCEPT ![Len(task) + 1] = gen]
    BY <1>2 DEF Accept
  <2>2. /\ task' \in Seq(Tasks)
        /\ Len(task') = Len(task) + 1
        /\ \A h \in 1..Len(task) : task'[h] = task[h]
    BY <2>1, AppendProperties DEF TypeOK
  <2>3. Accepted' = 1..Len(task')
    BY <2>2, LenProperties DEF Accepted
  <2> QED BY <2>1, <2>2, <2>3, AcceptedHandles DEF TypeOK
<1>3. UNCHANGED turnVars \/ \E t \in Tasks : Accept(t)
  BY DEF Next, vars, Duplicate, DrainTask, StashPrelude, AgentSend, ChatSend, SendTo,
         Interrupt, Receive, BeginDisconnect, StopListening, ClearTables, Connect,
         Dispatch, TakeLock, Start, AgentReturns, AgentFails, Settle, PostReturns,
         SendReturns, FlushReturns, EndingReturns, TerminateReturns
<1> QED BY <1>1, <1>2, <1>3

LEMMA SerializedStep ==
  ASSUME LockInv, [Next]_vars
  PROVE  ChatSerialized'
<1>1. HasLock \subseteq Accepted
  <2>1. ASSUME NEW h \in HasLock
        PROVE  h \in Handles /\ pc[h] # "free"
    BY DEF HasLock
  <2>2. \A h \in Handles : pc[h] = "free" <=> h > Len(task)
    BY DEF LockInv, TypeOK
  <2>3. task \in Seq(Tasks)
    BY DEF LockInv, TypeOK
  <2> QED BY <2>1, <2>2, <2>3, LenProperties DEF Accepted, Handles
<1>2. \A h \in Accepted : Chat(h)' = Chat(h) /\ lockGen'[h] = lockGen[h]
  BY AcceptedStays DEF LockInv, Chat
<1>3. CASE HasLock' \subseteq HasLock
  BY <1>1, <1>2, <1>3 DEF LockInv, ChatSerialized
<1>4. ASSUME NEW h \in Accepted, TakeLock(h), HasLock' \subseteq HasLock \cup {h}
      PROVE  ChatSerialized'
  <2>1. \A g \in HasLock : Chat(g) = Chat(h) => lockGen[g] # lockGen[h]
    BY <1>1, <1>4 DEF TakeLock, LockIsMine, SameLock, Accepted
  <2> QED BY <1>1, <1>2, <1>4, <2>1 DEF LockInv, ChatSerialized
<1> QED BY <1>3, <1>4, LockStep DEF LockInv

\* No two dispatches of a chat are past the same lock at the same time, whatever
\* fails, is interrupted or reconnects in between.
THEOREM ChatsAreSerialized == Spec => []ChatSerialized
<1>1. Init => LockInv
  <2>1. ASSUME Init
        PROVE  AwaitedByDispatch /\ ChatSerialized
    BY <2>1 DEF Init, AwaitedByDispatch, ChatSerialized, HasLock
  <2> QED BY <2>1, TypeInit DEF LockInv
<1>2. LockInv /\ [Next]_vars => LockInv'
  BY TypeStep, AwaitedStep, SerializedStep DEF LockInv
<1>3. LockInv => ChatSerialized
  BY DEF LockInv
<1> QED BY <1>1, <1>2, <1>3, PTL DEF Spec
-----------------------------------------------------------------------------
(* How a turn ends: it makes at most one end of itself, and on the event   *)
(* stream nothing of it follows.  The argument looks at what a step does   *)
(* to the payloads of one turn and at nothing else: one of four things.    *)

\* A payload for h: at once on the event stream (what is shown there may be
\* the error in its place), a delivery otherwise.
Shows(h, kind) ==
  /\ terminated \subseteq terminated'
  /\ IF OnStream(h)
     THEN out' = Got(h, kind) /\ posts' \subseteq posts
     ELSE /\ out' = out
          /\ \E by \in Posters : posts' \subseteq posts \cup {Post(h, kind, by)}

Ends(h, kind) ==
  /\ kind \in Terminals
  /\ h \notin terminated
  /\ h \in terminated'
  /\ Shows(h, kind)

\* What is no end: a reply of a reasoning turn only when its agent is done.
Early == {"queued", "locked", "agent"}
Says(h, kind) ==
  /\ kind \in Wire \ Terminals
  /\ h \in terminated => kind \in OnWire("new")
  /\ kind \in OnWire("message") => ~ Reasoning(h) \/ task[h] \in flushed \/ pc'[h] \notin Early
  /\ Shows(h, kind)

Silent == terminated \subseteq terminated' /\ out' = out /\ posts' \subseteq posts

Effect ==
  \/ Silent
  \/ \E h \in Accepted : \E kind \in Wire : Ends(h, kind) \/ Says(h, kind)
  \/ \E p \in posts : Receive(p)

LEMMA FinallySilent ==
  ASSUME NEW h, Finally(h) PROVE Silent
BY DEF Finally, Silent

LEMMA EndTurnEnds ==
  ASSUME TypeOK, NEW h \in Accepted, NEW kind \in Terminals, h \notin terminated,
         EndTurn(h, kind)
  PROVE  Effect
<1>1. kind \in Wire /\ OnWire(kind) = {kind}
  BY WireKinds DEF Terminals
<1> QED BY <1>1 DEF EndTurn, Release, Streamed, Effect, Ends, Shows, Posters

LEMMA TerminateFromEnds ==
  ASSUME TypeOK, NEW h \in Accepted, NEW by \in {"interrupt", "disconnect"},
         h \notin terminated, TerminateFrom(h, by)
  PROVE  Effect
<1>1. "silent" \in Terminals /\ "silent" \in Wire /\ OnWire("silent") = {"silent"}
  BY WireKinds DEF Terminals
<1> QED BY <1>1 DEF TerminateFrom, Release, Streamed, Effect, Ends, Shows, Posters

LEMMA AgentReturnsEffect ==
  ASSUME TypeOK, NEW h \in Accepted, AgentReturns(h)
  PROVE  Effect
<1>1. CASE Finally(h)
  BY <1>1, FinallySilent DEF Effect
<1>2. CASE out' = out /\ posts' = posts /\ terminated' = terminated
  BY <1>2 DEF Effect, Silent
<1>3. CASE /\ terminated' = terminated /\ ~ Over(h)
           /\ pc' = [pc EXCEPT ![h] = "flush"] \/ Leave(h)
           /\ IF OnStream(h)
              THEN Streamed(h, "message") /\ posts' = posts
              ELSE out' = out /\ posts' = posts \cup {Post(h, "message", "flush")}
  <2>1. pc'[h] \notin Early
    BY <1>3, AcceptedHandles DEF Leave, Early, TypeOK
  <2>2. PICK shown \in OnWire("message") :
          IF OnStream(h) THEN out' = Got(h, shown) ELSE shown = "message"
    BY <1>3, WireKinds DEF Streamed
  <2>3. shown \in Wire \ Terminals
    BY WireKinds DEF Terminals
  <2>4. Says(h, shown)
    BY <1>3, <2>1, <2>2, <2>3 DEF Says, Shows, Over, Posters
  <2> QED BY <2>3, <2>4 DEF Effect
<1> QED BY <1>1, <1>2, <1>3 DEF AgentReturns

LEMMA DispatchEffect ==
  ASSUME TypeOK, NEW h \in Accepted, Dispatch(h)
  PROVE  Effect
<1>1. CASE TakeLock(h) \/ Start(h)
  BY <1>1 DEF TakeLock, Start, Effect, Silent
<1>2. CASE AgentFails(h) \/ Settle(h)
  <2>1. \/ Finally(h)
        \/ ~ Over(h) /\ \E kind \in Terminals : EndTurn(h, kind)
    BY <1>2 DEF AgentFails, Settle, Terminals
  <2> QED BY <2>1, FinallySilent, EndTurnEnds DEF Effect, Over
<1> QED BY <1>1, <1>2, AgentReturnsEffect DEF Dispatch

LEMMA SendEffect ==
  ASSUME TypeOK, NEW h \in Slots, NEW kind \in SendKinds, SendTo(h, kind)
  PROVE  Effect
<1>1. CASE out' = out /\ posts' = posts
  BY <1>1 DEF SendTo, Effect, Silent
<1>2. CASE h # None /\ ~ Buffers(h, kind) /\ Deliver(h, WireKind(h, kind))
  <2>1. h \in Accepted
    BY <1>2 DEF Slots
  <2>2. PICK shown \in OnWire(WireKind(h, kind)) :
          IF OnStream(h) THEN out' = Got(h, shown) ELSE shown = WireKind(h, kind)
    <3>1. WireKind(h, kind) \in OnWire(WireKind(h, kind))
      BY DEF OnWire
    <3> QED BY <1>2, <3>1 DEF Deliver, Streamed
  <2>3. kind \in {"message", "notice", "chunk"}
    BY DEF ConstantsAssumption
  <2>4. /\ shown \in Wire \ Terminals
        /\ h \in terminated => shown \in OnWire("new")
        /\ shown \in OnWire("message") => kind = "message" /\ h \notin terminated
    BY <2>3, WireKinds DEF WireKind, Terminals, Over
  <2>5. shown \in OnWire("message") => ~ Reasoning(h) \/ task[h] \in flushed
    BY <1>2, <2>4 DEF Over, Buffers
  <2>6. Says(h, shown)
    BY <1>2, <2>2, <2>4, <2>5 DEF Deliver, SendTo, Says, Shows, Posters
  <2> QED BY <2>1, <2>4, <2>6 DEF Effect
<1> QED BY <1>1, <1>2 DEF SendTo

\* Only turns with a callback URL are delivered in this way.
PostsOnCallback == \A p \in posts : ~ OnStream(p.handle)

\* A delivery that returns takes itself out; a flush that failed ends the turn.
LEMMA PostReturnsEffect ==
  ASSUME TypeOK, PostsOnCallback, NEW p \in posts, PostReturns(p)
  PROVE  Effect
<1>1. p.handle \in Accepted
  BY DEF TypeOK, Posts, Accepted
<1>2. ASSUME NEW ok \in BOOLEAN,
             SendReturns(p, ok) \/ EndingReturns(p, ok) \/ TerminateReturns(p, ok)
      PROVE  Effect
  BY <1>2 DEF SendReturns, EndingReturns, TerminateReturns, Effect, Silent
<1>3. ASSUME NEW ok \in BOOLEAN, FlushReturns(p, ok)
      PROVE  Effect
  <2>1. CASE ok \/ Over(p.handle)
    BY <1>3, <2>1 DEF FlushReturns, Effect, Silent
  <2>2. CASE ~ ok /\ ~ Over(p.handle)
    <3>1. /\ Release(p.handle) /\ out' = out
          /\ posts' = (posts \ {p}) \cup {Post(p.handle, "errored", "ending")}
      BY <1>3, <2>2 DEF FlushReturns
    <3>2. Ends(p.handle, "errored")
      BY <2>2, <3>1 DEF PostsOnCallback, Ends, Shows, Release, Over, Terminals, Posters
    <3> QED BY <1>1, <3>2, WireKinds DEF Effect
  <2> QED BY <2>1, <2>2
<1>4. {p.got, FALSE} \subseteq BOOLEAN
  BY DEF TypeOK, Posts
<1> QED BY <1>2, <1>3, <1>4 DEF PostReturns

LEMMA DisconnectEffect ==
  ASSUME TypeOK,
         \/ \E t \in Tasks : DrainTask(t)
         \/ BeginDisconnect \/ StopListening \/ ClearTables \/ Connect
  PROVE  Effect
<1>1. ASSUME NEW t \in Tasks, DrainTask(t)
      PROVE  Effect
  <2>1. callbacks.val[t] \in Slots
    BY DEF TypeOK, Dict, Slots, Accepted
  <2>2. CASE callbacks.val[t] = None \/ callbacks.val[t] \in terminated \cup delivered
    BY <1>1, <2>2 DEF DrainTask, Effect, Silent
  <2>3. CASE callbacks.val[t] # None /\ callbacks.val[t] \notin terminated \cup delivered
    BY <1>1, <2>1, <2>3, TerminateFromEnds DEF DrainTask, Slots
  <2> QED BY <2>2, <2>3
<1>2. CASE BeginDisconnect \/ StopListening \/ ClearTables \/ Connect
  BY <1>2 DEF BeginDisconnect, StopListening, ClearTables, Connect, Effect, Silent
<1> QED BY <1>1, <1>2

\* Every step but an accepted POST has one of the four effects.
LEMMA StepEffect ==
  ASSUME TypeOK, PostsOnCallback, [Next]_vars
  PROVE  \/ \E t \in Tasks : Accept(t)
         \/ Effect /\ UNCHANGED task
<1>1. (\E t \in Tasks : Accept(t)) \/ UNCHANGED task
  BY DEF Next, vars, turnVars, Duplicate, DrainTask, StashPrelude, AgentSend, ChatSend,
         SendTo, Interrupt, Receive, BeginDisconnect, StopListening, ClearTables, Connect,
         Dispatch, TakeLock, Start, AgentReturns, AgentFails, Settle, PostReturns,
         SendReturns, FlushReturns, EndingReturns, TerminateReturns
<1>2. ASSUME \/ \E t \in Tasks : Duplicate(t)
             \/ \E s \in PreludeSessions : StashPrelude(s)
             \/ UNCHANGED vars
      PROVE  Effect
  BY <1>2 DEF Duplicate, StashPrelude, vars, Effect, Silent
<1>3. ASSUME NEW h \in Accepted, NEW kind \in SendKinds, AgentSend(h, kind)
      PROVE  Effect
  BY <1>3, AcceptedHandles, ResolveType, SendEffect DEF AgentSend
<1>4. ASSUME NEW c \in Chats, NEW kind \in SendKinds, ChatSend(c, kind)
      PROVE  Effect
  BY <1>4, ResolveType, SendEffect DEF ChatSend
<1>5. ASSUME NEW c \in Chats, Interrupt(c)
      PROVE  Effect
  BY <1>5, PeekType, TerminateFromEnds DEF Interrupt, Slots
<1>6. ASSUME NEW p \in posts, Receive(p)
      PROVE  Effect
  BY <1>6 DEF Effect
<1> QED
  BY <1>1, <1>2, <1>3, <1>4, <1>5, <1>6, DispatchEffect, PostReturnsEffect, DisconnectEffect
  DEF Next, Accepted
-----------------------------------------------------------------------------
(* The invariant.                                                          *)

Told(h) == \E i \in DOMAIN out[h] : out[h][i] \in Terminals

\* An end that was shown or is on its way is that of a turn that is over; at
\* most one is on its way, and it is not there yet unless it was received.
ToldIsOver == \A h \in Handles : Told(h) => h \in terminated
PostedIsOver ==
  \A p \in posts : p.kind \in Terminals =>
    /\ p.handle \in terminated
    /\ ~ p.got => ~ Told(p.handle)
OneEndPosted ==
  \A p, q \in posts :
    p.kind \in Terminals /\ q.kind \in Terminals /\ p.handle = q.handle => p = q

EndInv ==
  /\ TypeOK /\ PostsOnCallback
  /\ ToldIsOver /\ PostedIsOver /\ OneEndPosted
  /\ OneTerminal /\ QuietAfterTerminal

\* What one more payload does to what a client has.
LEMMA GotOne ==
  ASSUME TypeOK, NEW h \in Accepted, NEW kind \in Wire, out' = Got(h, kind)
  PROVE  /\ \A g \in Handles \ {h} : out'[g] = out[g]
         /\ out[h] \in Seq(Wire)
         /\ Len(out[h]) \in Nat
         /\ DOMAIN out[h] = 1..Len(out[h])
         /\ DOMAIN out'[h] = 1..(Len(out[h]) + 1)
         /\ \A i \in 1..Len(out[h]) : out'[h][i] = out[h][i]
         /\ out'[h][Len(out[h]) + 1] = kind
<1>1. h \in Handles /\ out[h] \in Seq(Wire)
  BY AcceptedHandles DEF TypeOK
<1>2. \A g \in Handles \ {h} : out'[g] = out[g]
  BY DEF TypeOK, Got
<1>3. out'[h] = Append(out[h], kind)
  BY <1>1 DEF TypeOK, Got
<1>4. Len(out[h]) \in Nat /\ DOMAIN out[h] = 1..Len(out[h])
  BY <1>1, LenProperties
<1>5. /\ DOMAIN out'[h] = 1..(Len(out[h]) + 1)
      /\ \A i \in 1..Len(out[h]) : out'[h][i] = out[h][i]
      /\ out'[h][Len(out[h]) + 1] = kind
  BY <1>1, <1>3, AppendProperties, LenProperties
<1> QED BY <1>1, <1>2, <1>4, <1>5

\* One more payload for h: an end when h had none, or what is no end.
LEMMA OutKept ==
  ASSUME TypeOK, OneTerminal, QuietAfterTerminal, UNCHANGED task,
         NEW h \in Accepted, NEW kind \in Wire, out' = Got(h, kind),
         kind \in Terminals => ~ Told(h),
         Told(h) /\ OnStream(h) => kind \in OnWire("new")
  PROVE  /\ OneTerminal' /\ QuietAfterTerminal'
         /\ \A g \in Handles \ {h} : Told(g)' = Told(g)
         /\ Told(h)' => Told(h) \/ kind \in Terminals
<1>1. \A g \in Handles \ {h} : out'[g] = out[g]
  BY GotOne
<1> DEFINE n == Len(out[h])
<1>2. /\ n \in Nat /\ DOMAIN out[h] = 1..n /\ DOMAIN out'[h] = 1..(n + 1)
      /\ \A i \in 1..n : out'[h][i] = out[h][i]
      /\ out'[h][n + 1] = kind
  BY GotOne
<1> HIDE DEF n
<1>3. \A i \in DOMAIN out'[h] : i \in 1..n \/ i = n + 1
  BY <1>2
<1>4. /\ \A g \in Handles \ {h} : Told(g)' = Told(g)
      /\ Told(h)' => Told(h) \/ kind \in Terminals
  BY <1>1, <1>2, <1>3 DEF Told
<1>5. OneTerminal'
  <2> SUFFICES ASSUME NEW g \in Handles, NEW i \in DOMAIN out'[g], NEW j \in DOMAIN out'[g],
                      out'[g][i] \in Terminals, out'[g][j] \in Terminals
               PROVE  i = j
    BY DEF OneTerminal
  <2>1. CASE g # h
    BY <1>1, <2>1 DEF OneTerminal
  <2>2. CASE g = h
    <3>1. \A k \in 1..n : out[h][k] \in Terminals => Told(h)
      BY <1>2 DEF Told
    <3>2. CASE kind \in Terminals
      <4>1. i \notin 1..n /\ j \notin 1..n
        BY <1>2, <2>2, <3>1, <3>2
      <4> QED BY <1>3, <2>2, <4>1
    <3>3. CASE kind \notin Terminals
      <4>1. i \in 1..n /\ j \in 1..n
        BY <1>2, <1>3, <2>2, <3>3
      <4> QED BY <1>2, <2>2, <4>1, AcceptedHandles DEF OneTerminal
    <3> QED BY <3>2, <3>3
  <2> QED BY <2>1, <2>2
<1>6. QuietAfterTerminal'
  <2> SUFFICES ASSUME NEW g \in DOMAIN task, OnStream(g),
                      NEW i \in DOMAIN out'[g], NEW j \in DOMAIN out'[g],
                      out'[g][i] \in Terminals, i < j
               PROVE  out'[g][j] \in OnWire("new")
    BY DEF QuietAfterTerminal, OnStream
  <2>1. CASE g # h
    BY <1>1, <2>1, AcceptedHandles DEF QuietAfterTerminal, Accepted
  <2>2. CASE g = h
    <3>1. i \in 1..n
      BY <1>2, <1>3, <2>2
    <3>2. Told(h)
      BY <1>2, <2>2, <3>1 DEF Told
    <3> QED BY <1>2, <1>3, <2>2, <3>1, <3>2 DEF QuietAfterTerminal
  <2> QED BY <2>1, <2>2
<1> QED BY <1>4, <1>5, <1>6

\* The payload is shown at once or posted: either way the rest is as it was.
LEMMA ShowsKeeps ==
  ASSUME EndInv, UNCHANGED task, NEW h \in Accepted, NEW kind \in Wire,
         Ends(h, kind) \/ Says(h, kind), TypeOK'
  PROVE  EndInv'
<1>1. /\ kind \in Terminals => h \notin terminated /\ h \in terminated'
      /\ h \in terminated => kind \in OnWire("new")
      /\ terminated \subseteq terminated'
      /\ h \in Handles
  BY AcceptedHandles DEF EndInv, Ends, Says, Shows
<1>2. kind \in Terminals => ~ Told(h) /\ \A p \in posts : p.kind \in Terminals => p.handle # h
  BY <1>1 DEF EndInv, ToldIsOver, PostedIsOver
<1>3. Told(h) => kind \in OnWire("new")
  BY <1>1 DEF EndInv, ToldIsOver
<1>4. CASE OnStream(h)
  <2>1. out' = Got(h, kind) /\ posts' \subseteq posts
    BY <1>4 DEF Ends, Says, Shows
  <2>2. /\ OneTerminal' /\ QuietAfterTerminal'
        /\ \A g \in Handles \ {h} : Told(g)' = Told(g)
        /\ Told(h)' => Told(h) \/ kind \in Terminals
    BY <1>2, <1>3, <2>1, OutKept DEF EndInv
  <2>3. \A p \in posts' : p \in posts /\ p.handle \in Handles /\ p.handle # h
    BY <1>4, <2>1, AcceptedHandles DEF EndInv, PostsOnCallback, TypeOK, Posts, Accepted
  <2>4. ToldIsOver'
    BY <1>1, <2>2 DEF EndInv, ToldIsOver
  <2>5. PostedIsOver'
    BY <1>1, <2>2, <2>3 DEF EndInv, PostedIsOver
  <2>6. PostsOnCallback' /\ OneEndPosted'
    BY <2>3 DEF EndInv, PostsOnCallback, OneEndPosted, OnStream
  <2> QED BY <2>2, <2>4, <2>5, <2>6 DEF EndInv
<1>5. CASE ~ OnStream(h)
  <2>1. PICK by \in Posters : out' = out /\ posts' \subseteq posts \cup {Post(h, kind, by)}
    BY <1>5 DEF Ends, Says, Shows
  <2>2. \A p \in posts' : p \in posts \/ p = Post(h, kind, by)
    BY <2>1
  <2>3. Post(h, kind, by).handle = h /\ Post(h, kind, by).kind = kind
    BY DEF Post
  <2>4. \A g \in Handles : Told(g)' = Told(g)
    BY <2>1 DEF Told
  <2>5. OneTerminal' /\ QuietAfterTerminal' /\ ToldIsOver'
    BY <1>1, <2>1, <2>4 DEF EndInv, OneTerminal, QuietAfterTerminal, OnStream, ToldIsOver
  <2>6. PostsOnCallback'
    BY <1>5, <2>2, <2>3 DEF EndInv, PostsOnCallback, OnStream
  <2>7. PostedIsOver'
    <3> SUFFICES ASSUME NEW p \in posts', p.kind \in Terminals
                 PROVE  p.handle \in terminated' /\ (~ p.got => ~ Told(p.handle)')
      BY DEF PostedIsOver
    <3>1. CASE p \in posts
      BY <1>1, <2>1, <3>1 DEF EndInv, PostedIsOver, Told
    <3>2. CASE p = Post(h, kind, by)
      BY <1>1, <1>2, <2>3, <2>4, <3>2
    <3> QED BY <2>2, <3>1, <3>2
  <2>8. OneEndPosted'
    BY <1>2, <2>2, <2>3 DEF EndInv, OneEndPosted
  <2> QED BY <2>5, <2>6, <2>7, <2>8 DEF EndInv
<1> QED BY <1>4, <1>5

LEMMA ReceiveKeeps ==
  ASSUME EndInv, UNCHANGED task, NEW p \in posts, Receive(p), TypeOK'
  PROVE  EndInv'
<1> DEFINE r == [p EXCEPT !.got = TRUE]
<1>1. /\ p.handle \in Accepted /\ p.handle \in Handles /\ p.kind \in Wire
      /\ p.got = FALSE /\ r.handle = p.handle /\ r.kind = p.kind /\ r.got = TRUE
  BY AcceptedHandles DEF EndInv, TypeOK, Posts, Accepted, Receive
<1> HIDE DEF r
<1>2. /\ out' = Got(p.handle, p.kind) /\ terminated' = terminated
      /\ posts' = (posts \ {p}) \cup {r}
  BY DEF Receive, r
<1>3. ~ OnStream(p.handle)
  BY DEF EndInv, PostsOnCallback
<1>4. p.kind \in Terminals => ~ Told(p.handle) /\ p.handle \in terminated
  BY <1>1 DEF EndInv, PostedIsOver
<1>5. /\ OneTerminal' /\ QuietAfterTerminal'
      /\ \A g \in Handles \ {p.handle} : Told(g)' = Told(g)
      /\ Told(p.handle)' => Told(p.handle) \/ p.kind \in Terminals
  BY <1>1, <1>2, <1>3, <1>4, OutKept DEF EndInv
<1>6. ToldIsOver'
  BY <1>1, <1>2, <1>4, <1>5 DEF EndInv, ToldIsOver
<1>7. \A q \in posts' : (q \in posts /\ q # p) \/ q = r
  BY <1>2
<1>8. PostsOnCallback' /\ OneEndPosted'
  BY <1>1, <1>3, <1>7 DEF EndInv, PostsOnCallback, OneEndPosted, OnStream
<1>9. PostedIsOver'
  <2> SUFFICES ASSUME NEW q \in posts', q.kind \in Terminals
               PROVE  q.handle \in terminated' /\ (~ q.got => ~ Told(q.handle)')
    BY DEF PostedIsOver
  <2>1. CASE q = r
    BY <1>1, <1>2, <1>4, <2>1
  <2>2. CASE q \in posts /\ q # p
    <3>1. q.handle \in Handles /\ q.handle \in terminated /\ (~ q.got => ~ Told(q.handle))
      BY <2>2, AcceptedHandles DEF EndInv, PostedIsOver, TypeOK, Posts, Accepted
    <3>2. q.handle = p.handle => p.kind \notin Terminals
      BY <2>2 DEF EndInv, OneEndPosted
    <3> QED BY <1>2, <1>5, <3>1, <3>2
  <2> QED BY <1>7, <2>1, <2>2
<1> QED BY <1>5, <1>6, <1>8, <1>9 DEF EndInv

\* An accepted POST begins a turn that nobody has been told the end of.
LEMMA AcceptKeeps ==
  ASSUME EndInv, NEW t \in Tasks, Accept(t), TypeOK', [Next]_vars
  PROVE  EndInv'
<1>1. UNCHANGED <<out, posts, terminated>>
  BY DEF Accept
<1>2. \A h \in Accepted : OnStream(h)' = OnStream(h)
  BY AcceptedStays DEF EndInv, OnStream
<1>3. \A p \in posts : p.handle \in Accepted
  BY DEF EndInv, TypeOK, Posts, Accepted
<1>4. \A h \in Handles : Told(h)' = Told(h)
  BY <1>1 DEF Told
<1>5. PostsOnCallback' /\ ToldIsOver' /\ PostedIsOver' /\ OneEndPosted' /\ OneTerminal'
  BY <1>1, <1>2, <1>3, <1>4, AcceptedHandles
  DEF EndInv, PostsOnCallback, ToldIsOver, PostedIsOver, OneEndPosted, OneTerminal
<1>6. QuietAfterTerminal'
  <2> SUFFICES ASSUME NEW h \in Accepted', OnStream(h)',
                      NEW i \in DOMAIN out[h], NEW j \in DOMAIN out[h],
                      out[h][i] \in Terminals, i < j
               PROVE  out[h][j] \in OnWire("new")
    BY <1>1 DEF QuietAfterTerminal, Accepted
  <2>1. h \in Handles
    <3>1. task' \in Seq(Tasks) /\ Len(task') <= MaxHandles
      BY DEF TypeOK
    <3> QED BY <3>1, LenProperties DEF Accepted, Handles
  <2>2. h \in Accepted
    BY <2>1 DEF EndInv, ToldIsOver, Told, TypeOK, Accepted
  <2> QED BY <1>2, <2>2 DEF EndInv, QuietAfterTerminal, Accepted
<1> QED BY <1>5, <1>6 DEF EndInv

LEMMA EndStep == EndInv /\ [Next]_vars => EndInv'
<1> SUFFICES ASSUME EndInv, [Next]_vars PROVE EndInv'
  OBVIOUS
<1>1. TypeOK'
  BY TypeStep DEF EndInv
<1>2. CASE Silent /\ UNCHANGED task
  BY <1>1, <1>2
  DEF Silent, EndInv, PostsOnCallback, OnStream, ToldIsOver, Told, PostedIsOver,
      OneEndPosted, OneTerminal, QuietAfterTerminal
<1> QED BY <1>1, <1>2, StepEffect, ShowsKeeps, ReceiveKeeps, AcceptKeeps DEF Effect, EndInv

LEMMA EndInit == Init => EndInv
<1> SUFFICES ASSUME Init PROVE EndInv
  OBVIOUS
<1>1. posts = {} /\ \A h \in Handles : DOMAIN out[h] = {}
  BY DEF Init
<1>2. TypeOK /\ DOMAIN task \subseteq Handles
  BY TypeInit, AcceptedHandles DEF Accepted
<1> QED BY <1>1, <1>2
        DEF EndInv, PostsOnCallback, ToldIsOver, Told, PostedIsOver, OneEndPosted,
            OneTerminal, QuietAfterTerminal

LEMMA EndAlways == Spec => []EndInv
BY EndInit, EndStep, PTL DEF Spec

\* Whoever gets there first, a turn makes at most one end of itself: on the
\* stream or on a callback URL, whatever returns late, fails or reconnects.
\* The errors that stand for oversized replies are not counted as ends.
THEOREM OneEndOfATurn == Spec => []OneTerminal
<1>1. EndInv => OneTerminal
  BY DEF EndInv
<1> QED BY EndAlways, <1>1, PTL

\* On the event stream nothing follows the end a turn makes of itself under its
\* task id; an error in place of an oversized reply is not that end.
THEOREM NothingAfterTheEnd == Spec => []QuietAfterTerminal
<1>1. EndInv => QuietAfterTerminal
  BY DEF EndInv
<1> QED BY EndAlways, <1>1, PTL
-----------------------------------------------------------------------------
(* Which turn an interrupt ends: the head of a chat's deque is the turn    *)
(* that runs.  The deque is kept by many steps and the lock by others;     *)
(* what ties them is that both are in accept order.                        *)

RunningAt == {"agent", "flush", "settle", "ending"}
OpenAt == {"queued", "locked", "agent", "flush", "settle"}

\* A chat's active turn is a dispatch of that chat that runs.
ActiveRuns ==
  \A c \in Chats : active[c] # None => pc[active[c]] \in RunningAt /\ Chat(active[c]) = c

\* The deques hold the turns accepted since the tables were last cleared that
\* are not over, and nothing else.
OpenIsQueued ==
  \A h \in Accepted : lockGen[h] = gen /\ pc[h] \in OpenAt /\ h \notin terminated => h \in queue
QueuedIsOpen ==
  \A h \in queue : lockGen[h] = gen /\ pc[h] \in OpenAt

\* A turn that got the lock is not overtaken by one that came before it.
FirstCome ==
  \A g, h \in Accepted : g < h /\ SameLock(g, h) /\ pc[g] = "queued" => pc[h] = "queued"

OfThePast == \A h \in Accepted : lockGen[h] <= gen
EndingIsOver == \A h \in Accepted : pc[h] = "ending" => h \in terminated

Order ==
  /\ ActiveRuns /\ OpenIsQueued /\ QueuedIsOpen
  /\ FirstCome /\ OfThePast /\ EndingIsOver

OrderInv == LockInv /\ Order
-----------------------------------------------------------------------------
(* What a step may do to the lock and the deque.                           *)

\* A dispatch goes on from one await to the next, or leaves.
RunStep(h) ==
  \E to \in {"flush", "settle", "ending", "done"} :
    /\ pc[h] \in RunningAt
    /\ Moved(h, to)
    /\ UNCHANGED <<turnVars, gen>>
    /\ terminated \subseteq terminated'
    /\ to = "ending" => h \in terminated'
    /\ queue' = IF to \in {"flush", "settle"} THEN queue ELSE queue \ {h}
    /\ active' = IF to = "done" /\ active[Chat(h)] = h
                 THEN [active EXCEPT ![Chat(h)] = None] ELSE active

\* Somebody else ends the turn of h while its dispatch goes on.
Oust(h) ==
  /\ UNCHANGED <<turnVars, gen, pc, active>>
  /\ terminated' = terminated \cup {h}
  /\ queue' = queue \ {h}

Still == UNCHANGED <<turnVars, gen, pc, active, queue, terminated>>

LEMMA FinallyRuns ==
  ASSUME NEW h, pc[h] \in RunningAt, Finally(h), UNCHANGED <<turnVars, gen>>
  PROVE  RunStep(h)
BY DEF Finally, Leave, RunStep, Moved

LEMMA EndTurnRuns ==
  ASSUME NEW h, NEW status, pc[h] \in RunningAt, EndTurn(h, status),
         UNCHANGED <<turnVars, gen>>
  PROVE  RunStep(h)
BY DEF EndTurn, Release, Leave, RunStep, Moved

LEMMA DispatchRuns ==
  ASSUME NEW h \in Accepted, Dispatch(h)
  PROVE  TakeLock(h) \/ Start(h) \/ RunStep(h)
<1>1. CASE AgentReturns(h)
  <2> USE <1>1 DEF AgentReturns
  <2>1. pc[h] \in RunningAt /\ UNCHANGED <<turnVars, gen>>
    BY DEF RunningAt, connVars
  <2>2. CASE ~ Reasoning(h)
    BY <2>1, <2>2 DEF RunStep, Moved, routeVars
  <2>3. CASE Reasoning(h) /\ Over(h)
    BY <2>1, <2>3, FinallyRuns
  <2>4. CASE Reasoning(h) /\ ~ Over(h)
    BY <2>1, <2>4 DEF RunStep, Moved, Leave
  <2> QED BY <2>2, <2>3, <2>4
<1>2. CASE AgentFails(h)
  BY <1>2, FinallyRuns, EndTurnRuns DEF AgentFails, RunningAt, connVars
<1>3. CASE Settle(h)
  BY <1>3, FinallyRuns, EndTurnRuns DEF Settle, RunningAt, connVars
<1> QED BY <1>1, <1>2, <1>3 DEF Dispatch

LEMMA PostReturnsRuns ==
  ASSUME OrderInv, NEW p \in posts, PostReturns(p)
  PROVE  Still \/ \E h \in Accepted : RunStep(h)
<1>1. PICK ok \in {p.got, FALSE} :
         \/ SendReturns(p, ok) \/ FlushReturns(p, ok)
         \/ EndingReturns(p, ok) \/ TerminateReturns(p, ok)
  BY DEF PostReturns
<1> DEFINE h == p.handle
<1>2. h \in Accepted
  BY DEF OrderInv, LockInv, TypeOK, Posts, Accepted
<1>3. CASE SendReturns(p, ok) \/ TerminateReturns(p, ok)
  BY <1>3 DEF SendReturns, TerminateReturns, Still, routeVars, connVars
<1>4. CASE FlushReturns(p, ok)
  <2>1. pc[h] \in RunningAt /\ UNCHANGED <<turnVars, gen>>
    BY <1>4 DEF FlushReturns, OrderInv, LockInv, AwaitedByDispatch, RunningAt, connVars
  <2>2. RunStep(h)
    BY <1>4, <2>1 DEF FlushReturns, RunStep, Moved, Leave, Release
  <2> QED BY <1>2, <2>2
<1>5. CASE EndingReturns(p, ok)
  <2>1. pc[h] = "ending"
    BY <1>5 DEF EndingReturns, OrderInv, LockInv, AwaitedByDispatch
  <2>2. queue = queue \ {h}
    BY <2>1 DEF OrderInv, Order, QueuedIsOpen, OpenAt
  <2>3. RunStep(h)
    BY <1>5, <2>1, <2>2 DEF EndingReturns, RunStep, Moved, Leave, RunningAt, connVars
  <2> QED BY <1>2, <2>3
<1> QED BY <1>1, <1>3, <1>4, <1>5

LEMMA TerminateOusts ==
  ASSUME NEW h, NEW by, TerminateFrom(h, by), UNCHANGED <<turnVars, gen>>
  PROVE  Oust(h)
BY DEF TerminateFrom, Release, Oust

LEMMA StepOrder ==
  ASSUME OrderInv, [Next]_vars
  PROVE  \/ Still
         \/ \E t \in Tasks : Accept(t)
         \/ ClearTables
         \/ \E h \in Accepted : TakeLock(h) \/ Start(h) \/ RunStep(h) \/ Oust(h)
<1> DEFINE Claim == \/ Still
                    \/ \E t \in Tasks : Accept(t)
                    \/ ClearTables
                    \/ \E h \in Accepted : TakeLock(h) \/ Start(h) \/ RunStep(h) \/ Oust(h)
<1>1. TypeOK
  BY DEF OrderInv, LockInv
<1>2. ASSUME NEW t \in Tasks, DrainTask(t) PROVE Claim
  <2>1. callbacks.val[t] \in Slots
    BY <1>1 DEF TypeOK, Dict, Slots, Accepted
  <2>2. CASE callbacks.val[t] \in Accepted /\ TerminateFrom(callbacks.val[t], "disconnect")
    BY <1>2, <2>2, TerminateOusts DEF DrainTask
  <2>3. CASE UNCHANGED <<routeVars, pc, terminated, active>>
    BY <1>2, <2>3 DEF DrainTask, Still, routeVars
  <2> QED BY <1>2, <2>1, <2>2, <2>3 DEF DrainTask, Slots
<1>3. ASSUME NEW c \in Chats, Interrupt(c) PROVE Claim
  BY <1>1, <1>3, PeekType, TerminateOusts DEF Interrupt, Slots, connVars
<1>4. ASSUME \/ UNCHANGED vars
             \/ \E t \in Tasks : Duplicate(t)
             \/ \E s \in PreludeSessions : StashPrelude(s)
             \/ \E h \in Accepted, kind \in SendKinds : AgentSend(h, kind)
             \/ \E c \in Chats, kind \in SendKinds : ChatSend(c, kind)
             \/ \E p \in posts : Receive(p)
             \/ BeginDisconnect \/ StopListening \/ Connect
      PROVE  Still
  BY <1>4 DEF Still, vars, routeVars, connVars, Duplicate, StashPrelude, AgentSend,
              ChatSend, SendTo, Receive, BeginDisconnect, StopListening, Connect
<1> QED BY <1>2, <1>3, <1>4, DispatchRuns, PostReturnsRuns DEF Next, Accepted
-----------------------------------------------------------------------------
(* Each of these keeps the order.                                          *)

\* The new turn is behind all others, and no table knows it yet.
LEMMA AcceptOrder ==
  ASSUME OrderInv, NEW t \in Tasks, Accept(t), [Next]_vars
  PROVE  Order'
<1> DEFINE n == Len(task) + 1
<1>1. /\ TypeOK /\ TypeOK' /\ Accepted = 1..Len(task) /\ Len(task) \in Nat
      /\ Accepted \subseteq Handles /\ n \in Handles
  BY AcceptedHandles, TypeStep DEF OrderInv, LockInv, Accept, Handles
<1>2. Accepted' = Accepted \cup {n}
  <2>1. Len(task') = n
    BY <1>1, AppendProperties DEF Accept, TypeOK
  <2>2. Accepted' = 1..Len(task')
    BY <1>1, LenProperties DEF TypeOK, Accepted
  <2> QED BY <1>1, <2>1, <2>2
<1>3. \A h \in Accepted : Chat(h)' = Chat(h) /\ lockGen'[h] = lockGen[h] /\ pc'[h] = pc[h]
  <2>1. \A h \in Accepted : task'[h] = task[h] /\ lockGen'[h] = lockGen[h]
    BY <1>1, AcceptedStays
  <2>2. \A h \in Accepted : h # n /\ h \in Handles
    BY <1>1
  <2>3. pc' = [pc EXCEPT ![n] = "queued"] /\ DOMAIN pc = Handles
    BY <1>1 DEF Accept, TypeOK
  <2>4. \A h \in Accepted : pc'[h] = pc[h]
    BY <2>2, <2>3
  <2> QED BY <2>1, <2>4 DEF Chat
<1>4. /\ pc'[n] = "queued" /\ lockGen'[n] = gen /\ queue' = queue \cup {n}
      /\ UNCHANGED <<gen, active, terminated>>
  BY <1>1 DEF Accept, TypeOK, connVars
<1> HIDE DEF n
<1>5. queue \subseteq Accepted /\ \A c \in Chats : active[c] # None => active[c] \in Accepted
  BY <1>1 DEF TypeOK, Accepted
<1>6. ActiveRuns'
  BY <1>3, <1>4, <1>5 DEF OrderInv, Order, ActiveRuns
<1>7. OpenIsQueued' /\ QueuedIsOpen'
  BY <1>2, <1>3, <1>4, <1>5 DEF OrderInv, Order, OpenIsQueued, QueuedIsOpen, OpenAt
<1>8. FirstCome'
  <2> SUFFICES ASSUME NEW g \in Accepted', NEW h \in Accepted',
                      g < h, SameLock(g, h)', pc'[g] = "queued"
               PROVE  pc'[h] = "queued"
    BY DEF FirstCome
  <2>1. CASE h = n
    BY <1>4, <2>1
  <2>2. CASE h \in Accepted
    <3>1. g \in Accepted
      BY <1>1, <1>2, <2>2 DEF n
    <3> QED BY <1>3, <2>2, <3>1 DEF OrderInv, Order, FirstCome, SameLock
  <2> QED BY <1>2, <2>1, <2>2
<1>9. OfThePast' /\ EndingIsOver'
  BY SMTT(30), <1>1, <1>2, <1>3, <1>4 DEF OrderInv, Order, OfThePast, EndingIsOver, TypeOK
<1> QED BY <1>6, <1>7, <1>8, <1>9 DEF Order

\* The tables are empty and every turn is of the past.
LEMMA ClearOrder ==
  ASSUME OrderInv, ClearTables
  PROVE  Order'
<1>1. /\ queue' = {} /\ gen' = gen + 1 /\ UNCHANGED <<task, lockGen, pc, terminated>>
      /\ \A c \in Chats : active'[c] = None
  BY DEF ClearTables, turnVars
<1>2. gen \in Nat /\ \A h \in Accepted : lockGen[h] \in Nat
  BY AcceptedHandles DEF OrderInv, LockInv, TypeOK
<1>3. ActiveRuns' /\ QueuedIsOpen'
  BY <1>1 DEF ActiveRuns, QueuedIsOpen
<1>4. OpenIsQueued' /\ OfThePast'
  BY <1>1, <1>2 DEF OrderInv, Order, OpenIsQueued, OfThePast, Accepted
<1>5. FirstCome' /\ EndingIsOver'
  BY <1>1 DEF OrderInv, Order, FirstCome, EndingIsOver, SameLock, Chat, Accepted
<1> QED BY <1>3, <1>4, <1>5 DEF Order

\* The lock goes to the first of those that wait for it.
LEMMA TakeLockOrder ==
  ASSUME OrderInv, NEW h \in Accepted, TakeLock(h)
  PROVE  Order'
<1> USE DEF TakeLock, turnVars, routeVars, connVars
<1>1. TypeOK /\ h \in Handles /\ Accepted \subseteq Handles /\ Accepted \subseteq Nat
  BY AcceptedHandles DEF OrderInv, LockInv
<1>2. /\ pc[h] = "queued" /\ pc'[h] = "locked"
      /\ \A g \in Handles \ {h} : pc'[g] = pc[g]
      /\ UNCHANGED <<task, lockGen, gen, terminated, queue, active>>
  BY <1>1 DEF TypeOK
<1>3. Accepted' = Accepted /\ queue \subseteq Handles
      /\ \A c \in Chats : active[c] # None => active[c] \in Handles
  BY <1>1, <1>2 DEF Accepted, TypeOK
<1>4. ActiveRuns'
  BY <1>2, <1>3 DEF OrderInv, Order, ActiveRuns, RunningAt, Chat
<1>5. OpenIsQueued' /\ QueuedIsOpen'
  BY <1>1, <1>2, <1>3 DEF OrderInv, Order, OpenIsQueued, QueuedIsOpen, OpenAt
<1>6. FirstCome'
  <2> SUFFICES ASSUME NEW f \in Accepted, NEW g \in Accepted,
                      f < g, SameLock(f, g), pc'[f] = "queued"
               PROVE  pc'[g] = "queued"
    BY <1>2, <1>3 DEF FirstCome, SameLock, Chat
  <2>1. f # h /\ pc[f] = "queued"
    BY <1>1, <1>2
  <2>2. g # h
    <3>1. SameLock(f, h) => h <= f
      BY <2>1 DEF LockIsMine, Accepted
    <3> QED BY <1>1, <3>1
  <2> QED BY <1>1, <1>2, <2>1, <2>2 DEF OrderInv, Order, FirstCome
<1>7. OfThePast' /\ EndingIsOver'
  BY <1>1, <1>2, <1>3 DEF OrderInv, Order, OfThePast, EndingIsOver
<1> QED BY <1>4, <1>5, <1>6, <1>7 DEF Order

LEMMA StartOrder ==
  ASSUME OrderInv, NEW h \in Accepted, Start(h)
  PROVE  Order'
<1> USE DEF Start, turnVars, routeVars, connVars
<1>1. TypeOK /\ h \in Handles /\ Accepted \subseteq Handles /\ Chat(h) \in Chats
  BY AcceptedHandles DEF OrderInv, LockInv
<1>2. /\ pc[h] = "locked" /\ pc'[h] = "agent"
      /\ \A g \in Handles \ {h} : pc'[g] = pc[g]
      /\ active' = [active EXCEPT ![Chat(h)] = h]
      /\ UNCHANGED <<task, lockGen, gen, terminated, queue>>
  BY <1>1 DEF TypeOK
<1>3. /\ Accepted' = Accepted /\ queue \subseteq Handles
      /\ \A c \in Chats : active[c] # None => active[c] \in Handles
      /\ active'[Chat(h)] = h /\ \A c \in Chats \ {Chat(h)} : active'[c] = active[c]
  BY <1>1, <1>2 DEF Accepted, TypeOK
<1>4. ActiveRuns'
  BY <1>2, <1>3 DEF OrderInv, Order, ActiveRuns, RunningAt, Chat
<1>5. OpenIsQueued' /\ QueuedIsOpen'
  BY <1>1, <1>2, <1>3 DEF OrderInv, Order, OpenIsQueued, QueuedIsOpen, OpenAt
<1>6. FirstCome' /\ OfThePast' /\ EndingIsOver'
  BY <1>1, <1>2, <1>3
  DEF OrderInv, Order, FirstCome, SameLock, Chat, OfThePast, EndingIsOver
<1> QED BY <1>4, <1>5, <1>6 DEF Order

\* A dispatch that goes on keeps its place; one that leaves gives up both places.
LEMMA RunOrder ==
  ASSUME OrderInv, NEW h \in Accepted, RunStep(h)
  PROVE  Order'
<1>1. TypeOK /\ h \in Handles /\ Accepted \subseteq Handles /\ Chat(h) \in Chats
  BY AcceptedHandles DEF OrderInv, LockInv
<1>2. PICK to \in {"flush", "settle", "ending", "done"} :
        /\ pc[h] \in RunningAt
        /\ Moved(h, to)
        /\ UNCHANGED <<turnVars, gen>>
        /\ terminated \subseteq terminated'
        /\ to = "ending" => h \in terminated'
        /\ queue' = IF to \in {"flush", "settle"} THEN queue ELSE queue \ {h}
        /\ active' = IF to = "done" /\ active[Chat(h)] = h
                     THEN [active EXCEPT ![Chat(h)] = None] ELSE active
  BY DEF RunStep
<1>3. /\ pc'[h] = to /\ \A g \in Handles \ {h} : pc'[g] = pc[g]
      /\ UNCHANGED <<task, lockGen, gen>>
  BY <1>1, <1>2 DEF Moved, TypeOK, turnVars
<1>4. Accepted' = Accepted /\ queue \subseteq Handles
      /\ \A c \in Chats : active[c] # None => active[c] \in Handles
  BY <1>1, <1>3 DEF Accepted, TypeOK
<1>5. ActiveRuns'
  <2> SUFFICES ASSUME NEW c \in Chats, active'[c] # None
               PROVE  pc'[active'[c]] \in RunningAt /\ Chat(active'[c]) = c
    BY <1>3 DEF ActiveRuns, Chat
  <2>1. active'[c] = active[c]
    BY <1>1, <1>2 DEF TypeOK
  <2>2. to = "done" => active[c] # h
    BY <1>1, <1>2, <2>1 DEF TypeOK, OrderInv, Order, ActiveRuns
  <2> QED BY <1>2, <1>3, <1>4, <2>1, <2>2 DEF OrderInv, Order, ActiveRuns, RunningAt
<1>6. OpenIsQueued'
  BY <1>1, <1>2, <1>3, <1>4 DEF OrderInv, Order, OpenIsQueued, EndingIsOver, OpenAt, RunningAt
<1>7. QueuedIsOpen'
  BY <1>2, <1>3, <1>4 DEF OrderInv, Order, QueuedIsOpen, OpenAt
<1>8. FirstCome' /\ OfThePast' /\ EndingIsOver'
  BY <1>1, <1>2, <1>3, <1>4
  DEF OrderInv, Order, FirstCome, SameLock, Chat, OfThePast, EndingIsOver, RunningAt
<1> QED BY <1>5, <1>6, <1>7, <1>8 DEF Order

LEMMA OustOrder ==
  ASSUME OrderInv, NEW h \in Accepted, Oust(h)
  PROVE  Order'
BY DEF Oust, turnVars, OrderInv, Order, ActiveRuns, OpenIsQueued, QueuedIsOpen, FirstCome,
       OfThePast, EndingIsOver, SameLock, Chat, Accepted

LEMMA OrderStep == OrderInv /\ [Next]_vars => OrderInv'
<1> SUFFICES ASSUME OrderInv, [Next]_vars PROVE OrderInv'
  OBVIOUS
<1>1. LockInv'
  BY TypeStep, AwaitedStep, SerializedStep DEF OrderInv, LockInv
<1>2. CASE Still
  BY <1>1, <1>2
  DEF Still, turnVars, OrderInv, Order, ActiveRuns, OpenIsQueued, QueuedIsOpen, FirstCome,
      OfThePast, EndingIsOver, SameLock, Chat, Accepted
<1> QED BY <1>1, <1>2, StepOrder, AcceptOrder, ClearOrder, TakeLockOrder, StartOrder,
           RunOrder, OustOrder DEF OrderInv

LEMMA OrderInit == Init => OrderInv
<1> SUFFICES ASSUME Init PROVE OrderInv
  OBVIOUS
<1>1. TypeOK /\ Accepted = {} /\ queue = {} /\ \A c \in Chats : active[c] = None
  BY TypeInit DEF Init, Accepted
<1>2. AwaitedByDispatch /\ ChatSerialized
  BY DEF Init, AwaitedByDispatch, ChatSerialized, HasLock
<1> QED BY <1>1, <1>2
        DEF OrderInv, LockInv, Order, ActiveRuns, OpenIsQueued, QueuedIsOpen, FirstCome,
            OfThePast, EndingIsOver

\* The turn that runs is in its deque, all others in it wait, and they came later.
LEMMA RunningIsHead == OrderInv => InterruptHitsRunningTurn
<1> SUFFICES ASSUME OrderInv, NEW c \in Chats, active[c] # None,
                    active[c] \notin terminated, lockGen[active[c]] = gen
             PROVE  Peek(c) = active[c]
  BY DEF InterruptHitsRunningTurn
<1> DEFINE h == active[c]
<1>1. /\ TypeOK /\ h \in Accepted /\ Accepted \subseteq Handles /\ Accepted \subseteq Nat
      /\ queue \subseteq Accepted
  BY AcceptedHandles DEF OrderInv, LockInv, TypeOK, Accepted
<1>2. pc[h] \in RunningAt \ {"ending"} /\ Chat(h) = c
  BY <1>1 DEF OrderInv, Order, ActiveRuns, EndingIsOver
<1>3. h \in QueueOf(c) /\ h \in HasLock
  BY <1>1, <1>2 DEF OrderInv, Order, OpenIsQueued, QueueOf, RunningAt, OpenAt, HasLock
<1>4. ASSUME NEW g \in QueueOf(c), g < h PROVE FALSE
  <2>1. g \in Accepted /\ g \in Handles /\ g # h /\ SameLock(g, h) /\ pc[g] \in OpenAt
    BY <1>1, <1>2, <1>4 DEF QueueOf, OrderInv, Order, QueuedIsOpen, SameLock
  <2>2. pc[g] # "queued"
    BY <1>1, <1>2, <1>4, <2>1 DEF OrderInv, Order, FirstCome, RunningAt
  <2>3. g \in HasLock
    BY <2>1, <2>2 DEF OpenAt, HasLock
  <2> QED BY <1>3, <2>1, <2>3 DEF OrderInv, LockInv, ChatSerialized, SameLock
<1>5. Peek(c) \in QueueOf(c) /\ Peek(c) <= h
  <2>1. Peek(c) # None
    <3>1. Peek(c) = Oldest(QueueOf(c)) /\ QueueOf(c) # {}
      BY <1>3 DEF Peek
    <3>2. \E m \in QueueOf(c) : \A g \in QueueOf(c) : m <= g
      BY <1>1, <3>1, LeastNatural DEF QueueOf
    <3>3. Oldest(QueueOf(c)) \in QueueOf(c)
      BY <3>2 DEF Oldest
    <3> QED BY <1>1, <3>1, <3>3, AcceptedHandles DEF QueueOf
  <2> QED BY <1>1, <1>3, <2>1, PeekType
<1>6. Peek(c) \in Nat /\ h \in Nat /\ ~ (Peek(c) < h)
  BY <1>1, <1>4, <1>5 DEF QueueOf
<1> HIDE DEF h
<1>7. Peek(c) = h
  BY <1>5, <1>6
<1> QED BY <1>7 DEF h

\* An interrupt ends the turn that runs and none that waits behind it, as long
\* as that turn is not over and was accepted since the last disconnect.
THEOREM InterruptIsExact == Spec => []InterruptHitsRunningTurn
BY OrderInit, OrderStep, RunningIsHead, PTL DEF Spec
-----------------------------------------------------------------------------
(* A task has one turn.  Clients that do not repeat a POST see to it       *)
(* themselves; for the others the in-flight table and the idempotency      *)
(* cache do, if the cache holds every task and no end has to be delivered  *)
(* to a callback URL first.                                                *)

Remembers == CallbackTasks = {} /\ DedupCap >= Cardinality(Tasks)

Once == \A g, h \in Accepted : task[g] = task[h] => g = h

EndedIsCached == \A h \in terminated : Cached(task[h])
EachIsKnown == \A h \in Accepted : task[h] \in inflight \/ Cached(task[h])

Memory ==
  /\ TypeOK /\ PostsOnCallback /\ EndedIsCached
  /\ gen = 0 => EachIsKnown /\ Once

\* A cache with room for every task forgets none.
LEMMA PutIdemRoom ==
  ASSUME TypeOK, Remembers, NEW t \in Tasks, NEW result \in Results
  PROVE  /\ PutIdem(t, result).val[t] = result
         /\ \A u \in Tasks \ {t} : PutIdem(t, result).val[u] = idem.val[u]
<1> DEFINE d == Put(idem, t, result)
<1>1. /\ d \in Dict(Tasks, Results \cup {NoResult})
      /\ d.val = [idem.val EXCEPT ![t] = result]
  <2>1. /\ IsFiniteSet(Tasks) /\ idem \in Dict(Tasks, Results \cup {NoResult})
        /\ result \in Results \cup {NoResult}
    BY DEF TypeOK
  <2> QED BY ONLY <2>1, t \in Tasks, PutType
<1>2. idem.val \in [Tasks -> Results \cup {NoResult}]
  BY DEF TypeOK, Dict
<1>3. Cardinality(Tasks) \in Nat
  BY FS_CardinalityType
<1>4. CacheCap \in Nat /\ Cardinality(Tasks) <= CacheCap
  BY <1>3 DEF CacheCap, Remembers
<1>5. \A u \in Tasks : Trim(d, CacheCap, NoResult).val[u] = d.val[u]
  <2>1. IsFiniteSet(Tasks)
    OBVIOUS
  <2> DEFINE V == Results \cup {NoResult}
             cap == CacheCap
             none == NoResult
  <2>2. d \in Dict(Tasks, V) /\ cap \in Nat /\ Cardinality(Tasks) <= cap
    BY <1>1, <1>4
  <2> HIDE DEF d, V, cap, none
  <2>3. \A u \in Tasks : Trim(d, cap, none).val[u] = d.val[u]
    BY ONLY <2>1, <2>2, TrimRoom
  <2> QED BY <2>3 DEF cap, none
<1> HIDE DEF d
<1> QED BY <1>1, <1>2, <1>5 DEF PutIdem, d

\* What is cached stays, what goes out of flight or ends is cached, and what
\* ends goes out of flight.
Remember ==
  /\ UNCHANGED <<task, gen>> /\ inflight' \subseteq inflight
  /\ \A t \in Tasks : Cached(t) => Cached(t)'
  /\ \A t \in inflight \ inflight' : Cached(t)'
  /\ \A h \in terminated' \ terminated : Cached(task[h])' /\ task[h] \notin inflight'

LEMMA CacheRemembers ==
  ASSUME TypeOK, Remembers, NEW t \in Tasks, NEW result \in Results,
         idem' = PutIdem(t, result)
  PROVE  Cached(t)' /\ \A u \in Tasks : Cached(u) => Cached(u)'
BY PutIdemRoom DEF Cached, Results, Terminals, NoResult

LEMMA FinallyRemembers ==
  ASSUME TypeOK, Remembers, EndedIsCached, NEW h \in Accepted, Finally(h),
         UNCHANGED <<task, gen>>
  PROVE  Remember
<1>1. task[h] \in Tasks /\ "silent" \in Results
  BY AcceptedHandles DEF Results, Terminals
<1>2. inflight' = inflight \ {task[h]} /\ terminated' = terminated
  BY DEF Finally, Leave
<1>3. Cached(task[h])' /\ \A u \in Tasks : Cached(u) => Cached(u)'
  <2>1. CASE h \notin terminated /\ ~ Cached(task[h])
    BY <1>1, <2>1, CacheRemembers DEF Finally
  <2>2. CASE h \in terminated \/ Cached(task[h])
    BY <2>2 DEF Finally, EndedIsCached, Cached
  <2> QED BY <2>1, <2>2
<1> QED BY <1>2, <1>3 DEF Remember

LEMMA EndTurnRemembers ==
  ASSUME TypeOK, Remembers, NEW h \in Accepted, NEW status \in Terminals,
         EndTurn(h, status), UNCHANGED <<task, gen>>
  PROVE  Remember
<1>1. task[h] \in Tasks /\ status \in Results /\ OnStream(h)
  BY AcceptedHandles DEF Results, OnStream, Remembers
<1>2. /\ inflight' = inflight \ {task[h]} /\ terminated' = terminated \cup {h}
      /\ idem' = PutIdem(task[h], status)
  BY <1>1 DEF EndTurn, Leave, Release
<1> QED BY <1>1, <1>2, CacheRemembers DEF Remember

LEMMA TerminateRemembers ==
  ASSUME TypeOK, Remembers, NEW h \in Accepted, NEW by,
         TerminateFrom(h, by), UNCHANGED <<task, gen>>
  PROVE  Remember
<1>1. task[h] \in Tasks /\ "silent" \in Results /\ OnStream(h)
  BY AcceptedHandles DEF Results, Terminals, OnStream, Remembers
<1>2. /\ inflight' = inflight \ {task[h]} /\ terminated' = terminated \cup {h}
      /\ idem' = PutIdem(task[h], "silent")
  BY <1>1 DEF TerminateFrom, Release
<1> QED BY <1>1, <1>2, CacheRemembers DEF Remember
LEMMA AgentReturnsRemembers ==
  ASSUME TypeOK, Remembers, EndedIsCached, NEW h \in Accepted, AgentReturns(h)
  PROVE  Remember
<1>1. /\ task[h] \in Tasks /\ {"silent", "message"} \subseteq Results /\ OnStream(h)
      /\ UNCHANGED <<task, gen>>
  BY AcceptedHandles DEF Results, Terminals, OnStream, Remembers, AgentReturns, turnVars, connVars
<1>2. CASE UNCHANGED <<terminated, idem, inflight>>
  BY <1>1, <1>2 DEF Remember, Cached
<1>3. CASE Finally(h)
  BY <1>1, <1>3, FinallyRemembers
<1>4. CASE /\ terminated' = terminated /\ inflight' = inflight \ {task[h]}
           /\ idem' = IF task[h] \in pending THEN PutIdem(task[h], "message")
                      ELSE IF Cached(task[h]) THEN idem ELSE PutIdem(task[h], "silent")
  <2>1. CASE idem' = PutIdem(task[h], "message") \/ idem' = PutIdem(task[h], "silent")
    BY <1>1, <1>4, <2>1, CacheRemembers DEF Remember
  <2>2. CASE idem' = idem /\ Cached(task[h])
    BY <1>4, <1>1, <2>2 DEF Remember, Cached
  <2> QED BY <1>4, <2>1, <2>2
<1> QED BY <1>1, <1>2, <1>3, <1>4 DEF AgentReturns, Leave

LEMMA SendRemembers ==
  ASSUME TypeOK, Remembers, NEW h \in Slots, NEW kind, SendTo(h, kind)
  PROVE  Remember
<1>1. UNCHANGED <<task, gen, terminated, inflight>>
  BY DEF SendTo, turnVars, connVars
<1>2. CASE idem' = idem
  BY <1>1, <1>2 DEF Remember, Cached
<1>3. CASE h # None /\ idem' = PutIdem(task[h], "message")
  <2>1. task[h] \in Tasks /\ "message" \in Results
    BY <1>3, AcceptedHandles DEF Slots, Results
  <2> QED BY <1>1, <1>3, <2>1, CacheRemembers DEF Remember
<1> QED BY <1>2, <1>3 DEF SendTo, Deliver

\* Without callback deliveries a step is one of these.
LEMMA StepRemembers ==
  ASSUME TypeOK, PostsOnCallback, Remembers, EndedIsCached, [Next]_vars
  PROVE  (\E t \in Tasks : Accept(t)) \/ ClearTables \/ Remember
<1>1. posts = {}
  BY DEF PostsOnCallback, Remembers, OnStream
<1>2. ASSUME NEW t \in Tasks, DrainTask(t) PROVE Remember
  <2>1. callbacks.val[t] \in Slots
    BY DEF TypeOK, Dict, Slots, Accepted
  <2>2. CASE callbacks.val[t] \in Accepted /\ TerminateFrom(callbacks.val[t], "disconnect")
    BY <1>2, <2>2, TerminateRemembers DEF DrainTask, turnVars
  <2>3. CASE UNCHANGED <<idem, inflight, terminated>>
    BY <1>2, <2>3 DEF DrainTask, turnVars, Remember, Cached
  <2> QED BY <1>2, <2>1, <2>2, <2>3 DEF DrainTask, Slots
<1>3. ASSUME NEW c \in Chats, Interrupt(c) PROVE Remember
  BY <1>3, PeekType, TerminateRemembers DEF Interrupt, Slots, turnVars, connVars
<1>4. ASSUME NEW h \in Accepted, Dispatch(h) PROVE Remember
  <2>1. CASE TakeLock(h) \/ Start(h)
    BY <2>1 DEF TakeLock, Start, turnVars, connVars, Remember, Cached
  <2>2. CASE AgentFails(h) \/ Settle(h)
    <3>1. /\ Finally(h) \/ \E status \in Terminals : EndTurn(h, status)
          /\ UNCHANGED <<task, gen>>
      BY <2>2 DEF AgentFails, Settle, turnVars, connVars, Terminals
    <3> QED BY <3>1, FinallyRemembers, EndTurnRemembers
  <2> QED BY <1>4, <2>1, <2>2, AgentReturnsRemembers DEF Dispatch
<1>5. ASSUME NEW t \in Tasks, Duplicate(t) PROVE Remember
  <2>1. idem'.val = idem.val
    BY <1>5 DEF Duplicate, Promote
  <2> QED BY <1>5, <2>1 DEF Duplicate, turnVars, connVars, Remember, Cached
<1>6. ASSUME NEW h \in Accepted, NEW kind \in SendKinds, AgentSend(h, kind) PROVE Remember
  BY <1>6, AcceptedHandles, ResolveType, SendRemembers DEF AgentSend
<1>7. ASSUME NEW c \in Chats, NEW kind \in SendKinds, ChatSend(c, kind) PROVE Remember
  BY <1>7, ResolveType, SendRemembers DEF ChatSend
<1>8. ASSUME \/ UNCHANGED vars \/ \E s \in PreludeSessions : StashPrelude(s)
             \/ BeginDisconnect \/ StopListening \/ Connect
      PROVE  Remember
  BY <1>8 DEF vars, StashPrelude, BeginDisconnect, StopListening, Connect, turnVars, connVars,
              Remember, Cached
<1> QED BY <1>1, <1>2, <1>3, <1>4, <1>5, <1>6, <1>7, <1>8 DEF Next, Accepted

\* What an accepted POST does to the table of handles.
LEMMA AcceptIs ==
  ASSUME TypeOK, NEW t \in Tasks, Accept(t)
  PROVE  \E n \in Handles :
           /\ n = Len(task) + 1
           /\ n \notin Accepted /\ Accepted' = Accepted \cup {n} /\ task'[n] = t
           /\ \A h \in Accepted : task'[h] = task[h] /\ lockGen'[h] = lockGen[h] /\ pc'[h] = pc[h]
           /\ pc'[n] = "queued" /\ lockGen'[n] = gen
           /\ \A h \in Accepted : n > h
<1> DEFINE n == Len(task) + 1
<1>1. /\ Accepted = 1..Len(task) /\ Len(task) \in Nat
      /\ Accepted \subseteq Handles /\ n \in Handles
  BY AcceptedHandles DEF Accept, Handles
<1>2. /\ task' \in Seq(Tasks) /\ Len(task') = n /\ task'[n] = t
      /\ \A h \in 1..Len(task) : task'[h] = task[h]
  BY AppendProperties DEF Accept, TypeOK
<1>3. Accepted' = 1..Len(task')
  BY <1>2, LenProperties DEF Accepted
<1>4. Accepted' = Accepted \cup {n} /\ n \notin Accepted
  BY <1>1, <1>2, <1>3
<1>5. pc' = [pc EXCEPT ![n] = "queued"] /\ lockGen' = [lockGen EXCEPT ![n] = gen]
  BY DEF Accept
<1>6. /\ \A h \in Accepted : lockGen'[h] = lockGen[h] /\ pc'[h] = pc[h]
      /\ pc'[n] = "queued" /\ lockGen'[n] = gen
  BY <1>1, <1>4, <1>5 DEF TypeOK
<1> QED BY <1>1, <1>2, <1>4, <1>6

LEMMA MemoryStep == Remembers /\ Memory /\ EndInv /\ [Next]_vars => Memory'
<1> SUFFICES ASSUME Remembers, Memory, EndInv, [Next]_vars PROVE Memory'
  OBVIOUS
<1>1. TypeOK' /\ PostsOnCallback' /\ TypeOK /\ gen \in Nat
  BY EndStep DEF EndInv, TypeOK
<1>2. terminated \subseteq Accepted /\ \A h \in Accepted : task[h] \in Tasks
  BY AcceptedHandles DEF Memory, TypeOK, Accepted
<1>3. CASE Remember
  <2>1. Accepted' = Accepted /\ task' = task /\ gen' = gen
    BY <1>3 DEF Remember, Accepted
  <2>2. EndedIsCached'
    BY <1>1, <1>2, <1>3, <2>1 DEF Memory, EndedIsCached, Remember, Cached, TypeOK, Accepted
  <2>3. gen = 0 => EachIsKnown' /\ Once'
    BY <1>2, <1>3, <2>1 DEF Memory, EachIsKnown, Once, Remember
  <2> QED BY <1>1, <2>1, <2>2, <2>3 DEF Memory
<1>4. ASSUME NEW t \in Tasks, Accept(t) PROVE Memory'
  <2>1. PICK n \in Handles :
          /\ n \notin Accepted /\ Accepted' = Accepted \cup {n} /\ task'[n] = t
          /\ \A h \in Accepted : task'[h] = task[h]
    BY <1>1, <1>4, AcceptIs
  <2>2. /\ ~ Cached(t) /\ t \notin inflight /\ inflight' = inflight \cup {t}
        /\ UNCHANGED <<idem, terminated, gen>>
    BY <1>4 DEF Accept, connVars
  <2>3. EndedIsCached'
    BY <1>2, <2>1, <2>2 DEF Memory, EndedIsCached, Cached
  <2>4. gen = 0 => \A h \in Accepted : task[h] # t
    BY <2>2 DEF Memory, EachIsKnown
  <2>5. gen = 0 => EachIsKnown' /\ Once'
    BY <2>1, <2>2, <2>4 DEF Memory, EachIsKnown, Once, Cached
  <2> QED BY <1>1, <2>2, <2>3, <2>5 DEF Memory
<1>5. CASE ClearTables
  <2>1. gen' # 0 /\ UNCHANGED <<idem, terminated, task>>
    BY <1>1, <1>5 DEF ClearTables, turnVars
  <2> QED BY <1>1, <2>1 DEF Memory, EndedIsCached, Cached
<1> QED BY <1>1, <1>3, <1>4, <1>5, StepRemembers DEF Memory

\* A client that never repeats a task.
LEMMA PatientOnce ==
  ASSUME ~ ClientRetries, TypeOK, Once, [Next]_vars
  PROVE  Once'
<1>1. CASE UNCHANGED task
  BY <1>1 DEF Once, Accepted
<1>2. ASSUME NEW t \in Tasks, Accept(t) PROVE Once'
  <2>1. PICK n \in Handles :
          /\ n \notin Accepted /\ Accepted' = Accepted \cup {n} /\ task'[n] = t
          /\ \A h \in Accepted : task'[h] = task[h]
    BY <1>2, AcceptIs
  <2>2. \A h \in Accepted : task[h] # t
    BY <1>2 DEF Accept, Accepted
  <2> QED BY <2>1, <2>2 DEF Once
<1>3. UNCHANGED task \/ \E t \in Tasks : Accept(t)
  BY DEF Next, vars, turnVars, Duplicate, DrainTask, StashPrelude, AgentSend, ChatSend,
         SendTo, Interrupt, Receive, BeginDisconnect, StopListening, ClearTables, Connect,
         Dispatch, TakeLock, Start, AgentReturns, AgentFails, Settle, PostReturns,
         SendReturns, FlushReturns, EndingReturns, TerminateReturns
<1> QED BY <1>1, <1>2, <1>3

LEMMA OnceInit == Init => Once /\ Memory
<1> SUFFICES ASSUME Init PROVE Once /\ Memory
  OBVIOUS
<1>1. Accepted = {}
  BY DEF Init, Accepted
<1> QED BY <1>1, EndInit DEF Init, EndInv, Memory, Once, EachIsKnown, EndedIsCached

\* A repeated POST starts no second turn of a task, in any interleaving with the
\* end of the first: either clients do not repeat themselves, or every turn ends
\* on the stream and the idempotency cache has room for all tasks.
THEOREM OneTurnPerTask ==
  ASSUME ~ ClientRetries \/ Remembers
  PROVE  Spec => []TaskRunsOnce
<1>1. CASE ~ ClientRetries
  <2>1. TypeOK /\ Once /\ [Next]_vars => Once'
    BY <1>1, PatientOnce
  <2>2. Once => TaskRunsOnce
    BY DEF Once, TaskRunsOnce, Accepted
  <2> QED BY <2>1, <2>2, OnceInit, TypeCorrect, PTL DEF Spec
<1>2. CASE Remembers
  <2>1. Memory /\ EndInv /\ [Next]_vars => Memory'
    BY <1>2, MemoryStep
  <2>2. Memory => TaskRunsOnce
    BY DEF Memory, Once, TaskRunsOnce, Accepted
  <2> QED BY <2>1, <2>2, OnceInit, EndAlways, PTL DEF Spec
<1> QED BY <1>1, <1>2
-----------------------------------------------------------------------------
(* The in-flight table is exact as long as no task had two turns: the end  *)
(* of one turn takes the task out, whoever else uses it.                   *)

\* The turns of gone leave the table, and with them their deliveries.
Frees(gone) ==
  /\ UNCHANGED <<task, gen>>
  /\ terminated \subseteq terminated'
  /\ inflight' = inflight \ {task[h] : h \in gone}
  /\ \A h \in gone : pc'[h] = "done" \/ h \in terminated'
  /\ \A h \in Accepted : pc[h] = "done" => pc'[h] = "done"
  /\ \A h \in Accepted \ gone : pc'[h] = "done" => pc[h] = "done"
  /\ \A p \in posts : p.by \in {"interrupt", "disconnect"} /\ p.handle \notin gone =>
       \E q \in posts' : q.handle = p.handle /\ q.by = p.by

FreesSome == \E gone \in SUBSET Accepted : Frees(gone)

LEMMA FreesNone ==
  ASSUME UNCHANGED <<task, gen, inflight, pc>>, terminated \subseteq terminated',
         \A p \in posts : \E q \in posts' : q.handle = p.handle /\ q.by = p.by
  PROVE  FreesSome
<1>1. Frees({})
  BY DEF Frees
<1> QED BY <1>1 DEF FreesSome

\* A dispatch goes on.
LEMMA MoveFrees ==
  ASSUME TypeOK, NEW h \in Accepted, pc[h] # "done", NEW to, to # "done", Moved(h, to),
         UNCHANGED <<task, gen, inflight>>, terminated \subseteq terminated',
         \A p \in posts : p.by \in {"interrupt", "disconnect"} => p \in posts'
  PROVE  FreesSome
<1>1. \A g \in Accepted : pc'[g] = "done" <=> pc[g] = "done"
  BY AcceptedHandles DEF Moved, TypeOK
<1>2. Frees({})
  BY <1>1 DEF Frees
<1> QED BY <1>2 DEF FreesSome

\* A dispatch leaves.
LEMMA LeaveFrees ==
  ASSUME TypeOK, NEW h \in Accepted, Leave(h), UNCHANGED <<task, gen>>,
         terminated \subseteq terminated',
         \A p \in posts : p.by \in {"interrupt", "disconnect"} => p \in posts'
  PROVE  FreesSome
<1>1. pc'[h] = "done" /\ \A g \in Accepted \ {h} : pc'[g] = pc[g]
  BY AcceptedHandles DEF Leave, TypeOK
<1>2. Frees({h})
  BY <1>1 DEF Frees, Leave
<1> QED BY <1>2 DEF FreesSome

\* A turn is ended from outside its dispatch.
LEMMA TerminateFrees ==
  ASSUME TypeOK, NEW h \in Accepted, NEW by, TerminateFrom(h, by), UNCHANGED <<task, gen>>
  PROVE  FreesSome
<1>1. CASE OnStream(h)
  <2>1. Frees({h})
    BY <1>1 DEF TerminateFrom, Release, Frees
  <2> QED BY <2>1 DEF FreesSome
<1>2. CASE ~ OnStream(h)
  BY <1>2, FreesNone DEF TerminateFrom, Release
<1> QED BY <1>1, <1>2

LEMMA EndTurnFrees ==
  ASSUME TypeOK, NEW h \in Accepted, NEW status, EndTurn(h, status), pc[h] # "done",
         UNCHANGED <<task, gen>>
  PROVE  FreesSome
<1>1. CASE OnStream(h)
  BY <1>1, LeaveFrees DEF EndTurn, Release
<1>2. CASE ~ OnStream(h)
  BY <1>2, MoveFrees DEF EndTurn, Release, Moved
<1> QED BY <1>1, <1>2

LEMMA DispatchFrees ==
  ASSUME TypeOK, NEW h \in Accepted, Dispatch(h)
  PROVE  FreesSome
<1>1. CASE TakeLock(h)
  BY <1>1, MoveFrees DEF TakeLock, turnVars, connVars, Moved
<1>2. CASE Start(h)
  BY <1>2, MoveFrees DEF Start, turnVars, connVars, Moved
<1>3. CASE AgentReturns(h)
  <2>1. pc[h] # "done" /\ UNCHANGED <<task, gen>>
    BY <1>3 DEF AgentReturns, turnVars, connVars
  <2>2. CASE ~ Reasoning(h)
    BY <1>3, <2>1, <2>2, MoveFrees DEF AgentReturns, Moved
  <2>3. CASE Reasoning(h) /\ Over(h)
    BY <1>3, <2>1, <2>3, LeaveFrees DEF AgentReturns, Finally
  <2>4. CASE Reasoning(h) /\ ~ Over(h) /\ task[h] \in pending /\ ~ OnStream(h)
    BY <1>3, <2>1, <2>4, MoveFrees DEF AgentReturns, Moved
  <2>5. CASE Reasoning(h) /\ ~ Over(h) /\ ~ (task[h] \in pending /\ ~ OnStream(h))
    BY <1>3, <2>1, <2>5, LeaveFrees DEF AgentReturns
  <2> QED BY <2>2, <2>3, <2>4, <2>5
<1>4. CASE AgentFails(h) \/ Settle(h)
  <2>1. /\ Finally(h) \/ \E status \in Terminals : EndTurn(h, status)
        /\ UNCHANGED <<task, gen>> /\ pc[h] # "done"
    BY <1>4 DEF AgentFails, Settle, turnVars, connVars, Terminals
  <2>2. CASE Finally(h)
    BY <2>1, <2>2, LeaveFrees DEF Finally
  <2> QED BY <2>1, <2>2, EndTurnFrees
<1> QED BY <1>1, <1>2, <1>3, <1>4 DEF Dispatch

LEMMA PostReturnsFrees ==
  ASSUME EndInv, OrderInv, NEW p \in posts, PostReturns(p)
  PROVE  FreesSome
<1>1. PICK ok \in {p.got, FALSE} :
         \/ SendReturns(p, ok) \/ FlushReturns(p, ok)
         \/ EndingReturns(p, ok) \/ TerminateReturns(p, ok)
  BY DEF PostReturns
<1> DEFINE h == p.handle
<1>2. h \in Accepted /\ TypeOK
  BY DEF EndInv, TypeOK, Posts, Accepted
<1>3. CASE SendReturns(p, ok)
  <2>1. Frees({})
    BY <1>3 DEF SendReturns, turnVars, connVars, Frees
  <2> QED BY <2>1 DEF FreesSome
<1>4. CASE FlushReturns(p, ok)
  <2>1. pc[h] # "done" /\ p.by = "flush" /\ UNCHANGED <<task, gen>>
    BY <1>4 DEF FlushReturns, OrderInv, LockInv, AwaitedByDispatch, turnVars, connVars
  <2>2. CASE ok \/ Over(h)
    BY <1>2, <1>4, <2>1, <2>2, LeaveFrees DEF FlushReturns
  <2>3. CASE ~ ok /\ ~ Over(h)
    BY <1>2, <1>4, <2>1, <2>3, MoveFrees DEF FlushReturns, Release, Moved
  <2> QED BY <2>2, <2>3
<1>5. CASE EndingReturns(p, ok)
  BY <1>2, <1>5, LeaveFrees DEF EndingReturns, turnVars, connVars
<1>6. CASE TerminateReturns(p, ok)
  <2>1. p.kind \in Terminals
    BY <1>2, <1>6 DEF TerminateReturns, TypeOK, Posts, PostKinds
  <2>2. h \in terminated
    BY <2>1 DEF EndInv, PostedIsOver
  <2>3. Frees({h})
    BY <1>6, <2>2 DEF TerminateReturns, turnVars, connVars, Frees
  <2> QED BY <1>2, <2>3 DEF FreesSome
<1> QED BY <1>1, <1>3, <1>4, <1>5, <1>6

LEMMA StepFrees ==
  ASSUME EndInv, OrderInv, [Next]_vars
  PROVE  (\E t \in Tasks : Accept(t)) \/ ClearTables \/ FreesSome
<1>1. TypeOK
  BY DEF EndInv
<1>2. ASSUME NEW t \in Tasks, DrainTask(t) PROVE FreesSome
  <2>1. callbacks.val[t] \in Slots
    BY <1>1 DEF TypeOK, Dict, Slots, Accepted
  <2>2. CASE callbacks.val[t] \in Accepted /\ TerminateFrom(callbacks.val[t], "disconnect")
    BY <1>1, <1>2, <2>2, TerminateFrees DEF DrainTask, turnVars
  <2>3. CASE UNCHANGED <<inflight, terminated, pc, posts>>
    BY <1>2, <2>3, FreesNone DEF DrainTask, turnVars
  <2> QED BY <1>2, <2>1, <2>2, <2>3 DEF DrainTask, Slots
<1>3. ASSUME NEW c \in Chats, Interrupt(c) PROVE FreesSome
  BY <1>1, <1>3, PeekType, TerminateFrees DEF Interrupt, Slots, turnVars, connVars
<1>4. ASSUME NEW h, NEW kind, SendTo(h, kind) PROVE FreesSome
  BY <1>4, FreesNone DEF SendTo, Deliver, turnVars, connVars
<1>5. ASSUME NEW p \in posts, Receive(p) PROVE FreesSome
  <2>1. [p EXCEPT !.got = TRUE].handle = p.handle /\ [p EXCEPT !.got = TRUE].by = p.by
    BY <1>1 DEF TypeOK, Posts
  <2>2. \A r \in posts : \E q \in posts' : q.handle = r.handle /\ q.by = r.by
    BY <1>5, <2>1 DEF Receive
  <2> QED BY <1>5, <2>2, FreesNone DEF Receive, turnVars, connVars
<1>6. ASSUME \/ UNCHANGED vars \/ \E s \in PreludeSessions : StashPrelude(s)
             \/ \E t \in Tasks : Duplicate(t)
             \/ BeginDisconnect \/ StopListening \/ Connect
      PROVE  FreesSome
  BY <1>6, FreesNone DEF vars, StashPrelude, Duplicate, BeginDisconnect, StopListening,
                         Connect, turnVars, connVars
<1> QED BY <1>1, <1>2, <1>3, <1>4, <1>5, <1>6, DispatchFrees, PostReturnsFrees
        DEF Next, Accepted, AgentSend, ChatSend

LEMMA FreesExactly ==
  ASSUME TypeOK, Once, InflightAccurate, gen = 0, FreesSome
  PROVE  InflightAccurate'
<1>1. PICK gone \in SUBSET Accepted : Frees(gone)
  BY DEF FreesSome
<1>2. Accepted' = Accepted /\ task' = task
  BY <1>1 DEF Frees, Accepted
<1>3. ASSUME NEW g \in Accepted, pc'[g] # "done", g \notin terminated'
      PROVE  task[g] \in inflight'
  <2>1. task[g] \in inflight
    BY <1>1, <1>3 DEF Frees, InflightAccurate, Accepted
  <2>2. \A h \in gone : task[h] # task[g]
    BY <1>1, <1>3 DEF Frees, Once
  <2> QED BY <1>1, <2>1, <2>2 DEF Frees
<1>4. ASSUME NEW t \in inflight'
      PROVE  \E h \in Accepted :
               /\ task[h] = t
               /\ \/ pc'[h] # "done"
                  \/ \E p \in posts' : p.handle = h /\ p.by \in {"interrupt", "disconnect"}
  <2>1. t \in inflight /\ \A h \in gone : task[h] # t
    BY <1>1, <1>4 DEF Frees
  <2>2. PICK h \in Accepted :
          /\ task[h] = t
          /\ \/ pc[h] # "done"
             \/ \E p \in posts : p.handle = h /\ p.by \in {"interrupt", "disconnect"}
    BY <2>1 DEF InflightAccurate, Accepted
  <2>3. h \notin gone
    BY <2>1, <2>2
  <2> QED BY <1>1, <2>2, <2>3 DEF Frees
<1> QED BY <1>2, <1>3, <1>4 DEF InflightAccurate, Accepted

LEMMA AcceptExactly ==
  ASSUME TypeOK, InflightAccurate, gen = 0, NEW t \in Tasks, Accept(t)
  PROVE  InflightAccurate'
<1>1. PICK n \in Handles :
        /\ n \notin Accepted /\ Accepted' = Accepted \cup {n} /\ task'[n] = t
        /\ \A h \in Accepted : task'[h] = task[h] /\ pc'[h] = pc[h]
        /\ pc'[n] = "queued"
  BY AcceptIs
<1>2. inflight' = inflight \cup {t} /\ UNCHANGED <<posts, terminated>>
  BY DEF Accept
<1>3. ASSUME NEW h \in Accepted', pc'[h] # "done", h \notin terminated'
      PROVE  task'[h] \in inflight'
  BY <1>1, <1>2, <1>3 DEF InflightAccurate, Accepted
<1>4. ASSUME NEW u \in inflight'
      PROVE  \E h \in Accepted' :
               /\ task'[h] = u
               /\ \/ pc'[h] # "done"
                  \/ \E p \in posts : p.handle = h /\ p.by \in {"interrupt", "disconnect"}
  <2>1. CASE u = t
    BY <1>1, <2>1
  <2>2. CASE u \in inflight
    <3>1. PICK h \in Accepted :
            /\ task[h] = u
            /\ \/ pc[h] # "done"
               \/ \E p \in posts : p.handle = h /\ p.by \in {"interrupt", "disconnect"}
      BY <2>2 DEF InflightAccurate, Accepted
    <3> QED BY <1>1, <3>1
  <2> QED BY <1>2, <1>4, <2>1, <2>2
<1> QED BY <1>2, <1>3, <1>4 DEF InflightAccurate, Accepted

\* A task that had two turns goes on having had them.
LEMMA OnceBefore == TypeOK /\ [Next]_vars /\ Once' => Once
BY AcceptedStays DEF Once

Flight == Once => InflightAccurate

LEMMA FlightStep == Flight /\ EndInv /\ OrderInv /\ [Next]_vars => Flight'
<1> SUFFICES ASSUME Flight, EndInv, OrderInv, [Next]_vars, Once'
             PROVE  InflightAccurate'
  BY DEF Flight
<1>1. TypeOK /\ gen \in Nat
  BY DEF EndInv, TypeOK
<1>2. Once /\ InflightAccurate
  BY <1>1, OnceBefore DEF Flight
<1>3. ASSUME NEW t \in Tasks, Accept(t) PROVE InflightAccurate'
  <2>1. gen' = gen
    BY <1>3 DEF Accept, connVars
  <2>2. CASE gen = 0
    BY <1>1, <1>2, <1>3, <2>2, AcceptExactly
  <2> QED BY <2>1, <2>2 DEF InflightAccurate
<1>4. CASE ClearTables
  <2>1. gen' # 0
    BY <1>1, <1>4 DEF ClearTables
  <2> QED BY <2>1 DEF InflightAccurate
<1>5. CASE FreesSome
  <2>1. gen' = gen
    BY <1>5 DEF FreesSome, Frees
  <2>2. CASE gen = 0
    BY <1>1, <1>2, <1>5, <2>2, FreesExactly
  <2> QED BY <2>1, <2>2 DEF InflightAccurate
<1> QED BY <1>3, <1>4, <1>5, StepFrees

LEMMA OrderAlways == Spec => []OrderInv
BY OrderInit, OrderStep, PTL DEF Spec

LEMMA FlightAlways == Spec => []Flight
<1>1. Init => Flight
  BY DEF Init, Flight, InflightAccurate
<1> QED BY <1>1, FlightStep, EndAlways, OrderAlways, PTL DEF Spec

\* inflight holds the tasks whose turn is not over and no others, wherever the
\* turn ends, unless a task was accepted a second time.
THEOREM InFlightIsExact ==
  ASSUME ~ ClientRetries \/ Remembers
  PROVE  Spec => []InflightAccurate
<1>1. TaskRunsOnce /\ Flight => InflightAccurate
  BY DEF TaskRunsOnce, Flight, Once, InflightAccurate, Accepted
<1> QED BY <1>1, FlightAlways, OneTurnPerTask, PTL
-----------------------------------------------------------------------------
(* The two tables a reply is resolved with, _task_callbacks and            *)
(* _closed_turns, hold every turn that can still reply, if they have room  *)
(* for all tasks and no task had two turns.                                *)

Roomy == DedupCap >= Cardinality(Tasks)

Registered ==
  /\ InOrder(callbacks)
  /\ \A h \in Accepted : lockGen[h] = gen /\ h \notin terminated =>
       callbacks.val[task[h]] = h /\ task[h] \in Keys(callbacks)
  /\ \A h \in terminated : callbacks.val[task[h]] = None /\ closed.val[task[h]] = h

\* The turn of h ends: it moves from one table to the other.
Moves(h) == h \notin terminated /\ Release(h) /\ UNCHANGED <<task, lockGen, gen>>

\* The tables stay, and only a turn that is not over is buffered or marked.
Keeps ==
  /\ UNCHANGED <<task, lockGen, gen, callbacks, closed, terminated>>
  /\ \A t \in (pending' \cup flushed') \ (pending \cup flushed) :
       \E h \in Accepted \ terminated : task[h] = t

LEMMA TablesKept ==
  ASSUME UNCHANGED <<task, lockGen, gen, callbacks, closed, terminated>>,
         pending' \subseteq pending, flushed' \subseteq flushed
  PROVE  Keeps
BY DEF Keeps

LEMMA DispatchMoves ==
  ASSUME TypeOK, NEW h \in Accepted, Dispatch(h)
  PROVE  Moves(h) \/ Keeps
<1>1. CASE TakeLock(h) \/ Start(h)
  BY <1>1, TablesKept DEF TakeLock, Start, turnVars, routeVars, connVars
<1>2. CASE AgentReturns(h)
  <2>1. CASE Reasoning(h) /\ ~ Over(h)
    BY <1>2, <2>1 DEF AgentReturns, Keeps, Over, turnVars, connVars
  <2>2. CASE ~ Reasoning(h)
    BY <1>2, <2>2, TablesKept DEF AgentReturns, turnVars, routeVars, connVars
  <2>3. CASE Reasoning(h) /\ Over(h)
    BY <1>2, <2>3, TablesKept DEF AgentReturns, Finally, turnVars, connVars
  <2> QED BY <2>1, <2>2, <2>3
<1>3. CASE AgentFails(h) \/ Settle(h)
  <2>1. /\ Finally(h) \/ (h \notin terminated /\ \E status \in Terminals : EndTurn(h, status))
        /\ UNCHANGED <<task, lockGen, gen>>
    BY <1>3 DEF AgentFails, Settle, turnVars, connVars, Terminals, Over
  <2>2. CASE Finally(h)
    BY <2>1, <2>2, TablesKept DEF Finally
  <2> QED BY <2>1, <2>2 DEF EndTurn, Moves
<1> QED BY <1>1, <1>2, <1>3 DEF Dispatch

LEMMA SendMoves ==
  ASSUME TypeOK, NEW h \in Slots, NEW kind, SendTo(h, kind)
  PROVE  Keeps
<1>1. UNCHANGED <<task, lockGen, gen, callbacks, closed, terminated, flushed>>
  BY DEF SendTo, turnVars, connVars
<1>2. CASE pending' = pending
  BY <1>1, <1>2, TablesKept
<1>3. CASE h # None /\ Buffers(h, kind) /\ pending' = pending \cup {task[h]}
  BY <1>1, <1>3 DEF Keeps, Buffers, Over, Slots
<1> QED BY <1>2, <1>3 DEF SendTo, Deliver

LEMMA PostReturnsMoves ==
  ASSUME TypeOK, NEW p \in posts, PostReturns(p)
  PROVE  Keeps \/ \E h \in Accepted : Moves(h)
<1>1. PICK ok \in {p.got, FALSE} :
         \/ SendReturns(p, ok) \/ FlushReturns(p, ok)
         \/ EndingReturns(p, ok) \/ TerminateReturns(p, ok)
  BY DEF PostReturns
<1>2. p.handle \in Accepted
  BY DEF TypeOK, Posts, Accepted
<1>3. CASE SendReturns(p, ok) \/ TerminateReturns(p, ok)
  BY <1>3, TablesKept DEF SendReturns, TerminateReturns, turnVars, routeVars, connVars
<1>4. CASE FlushReturns(p, ok)
  <2>1. UNCHANGED <<task, lockGen, gen>>
    BY <1>4 DEF FlushReturns, turnVars, connVars
  <2>2. CASE ok \/ Over(p.handle)
    BY <1>4, <2>1, <2>2, TablesKept DEF FlushReturns
  <2>3. CASE ~ ok /\ ~ Over(p.handle)
    BY <1>2, <1>4, <2>1, <2>3 DEF FlushReturns, Moves, Over
  <2> QED BY <2>2, <2>3
<1>5. CASE EndingReturns(p, ok)
  BY <1>5, TablesKept DEF EndingReturns, turnVars, connVars
<1> QED BY <1>1, <1>3, <1>4, <1>5

LEMMA StepMoves ==
  ASSUME TypeOK, [Next]_vars
  PROVE  \/ \E t \in Tasks : Accept(t)
         \/ ClearTables
         \/ Keeps \/ \E h \in Accepted : Moves(h)
<1> DEFINE Claim == Keeps \/ \E h \in Accepted : Moves(h)
<1>1. ASSUME NEW t \in Tasks, DrainTask(t) PROVE Claim
  <2>1. callbacks.val[t] \in Slots
    BY DEF TypeOK, Dict, Slots, Accepted
  <2>2. CASE /\ callbacks.val[t] \in Accepted \ terminated
             /\ TerminateFrom(callbacks.val[t], "disconnect")
    BY <1>1, <2>2 DEF DrainTask, turnVars, TerminateFrom, Moves
  <2>3. CASE UNCHANGED <<routeVars, terminated>>
    BY <1>1, <2>3, TablesKept DEF DrainTask, turnVars, routeVars
  <2> QED BY <1>1, <2>1, <2>2, <2>3 DEF DrainTask, Slots
<1>2. ASSUME NEW c \in Chats, Interrupt(c) PROVE Claim
  BY <1>2, PeekType DEF Interrupt, Slots, turnVars, connVars, TerminateFrom, Moves
<1>3. ASSUME NEW h \in Accepted, NEW kind \in SendKinds, AgentSend(h, kind) PROVE Claim
  BY <1>3, AcceptedHandles, ResolveType, SendMoves DEF AgentSend
<1>4. ASSUME NEW c \in Chats, NEW kind \in SendKinds, ChatSend(c, kind) PROVE Claim
  BY <1>4, ResolveType, SendMoves DEF ChatSend
<1>5. ASSUME \/ UNCHANGED vars \/ \E s \in PreludeSessions : StashPrelude(s)
             \/ \E t \in Tasks : Duplicate(t)
             \/ \E p \in posts : Receive(p)
             \/ BeginDisconnect \/ StopListening \/ Connect
      PROVE  Claim
  BY <1>5, TablesKept DEF vars, StashPrelude, Duplicate, Receive, BeginDisconnect,
                          StopListening, Connect, turnVars, routeVars, connVars
<1> QED BY <1>1, <1>2, <1>3, <1>4, <1>5, DispatchMoves, PostReturnsMoves DEF Next, Accepted
-----------------------------------------------------------------------------
(* What the tables hold after each of these.                               *)

LEMMA MovesTables ==
  ASSUME TypeOK, Roomy, InOrder(callbacks), NEW h \in Accepted, Moves(h)
  PROVE  /\ InOrder(callbacks') /\ Keys(callbacks') = Keys(callbacks) \ {task[h]}
         /\ \A t \in Tasks : /\ callbacks'.val[t] = IF t = task[h] THEN None ELSE callbacks.val[t]
                             /\ closed'.val[t] = IF t = task[h] THEN h ELSE closed.val[t]
<1>1. task[h] \in Tasks /\ IsFiniteSet(Tasks) /\ h \in Slots /\ None \in Slots
  BY AcceptedHandles DEF Slots
<1>2. callbacks \in Dict(Tasks, Slots) /\ closed \in Dict(Tasks, Slots)
  BY DEF TypeOK, Slots, Accepted
<1> DEFINE none == None
           gone == {task[h]}
           d == Put(closed, task[h], h)
           cap == CacheCap
<1>3. callbacks' = Drop(callbacks, gone, none) /\ closed' = Trim(d, cap, none)
  BY DEF Moves, Release
<1>4. /\ d \in Dict(Tasks, Slots)
      /\ d.val = [closed.val EXCEPT ![task[h]] = h]
  BY <1>1, <1>2, PutType
<1>5. Cardinality(Tasks) \in Nat
  BY FS_CardinalityType
<1>6. cap \in Nat /\ Cardinality(Tasks) <= cap
  BY <1>5 DEF CacheCap, Roomy
<1>7. none \in Slots /\ none = None
  BY <1>1
<1> HIDE DEF none, gone, d, cap
<1>8. \A t \in Tasks : Trim(d, cap, none).val[t] = d.val[t]
  <2>1. IsFiniteSet(Tasks)
    OBVIOUS
  <2> DEFINE V == Slots
  <2>2. d \in Dict(Tasks, V) /\ cap \in Nat /\ Cardinality(Tasks) <= cap
    BY <1>4, <1>6
  <2> HIDE DEF V
  <2> QED BY ONLY <2>1, <2>2, TrimRoom
<1>9. InOrder(Drop(callbacks, gone, none)) /\ Keys(Drop(callbacks, gone, none)) = Keys(callbacks) \ gone
  BY <1>1, <1>2, DropOrder
<1>10. \A t \in Tasks : Drop(callbacks, gone, none).val[t] = IF t \in gone THEN none ELSE callbacks.val[t]
  BY <1>2 DEF Drop, Dict
<1>11. closed.val \in [Tasks -> Slots]
  BY <1>2 DEF Dict
<1> QED BY <1>1, <1>3, <1>4, <1>7, <1>8, <1>9, <1>10, <1>11 DEF gone

\* A table with room for every task evicts none.
LEMMA EvictsNone ==
  ASSUME Roomy, NEW V, NEW d \in Dict(Tasks, V)
  PROVE  Evicted(d) = {}
<1> DEFINE finished == {t \in Keys(d) : t \notin inflight}
           older(t) == {u \in finished : d.pos[u] <= d.pos[t]}
           n == Cardinality(Keys(d))
<1>1. /\ Keys(d) \in SUBSET Tasks /\ IsFiniteSet(Keys(d)) /\ d.pos \in [Tasks -> Nat]
      /\ n \in Nat
  BY KeysFinite
<1>2. n <= Cardinality(Tasks) /\ Cardinality(Tasks) \in Nat
  BY <1>1, FS_Subset, FS_CardinalityType
<1>3. n - DedupCap <= 0
  BY <1>1, <1>2 DEF Roomy
<1>4. ASSUME NEW t \in finished
      PROVE  ~ (Cardinality(older(t)) <= n - DedupCap)
  <2>1. older(t) \in SUBSET Keys(d)
    OBVIOUS
  <2>2. IsFiniteSet(older(t))
    BY <1>1, <2>1, FS_Subset
  <2>3. Cardinality(older(t)) \in Nat
    BY <2>2, FS_CardinalityType
  <2>4. t \in older(t)
    BY <1>1, <1>4
  <2>5. Cardinality(older(t)) # 0
    BY <2>2, <2>4, FS_EmptySet
  <2> HIDE DEF older, n
  <2> QED BY <1>1, <1>3, <2>3, <2>5
<1> QED BY <1>4 DEF Evicted

LEMMA AcceptTables ==
  ASSUME TypeOK, Roomy, InOrder(callbacks), NEW t \in Tasks, Accept(t),
         NEW n, n = Len(task) + 1
  PROVE  /\ InOrder(callbacks') /\ Keys(callbacks') = Keys(callbacks) \cup {t}
         /\ \A u \in Tasks : callbacks'.val[u] = IF u = t THEN n ELSE callbacks.val[u]
         /\ UNCHANGED <<closed, pending, flushed, terminated, gen>>
<1> DEFINE V == {None, n} \cup Accepted
           d == Assign(callbacks, t, n)
           none == None
<1>1. IsFiniteSet(Tasks) /\ n \in V /\ none \in V
  OBVIOUS
<1>2. callbacks \in Dict(Tasks, V)
  BY DEF TypeOK, Dict, Accepted
<1> HIDE DEF V
<1>3. /\ d \in Dict(Tasks, V) /\ d.val = [callbacks.val EXCEPT ![t] = n]
  BY <1>1, <1>2, AssignType
<1>4. InOrder(d) /\ Keys(d) = Keys(callbacks) \cup {t}
  BY <1>1, <1>2, AssignOrder
<1>5. Evicted(d) = {}
  BY <1>3, EvictsNone
<1>6. /\ callbacks' = Drop(d, {}, none)
      /\ UNCHANGED <<closed, pending, flushed, terminated, gen>>
  BY <1>5 DEF Accept, connVars
<1> HIDE DEF d, none
<1>7. InOrder(Drop(d, {}, none)) /\ Keys(Drop(d, {}, none)) = Keys(d) \ {}
  BY <1>1, <1>3, <1>4, DropOrder
<1>8. \A u \in Tasks : Drop(d, {}, none).val[u] = d.val[u]
  BY <1>3 DEF Drop, Dict
<1>9. callbacks.val \in [Tasks -> V]
  BY <1>2 DEF Dict
<1> QED BY <1>3, <1>4, <1>6, <1>7, <1>8, <1>9
LEMMA RegisteredAccept ==
  ASSUME TypeOK, Roomy, Registered, Once', NEW t \in Tasks, Accept(t)
  PROVE  Registered'
<1>1. PICK n \in Handles :
        /\ n = Len(task) + 1
        /\ n \notin Accepted /\ Accepted' = Accepted \cup {n} /\ task'[n] = t
        /\ \A h \in Accepted : task'[h] = task[h] /\ lockGen'[h] = lockGen[h]
  BY AcceptIs
<1>2. /\ InOrder(callbacks') /\ Keys(callbacks') = Keys(callbacks) \cup {t}
      /\ \A u \in Tasks : callbacks'.val[u] = IF u = t THEN n ELSE callbacks.val[u]
      /\ UNCHANGED <<closed, terminated, gen>>
  BY <1>1, AcceptTables DEF Registered
<1>3. \A h \in Accepted : task[h] # t /\ task[h] \in Tasks
  BY <1>1, AcceptedHandles DEF Once
<1>4. terminated \subseteq Accepted
  BY DEF TypeOK, Accepted
<1> QED BY <1>1, <1>2, <1>3, <1>4 DEF Registered

LEMMA RegisteredMoves ==
  ASSUME TypeOK, Roomy, Registered, Once, NEW h \in Accepted, Moves(h)
  PROVE  Registered'
<1>1. /\ InOrder(callbacks') /\ Keys(callbacks') = Keys(callbacks) \ {task[h]}
      /\ \A t \in Tasks : /\ callbacks'.val[t] = IF t = task[h] THEN None ELSE callbacks.val[t]
                          /\ closed'.val[t] = IF t = task[h] THEN h ELSE closed.val[t]
  BY MovesTables DEF Registered
<1>2. Accepted' = Accepted /\ terminated' = terminated \cup {h} /\ UNCHANGED <<task, lockGen, gen>>
  BY DEF Moves, Release, Accepted
<1>3. /\ \A g \in Accepted : task[g] \in Tasks /\ (task[g] = task[h] => g = h)
      /\ terminated \subseteq Accepted
  BY AcceptedHandles DEF Once, TypeOK, Accepted
<1> QED BY <1>1, <1>2, <1>3 DEF Registered

LEMMA RegisteredClear ==
  ASSUME OrderInv, Registered, ClearTables
  PROVE  Registered'
<1>1. /\ callbacks' = Empty(Tasks, None) /\ gen' = gen + 1
      /\ UNCHANGED <<task, lockGen, closed, terminated>>
  BY DEF ClearTables, turnVars
<1>2. /\ gen \in Nat /\ terminated \subseteq Accepted
      /\ \A h \in Accepted : task[h] \in Tasks /\ lockGen[h] \in Nat /\ lockGen[h] <= gen
  BY AcceptedHandles DEF OrderInv, LockInv, Order, OfThePast, TypeOK, Accepted
<1>3. \A h \in Accepted : lockGen[h] # gen + 1
  BY <1>2
<1>4. InOrder(callbacks') /\ \A t \in Tasks : callbacks'.val[t] = None
  <2> DEFINE none == None
  <2>1. callbacks' = Empty(Tasks, none)
    BY <1>1
  <2>2. \A t \in Tasks : Empty(Tasks, none).val[t] = none
    BY DEF Empty
  <2> HIDE DEF none
  <2>3. InOrder(Empty(Tasks, none))
    BY EmptyOrder
  <2> QED BY <2>1, <2>2, <2>3 DEF none
<1> QED BY <1>1, <1>2, <1>3, <1>4 DEF Registered, Accepted

\* Whatever is buffered or marked as flushed belongs to a registered task.
Buffered == gen = 0 => pending \cup flushed \subseteq Keys(callbacks)

LEMMA BufferedStep ==
  ASSUME OrderInv, Roomy, Once, Registered, Buffered, [Next]_vars
  PROVE  Buffered'
<1>1. /\ TypeOK /\ gen \in Nat
      /\ \A h \in Accepted : task[h] \in Tasks /\ lockGen[h] \in Nat /\ lockGen[h] <= gen
  BY AcceptedHandles DEF OrderInv, LockInv, Order, OfThePast, TypeOK
<1>2. ASSUME NEW t \in Tasks, Accept(t) PROVE Buffered'
  <2>1. /\ Keys(callbacks') = Keys(callbacks) \cup {t}
        /\ UNCHANGED <<pending, flushed, gen>>
    BY <1>1, <1>2, AcceptTables DEF Registered
  <2> QED BY <2>1 DEF Buffered
<1>3. CASE ClearTables
  BY <1>1, <1>3 DEF ClearTables, Buffered
<1>4. CASE Keeps
  <2>1. ASSUME gen = 0, NEW t \in pending' \cup flushed' PROVE t \in Keys(callbacks)
    <3>1. CASE t \in pending \cup flushed
      BY <2>1, <3>1 DEF Buffered
    <3>2. CASE t \notin pending \cup flushed
      <4>1. PICK h \in Accepted \ terminated : task[h] = t
        BY <1>4, <2>1, <3>2 DEF Keeps
      <4>2. lockGen[h] = gen
        BY <1>1, <2>1, <4>1
      <4> QED BY <4>1, <4>2 DEF Registered
    <3> QED BY <3>1, <3>2
  <2> QED BY <1>4, <2>1 DEF Keeps, Buffered
<1>5. ASSUME NEW h \in Accepted, Moves(h) PROVE Buffered'
  <2>1. Keys(callbacks') = Keys(callbacks) \ {task[h]}
    BY <1>1, <1>5, MovesTables DEF Registered
  <2>2. pending' = pending \ {task[h]} /\ flushed' = flushed \ {task[h]} /\ gen' = gen
    BY <1>5 DEF Moves, Release, Forget
  <2> QED BY <2>1, <2>2 DEF Buffered
<1> QED BY <1>1, <1>2, <1>3, <1>4, <1>5, StepMoves

Tables == Once => Registered /\ Buffered

LEMMA TablesStep == Roomy /\ Tables /\ OrderInv /\ [Next]_vars => Tables'
<1> SUFFICES ASSUME Roomy, Tables, OrderInv, [Next]_vars, Once'
             PROVE  Registered' /\ Buffered'
  BY DEF Tables
<1>1. TypeOK
  BY DEF OrderInv, LockInv
<1>2. Once /\ Registered /\ Buffered
  BY <1>1, OnceBefore DEF Tables
<1>3. CASE Keeps
  <2>1. UNCHANGED <<task, lockGen, gen, callbacks, closed, terminated>>
    BY <1>3 DEF Keeps
  <2> QED BY <1>2, <2>1, BufferedStep DEF Registered, Accepted
<1> QED BY <1>1, <1>2, <1>3, StepMoves, BufferedStep, RegisteredAccept, RegisteredMoves,
           RegisteredClear

LEMMA TablesAlways ==
  ASSUME Roomy
  PROVE  Spec => []Tables
<1>1. Init => Tables
  <2> SUFFICES ASSUME Init PROVE Registered /\ Buffered
    BY DEF Tables
  <2>1. Accepted = {} /\ terminated = {} /\ pending = {} /\ flushed = {}
        /\ callbacks = Empty(Tasks, None)
    BY DEF Init, Accepted
  <2> QED BY <2>1, EmptyOrder DEF Registered, Buffered
<1>2. Tables /\ OrderInv /\ [Next]_vars => Tables'
  BY TablesStep
<1> QED BY <1>1, <1>2, OrderAlways, PTL DEF Spec

\* The buffer and the marks of reasoning replies hold nothing of a task that is
\* not registered any more, however its turn ended.
THEOREM ReasoningLeavesNothing ==
  ASSUME Roomy, ~ ClientRetries \/ CallbackTasks = {}
  PROVE  Spec => []NoReasoningLeak
<1>1. TaskRunsOnce /\ Tables => NoReasoningLeak
  BY DEF TaskRunsOnce, Tables, Once, Buffered, NoReasoningLeak, Accepted
<1>2. Spec => []TaskRunsOnce
  BY OneTurnPerTask DEF Roomy, Remembers
<1> QED BY <1>1, <1>2, TablesAlways, PTL

\* A reply made in a turn's context finds that turn, while it runs and after it
\* ended, even over a disconnect, unless a task was accepted a second time.
THEOREM RepliesFindTheirTurn ==
  ASSUME Roomy
  PROVE  Spec => [](Once => ReplyFindsItsTurn)
<1>1. TypeOK /\ Tables => (Once => ReplyFindsItsTurn)
  <2> SUFFICES ASSUME TypeOK, Tables, Once, NEW h \in DOMAIN task,
                      lockGen[h] = gen \/ h \in terminated
               PROVE  ByTask(task[h]) = h
    BY DEF ReplyFindsItsTurn
  <2>1. Registered /\ h \in Accepted /\ h # None
    BY AcceptedHandles DEF Tables, Accepted
  <2> QED BY <2>1 DEF Registered, ByTask
<1> QED BY <1>1, TablesAlways, TypeCorrect, PTL
-----------------------------------------------------------------------------
(* A reasoning turn shows nothing before its agent is done: until then its *)
(* replies go to the buffer, because nobody has marked the task as flushed.*)

Clean(h) ==
  /\ \A i \in DOMAIN out[h] : out[h][i] \notin OnWire("message")
  /\ \A p \in posts : p.handle = h => p.kind \notin OnWire("message")

EarlyIsClean ==
  \A h \in Accepted : Reasoning(h) /\ pc[h] \in Early => task[h] \notin flushed /\ Clean(h)
FlushedIsLate ==
  \A t \in flushed : \E h \in Accepted : task[h] = t /\ pc[h] \notin Early
UnheardIsEmpty == \A h \in Handles \ Accepted : out[h] = << >>

Held == UnheardIsEmpty /\ (Once => EarlyIsClean /\ FlushedIsLate)

\* Where the dispatches are and which tasks are marked.
Ripens ==
  /\ UNCHANGED task
  /\ \A h \in Accepted : pc'[h] \in Early => pc[h] \in Early
  /\ \A t \in flushed' \ flushed : \E h \in Accepted : task[h] = t /\ pc'[h] \notin Early

LEMMA StepRipens ==
  ASSUME OrderInv, [Next]_vars
  PROVE  (\E t \in Tasks : Accept(t)) \/ Ripens
<1>1. TypeOK /\ Accepted \subseteq Handles
  BY AcceptedHandles DEF OrderInv, LockInv
<1>2. ASSUME ~ \E t \in Tasks : Accept(t)
      PROVE  UNCHANGED task /\ \A h \in Accepted : pc'[h] \in Early => pc[h] \in Early
  <2>1. CASE Still \/ ClearTables
    BY <2>1 DEF Still, ClearTables, turnVars
  <2>2. ASSUME NEW h \in Accepted, TakeLock(h) \/ Start(h)
        PROVE  UNCHANGED task /\ \A g \in Accepted : pc'[g] \in Early => pc[g] \in Early
    BY <1>1, <2>2 DEF TakeLock, Start, turnVars, Early, TypeOK
  <2>3. ASSUME NEW h \in Accepted, RunStep(h) \/ Oust(h)
        PROVE  UNCHANGED task /\ \A g \in Accepted : pc'[g] \in Early => pc[g] \in Early
    BY <1>1, <2>3 DEF RunStep, Oust, Moved, turnVars, Early, TypeOK
  <2> QED BY <1>2, <2>1, <2>2, <2>3, StepOrder
<1>3. \/ \E t \in Tasks : Accept(t)
      \/ \E h \in Accepted : AgentReturns(h)
      \/ flushed' \subseteq flushed
  <2>1. ASSUME NEW h \in Accepted, Dispatch(h)
        PROVE  AgentReturns(h) \/ flushed' \subseteq flushed
    BY <2>1 DEF Dispatch, TakeLock, Start, AgentFails, Settle, Finally, EndTurn, Release, Forget,
                routeVars
  <2>2. ASSUME NEW p \in posts, PostReturns(p) PROVE flushed' \subseteq flushed
    BY <2>2 DEF PostReturns, SendReturns, FlushReturns, EndingReturns, TerminateReturns, Release,
                Forget, routeVars
  <2>3. ASSUME \/ \E t \in Tasks : Duplicate(t) \/ DrainTask(t)
               \/ \E s \in PreludeSessions : StashPrelude(s)
               \/ \E h \in Accepted, kind \in SendKinds : AgentSend(h, kind)
               \/ \E c \in Chats : Interrupt(c) \/ \E kind \in SendKinds : ChatSend(c, kind)
               \/ \E p \in posts : Receive(p)
               \/ BeginDisconnect \/ StopListening \/ ClearTables \/ Connect \/ UNCHANGED vars
        PROVE  flushed' \subseteq flushed
    BY <2>3 DEF Duplicate, DrainTask, StashPrelude, AgentSend, ChatSend, SendTo, Interrupt,
                TerminateFrom, Release, Forget, Receive, BeginDisconnect, StopListening,
                ClearTables, Connect, vars, routeVars
  <2> QED BY <2>1, <2>2, <2>3 DEF Next, Accepted
<1>4. ASSUME NEW h \in Accepted, AgentReturns(h), NEW t \in flushed' \ flushed
      PROVE  task[h] = t /\ pc'[h] \notin Early
  <2>1. Reasoning(h) /\ ~ Over(h) /\ flushed' = flushed \cup {task[h]}
    BY <1>4 DEF AgentReturns, Finally, routeVars
  <2>2. pc' = [pc EXCEPT ![h] = "flush"] \/ pc' = [pc EXCEPT ![h] = "done"]
    BY <1>4, <2>1 DEF AgentReturns, Leave
  <2> QED BY <1>1, <1>4, <2>1, <2>2 DEF TypeOK, Early
<1> QED BY <1>2, <1>3, <1>4 DEF Ripens

\* The four effects of a step leave an early reasoning turn clean.
LEMMA GotNoMessage ==
  ASSUME TypeOK, NEW h \in Accepted, NEW kind \in Wire, out' = Got(h, kind), NEW g \in Accepted,
         \A i \in DOMAIN out[g] : out[g][i] \notin OnWire("message"), g = h => kind \notin OnWire("message")
  PROVE  \A i \in DOMAIN out'[g] : out'[g][i] \notin OnWire("message")
<1>1. CASE g # h
  BY <1>1, GotOne, AcceptedHandles
<1>2. CASE g = h
  <2> DEFINE n == Len(out[h])
  <2>1. /\ DOMAIN out[h] = 1..n /\ DOMAIN out'[h] = 1..(n + 1) /\ n \in Nat
        /\ \A i \in 1..n : out'[h][i] = out[h][i]
        /\ out'[h][n + 1] = kind
    BY GotOne
  <2> HIDE DEF n
  <2>2. \A i \in DOMAIN out'[h] : i \in 1..n \/ i = n + 1
    BY <2>1
  <2> QED BY <1>2, <2>1, <2>2
<1> QED BY <1>1, <1>2

LEMMA ShowsOne ==
  ASSUME TypeOK, NEW h \in Accepted, NEW kind \in Wire, Shows(h, kind), NEW g \in Accepted,
         Clean(g), g = h => kind \notin OnWire("message")
  PROVE  Clean(g)'
<1>1. CASE OnStream(h)
  <2>1. out' = Got(h, kind) /\ posts' \subseteq posts
    BY <1>1 DEF Shows
  <2>2. \A i \in DOMAIN out'[g] : out'[g][i] \notin OnWire("message")
    BY <2>1, GotNoMessage DEF Clean
  <2> QED BY <2>1, <2>2 DEF Clean
<1>2. CASE ~ OnStream(h)
  <2>1. PICK by \in Posters : posts' \subseteq posts \cup {Post(h, kind, by)}
    BY <1>2 DEF Shows
  <2>2. Post(h, kind, by).handle = h /\ Post(h, kind, by).kind = kind
    BY DEF Post
  <2>3. out' = out
    BY <1>2 DEF Shows
  <2> QED BY <2>1, <2>2, <2>3 DEF Clean
<1> QED BY <1>1, <1>2

LEMMA ReceiveClean ==
  ASSUME TypeOK, NEW p \in posts, Receive(p), NEW g \in Accepted, Clean(g)
  PROVE  Clean(g)'
<1> DEFINE r == [p EXCEPT !.got = TRUE]
<1>1. /\ p.handle \in Accepted /\ p.kind \in Wire
      /\ r.handle = p.handle /\ r.kind = p.kind
  BY DEF TypeOK, Posts, Accepted
<1> HIDE DEF r
<1>2. out' = Got(p.handle, p.kind) /\ posts' = (posts \ {p}) \cup {r}
  BY DEF Receive, r
<1>3. g = p.handle => p.kind \notin OnWire("message")
  BY DEF Clean
<1>4. \A q \in posts' : q.handle = g => q.kind \notin OnWire("message")
  BY <1>1, <1>2, <1>3 DEF Clean
<1>5. \A i \in DOMAIN out'[g] : out'[g][i] \notin OnWire("message")
  BY <1>1, <1>2, <1>3, GotNoMessage DEF Clean
<1> QED BY <1>4, <1>5 DEF Clean

LEMMA EffectClean ==
  ASSUME TypeOK, Effect, NEW g \in Accepted, Clean(g), Reasoning(g), pc'[g] \in Early,
         task[g] \notin flushed
  PROVE  Clean(g)'
<1>1. CASE Silent
  BY <1>1 DEF Silent, Clean
<1>2. ASSUME NEW h \in Accepted, NEW kind \in Wire, Ends(h, kind) \/ Says(h, kind)
      PROVE  Clean(g)'
  <2>1. Shows(h, kind) /\ (g = h => kind \notin OnWire("message"))
    BY <1>2, WireKinds DEF Ends, Says, Terminals
  <2> QED BY <2>1, ShowsOne
<1> QED BY <1>1, <1>2, ReceiveClean DEF Effect

LEMMA EffectUnheard ==
  ASSUME TypeOK, Effect, UNCHANGED task, UnheardIsEmpty
  PROVE  UnheardIsEmpty'
<1>1. ASSUME NEW h \in Accepted, NEW kind \in Wire, out' = out \/ out' = Got(h, kind)
      PROVE  \A g \in Handles \ Accepted : out'[g] = out[g]
  BY <1>1, GotOne
<1>2. \A p \in posts : p.handle \in Accepted /\ p.kind \in Wire
  BY DEF TypeOK, Posts, Accepted
<1>3. \A g \in Handles \ Accepted : out'[g] = out[g]
  BY <1>1, <1>2 DEF Effect, Silent, Ends, Says, Shows, Receive
<1> QED BY <1>3 DEF UnheardIsEmpty, Accepted

LEMMA HeldStep == Held /\ EndInv /\ OrderInv /\ [Next]_vars => Held'
<1> SUFFICES ASSUME Held, EndInv, OrderInv, [Next]_vars PROVE Held'
  OBVIOUS
<1>1. TypeOK /\ PostsOnCallback /\ Accepted \subseteq Handles
  BY AcceptedHandles DEF EndInv
<1>2. Once' => Once
  BY <1>1, OnceBefore
<1>3. ASSUME NEW t \in Tasks, Accept(t) PROVE Held'
  <2>1. PICK n \in Handles :
          /\ n \notin Accepted /\ Accepted' = Accepted \cup {n} /\ task'[n] = t
          /\ \A h \in Accepted : task'[h] = task[h] /\ pc'[h] = pc[h]
          /\ pc'[n] = "queued"
    BY <1>1, <1>3, AcceptIs
  <2>2. UNCHANGED <<out, posts>> /\ flushed' \subseteq flushed
    BY <1>3 DEF Accept
  <2>3. UnheardIsEmpty'
    BY <2>1, <2>2 DEF Held, UnheardIsEmpty
  <2>4. ASSUME Once' PROVE EarlyIsClean' /\ FlushedIsLate'
    <3>1. Once /\ EarlyIsClean /\ FlushedIsLate
      BY <1>2, <2>4 DEF Held
    <3>2. \A h \in Accepted : task[h] # t
      BY <2>1, <2>4 DEF Once
    <3>3. t \notin flushed
      BY <3>1, <3>2 DEF FlushedIsLate
    <3>4. \A p \in posts : p.handle # n
      BY <1>1, <2>1 DEF TypeOK, Posts, Accepted
    <3>5. out[n] = << >>
      BY <2>1 DEF Held, UnheardIsEmpty
    <3>6. FlushedIsLate'
      BY <2>1, <2>2, <3>1 DEF FlushedIsLate
    <3>7. ASSUME NEW h \in Accepted', Reasoning(h)', pc'[h] \in Early
          PROVE  task'[h] \notin flushed' /\ Clean(h)'
      <4>1. CASE h = n
        <5>1. Clean(n)'
          BY <2>2, <3>4, <3>5 DEF Clean
        <5> QED BY <2>1, <2>2, <3>3, <4>1, <5>1
      <4>2. CASE h \in Accepted
        <5>1. Reasoning(h) /\ pc[h] \in Early
          BY <2>1, <3>7, <4>2 DEF Reasoning, Chat
        <5>2. task[h] \notin flushed /\ Clean(h)
          BY <3>1, <4>2, <5>1 DEF EarlyIsClean
        <5> QED BY <2>1, <2>2, <4>2, <5>2 DEF Clean
      <4> QED BY <2>1, <4>1, <4>2
    <3> QED BY <3>6, <3>7 DEF EarlyIsClean
  <2> QED BY <2>3, <2>4 DEF Held
<1>4. CASE Ripens /\ Effect
  <2>1. UNCHANGED task /\ Accepted' = Accepted
    BY <1>4 DEF Ripens, Accepted
  <2>2. UnheardIsEmpty'
    BY <1>1, <1>4, <2>1, EffectUnheard DEF Held
  <2>3. ASSUME Once' PROVE EarlyIsClean' /\ FlushedIsLate'
    <3>1. Once /\ EarlyIsClean /\ FlushedIsLate
      BY <1>2, <2>3 DEF Held
    <3>2. FlushedIsLate'
      BY <1>4, <2>1, <3>1 DEF FlushedIsLate, Ripens
    <3>3. ASSUME NEW h \in Accepted, Reasoning(h), pc'[h] \in Early
          PROVE  task[h] \notin flushed' /\ Clean(h)'
      <4>1. task[h] \notin flushed /\ Clean(h)
        BY <1>4, <3>1, <3>3 DEF Ripens, EarlyIsClean
      <4>2. task[h] \notin flushed'
        BY <1>4, <3>1, <3>3, <4>1 DEF Ripens, Once
      <4> QED BY <1>1, <1>4, <3>3, <4>1, <4>2, EffectClean
    <3> QED BY <2>1, <3>2, <3>3 DEF EarlyIsClean, Reasoning, Chat
  <2> QED BY <2>2, <2>3 DEF Held
<1> QED BY <1>1, <1>3, <1>4, StepRipens, StepEffect

LEMMA HeldAlways == Spec => []Held
<1>1. Init => Held
  <2> SUFFICES ASSUME Init PROVE Held
    OBVIOUS
  <2>1. Accepted = {} /\ flushed = {} /\ \A h \in Handles : out[h] = << >>
    BY DEF Init, Accepted
  <2> QED BY <2>1 DEF Held, UnheardIsEmpty, EarlyIsClean, FlushedIsLate
<1> QED BY <1>1, HeldStep, EndAlways, OrderAlways, PTL DEF Spec

\* Until the agent of a reasoning turn is done, its client is shown no reply and
\* no error in place of one, neither on the stream nor by a callback, unless a
\* task was accepted twice.
THEOREM ReasoningIsHeldBack == Spec => [](Once => ReasoningHeldBack)
<1>1. Held => (Once => ReasoningHeldBack)
  BY DEF Held, EarlyIsClean, Clean, ReasoningHeldBack, Early, Accepted
<1> QED BY <1>1, HeldAlways, PTL
-----------------------------------------------------------------------------
(* What a repeated POST is told is the last answer of the turn: a result is *)
(* filed in the step that shows it, or the error in place of it, or is      *)
(* silent for a turn without one.                                           *)

\* A result filed for the task of h that the stream carries in the same step,
\* or for which it carries the error in its place.
Files(h, kind) ==
  /\ idem' = PutIdem(task[h], kind)
  /\ Streamed(h, kind)

\* A turn with a callback URL files what its client took, or has not taken yet.
FilesOther(h) ==
  /\ ~ OnStream(h)
  /\ \E kind \in Results : idem' = PutIdem(task[h], kind)
  /\ out' = out

\* A reasoning turn without a reply.
FilesSilent(h) ==
  /\ Reasoning(h) /\ pc[h] = "agent" /\ h \notin terminated
  /\ idem' = PutIdem(task[h], "silent")
  /\ out' = out

\* Nothing is filed, and on the stream no result is shown.
FilesNothing ==
  /\ idem'.val = idem.val
  /\ \/ out' = out
     \/ \E h \in Accepted, kind \in Wire :
          (OnStream(h) => AnswerBehind(kind) \notin Results) /\ out' = Got(h, kind)

Filing ==
  \/ FilesNothing
  \/ \E h \in Accepted : \/ \E kind \in Results : Files(h, kind)
                         \/ FilesOther(h)
                         \/ FilesSilent(h)

LEMMA AnswersBehind ==
  /\ \A kind \in Results : \A shown \in OnWire(kind) : shown \in Wire /\ AnswerBehind(shown) = kind
  /\ \A kind \in {"notice", "chunk", "new"} : \A shown \in OnWire(kind) :
       shown \in Wire /\ AnswerBehind(shown) \notin Results
BY WireKinds DEF AnswerBehind, Results, Terminals

LEMMA FinallyFiles ==
  ASSUME NEW h, Finally(h), h \in terminated
  PROVE  FilesNothing
BY DEF Finally, FilesNothing

LEMMA EndTurnFiles ==
  ASSUME NEW h \in Accepted, NEW status \in Terminals, EndTurn(h, status)
  PROVE  Filing
BY DEF EndTurn, Filing, Files, FilesNothing, Results

LEMMA TerminateFiles ==
  ASSUME NEW h \in Accepted, NEW by, TerminateFrom(h, by)
  PROVE  Filing
BY DEF TerminateFrom, Filing, Files, FilesNothing, Results, Terminals

LEMMA DispatchFiles ==
  ASSUME NEW h \in Accepted, Dispatch(h)
  PROVE  Filing
<1>1. CASE TakeLock(h) \/ Start(h)
  BY <1>1 DEF TakeLock, Start, Filing, FilesNothing
<1>2. CASE AgentFails(h) \/ Settle(h)
  <2>1. \/ Finally(h) /\ h \in terminated
        \/ \E status \in Terminals : EndTurn(h, status)
    BY <1>2 DEF AgentFails, Settle, Terminals, Over
  <2> QED BY <2>1, FinallyFiles, EndTurnFiles DEF Filing
<1>3. CASE AgentReturns(h)
  <2>1. CASE UNCHANGED <<idem, out>>
    BY <2>1 DEF Filing, FilesNothing
  <2>2. CASE Finally(h) /\ Over(h)
    BY <2>2, FinallyFiles DEF Filing, Over
  <2>3. CASE task[h] \in pending /\ Streamed(h, "message") /\ idem' = PutIdem(task[h], "message")
    BY <2>3 DEF Filing, Files, Results
  <2>4. CASE /\ Reasoning(h) /\ ~ Over(h) /\ out' = out
             /\ idem' = IF Cached(task[h]) THEN idem ELSE PutIdem(task[h], "silent")
    <3>1. FilesNothing \/ FilesSilent(h)
      BY <1>3, <2>4 DEF AgentReturns, FilesNothing, FilesSilent, Over
    <3> QED BY <3>1 DEF Filing
  <2> QED BY <1>3, <2>1, <2>2, <2>3, <2>4 DEF AgentReturns
<1> QED BY <1>1, <1>2, <1>3 DEF Dispatch

LEMMA SendFiles ==
  ASSUME NEW h \in Slots, NEW kind \in SendKinds, SendTo(h, kind)
  PROVE  Filing
<1>1. CASE UNCHANGED <<idem, out>>
  BY <1>1 DEF Filing, FilesNothing
<1>2. CASE h # None /\ Deliver(h, WireKind(h, kind))
  <2>1. h \in Accepted
    BY <1>2 DEF Slots
  <2>2. WireKind(h, kind) \in {"message", "notice", "chunk", "new"}
    BY DEF WireKind, ConstantsAssumption
  <2>3. CASE OnStream(h) /\ WireKind(h, kind) = "message"
    <3>1. Files(h, "message") /\ "message" \in Results
      BY <1>2, <2>3 DEF Deliver, Files, Results
    <3> QED BY <2>1, <3>1 DEF Filing
  <2>4. CASE OnStream(h) /\ WireKind(h, kind) # "message"
    BY <1>2, <2>1, <2>2, <2>4, AnswersBehind DEF Deliver, Streamed, Filing, FilesNothing
  <2>5. CASE ~ OnStream(h)
    BY <1>2, <2>5 DEF Deliver, Filing, FilesNothing
  <2> QED BY <2>3, <2>4, <2>5
<1> QED BY <1>1, <1>2 DEF SendTo

LEMMA PostFiles ==
  ASSUME TypeOK, PostsOnCallback, NEW p \in posts, PostReturns(p) \/ Receive(p)
  PROVE  Filing
<1>1. /\ p.handle \in Accepted /\ p.kind \in Wire /\ ~ OnStream(p.handle)
      /\ p.kind \in PostKinds(p.by)
  BY DEF TypeOK, Posts, Accepted, PostsOnCallback
<1>2. CASE Receive(p)
  BY <1>1, <1>2 DEF Receive, Filing, FilesNothing
<1>3. ASSUME NEW ok \in {p.got, FALSE}, SendReturns(p, ok)
      PROVE  Filing
  BY <1>1, <1>3 DEF SendReturns, Filing, FilesNothing, FilesOther, Results
<1>4. ASSUME NEW ok \in {p.got, FALSE}, FlushReturns(p, ok)
      PROVE  Filing
  BY <1>1, <1>4 DEF FlushReturns, Filing, FilesNothing, FilesOther, Results
<1>5. ASSUME NEW ok \in {p.got, FALSE}, EndingReturns(p, ok) \/ TerminateReturns(p, ok)
      PROVE  Filing
  <2>1. p.kind \in Results
    BY <1>1, <1>5 DEF EndingReturns, TerminateReturns, PostKinds, Results
  <2>2. FilesNothing \/ FilesOther(p.handle)
    BY <1>1, <1>5, <2>1 DEF EndingReturns, TerminateReturns, FilesNothing, FilesOther
  <2> QED BY <1>1, <2>2 DEF Filing
<1> QED BY <1>2, <1>3, <1>4, <1>5 DEF PostReturns

LEMMA StepFiles ==
  ASSUME TypeOK, PostsOnCallback, [Next]_vars
  PROVE  Filing
<1>1. ASSUME NEW t \in Tasks, DrainTask(t) PROVE Filing
  <2>1. callbacks.val[t] \in Slots
    BY DEF TypeOK, Dict, Slots, Accepted
  <2>2. CASE callbacks.val[t] \in Accepted /\ TerminateFrom(callbacks.val[t], "disconnect")
    BY <2>2, TerminateFiles
  <2>3. CASE UNCHANGED <<idem, out>>
    BY <2>3 DEF Filing, FilesNothing
  <2> QED BY <1>1, <2>1, <2>2, <2>3 DEF DrainTask, Slots
<1>2. ASSUME NEW c \in Chats, Interrupt(c) PROVE Filing
  BY <1>2, PeekType, TerminateFiles DEF Interrupt, Slots
<1>3. ASSUME NEW h \in Accepted, NEW kind \in SendKinds, AgentSend(h, kind) PROVE Filing
  BY <1>3, AcceptedHandles, ResolveType, SendFiles DEF AgentSend
<1>4. ASSUME NEW c \in Chats, NEW kind \in SendKinds, ChatSend(c, kind) PROVE Filing
  BY <1>4, ResolveType, SendFiles DEF ChatSend
<1>5. ASSUME \/ UNCHANGED vars \/ \E s \in PreludeSessions : StashPrelude(s)
             \/ \E t \in Tasks : Accept(t) \/ Duplicate(t)
             \/ BeginDisconnect \/ StopListening \/ ClearTables \/ Connect
      PROVE  Filing
  BY <1>5 DEF vars, StashPrelude, Accept, Duplicate, Promote, BeginDisconnect, StopListening,
              ClearTables, Connect, Filing, FilesNothing
<1> QED BY <1>1, <1>2, <1>3, <1>4, <1>5, DispatchFiles, PostFiles DEF Next, Accepted

\* Filing changes one entry; others may be pushed out.
LEMMA PutIdemValues ==
  ASSUME TypeOK, NEW t \in Tasks, NEW result \in Results
  PROVE  \A u \in Tasks : PutIdem(t, result).val[u] \in {IF u = t THEN result ELSE idem.val[u], NoResult}
<1> DEFINE V == Results \cup {NoResult}
           d == Put(idem, t, result)
<1>1. IsFiniteSet(Tasks) /\ idem \in Dict(Tasks, V) /\ result \in V /\ NoResult \in V
  BY DEF TypeOK
<1>2. d \in Dict(Tasks, V) /\ d.val = [idem.val EXCEPT ![t] = result]
  BY <1>1, PutType
<1>3. \A u \in Tasks : d.val[u] = IF u = t THEN result ELSE idem.val[u]
  BY <1>1, <1>2 DEF Dict
<1>4. \A u \in Tasks : Trim(d, CacheCap, NoResult).val[u] \in {d.val[u], NoResult}
  <2> HIDE DEF d, V
  <2> QED BY <1>1, <1>2, TrimValues
<1>5. PutIdem(t, result) = Trim(d, CacheCap, NoResult)
  BY DEF PutIdem
<1> QED BY <1>3, <1>4, <1>5

\* What a turn had answered it has answered still, unless a result is added.
LEMMA AnsweredKept ==
  ASSUME TypeOK, NEW h \in Accepted, NEW kind \in Wire, out' = Got(h, kind),
         NEW g \in Accepted, NEW result, Answered(g, result),
         g = h => AnswerBehind(kind) \notin Results
  PROVE  Answered(g, result)'
<1>1. CASE g # h
  BY <1>1, GotOne, AcceptedHandles DEF Answered
<1>2. CASE g = h
  <2> DEFINE n == Len(out[h])
             R(i) == AnswerBehind(out[h][i])
             S(i) == AnswerBehind(out'[h][i])
  <2>1. /\ DOMAIN out[h] = 1..n /\ DOMAIN out'[h] = 1..(n + 1) /\ n \in Nat
        /\ \A i \in 1..n : S(i) = R(i)
        /\ S(n + 1) \notin Results
    BY <1>2, GotOne
  <2>2. /\ Answered(h, result) <=>
             \/ result = "silent" /\ \A i \in DOMAIN out[h] : R(i) \notin Results
             \/ \E i \in DOMAIN out[h] :
                  /\ R(i) \in Results /\ R(i) = result
                  /\ \A j \in DOMAIN out[h] : i < j => R(j) \notin Results
        /\ Answered(h, result)' <=>
             \/ result = "silent" /\ \A i \in DOMAIN out'[h] : S(i) \notin Results
             \/ \E i \in DOMAIN out'[h] :
                  /\ S(i) \in Results /\ S(i) = result
                  /\ \A j \in DOMAIN out'[h] : i < j => S(j) \notin Results
    BY DEF Answered, AnswerBehind
  <2> HIDE DEF n, R, S
  <2>3. \A i \in DOMAIN out'[h] : S(i) \in Results => i \in 1..n /\ S(i) = R(i)
    BY <2>1
  <2>4. CASE result = "silent" /\ \A i \in DOMAIN out[h] : R(i) \notin Results
    BY <1>2, <2>1, <2>2, <2>3, <2>4
  <2>5. ASSUME NEW i \in DOMAIN out[h], R(i) \in Results, R(i) = result,
               \A j \in DOMAIN out[h] : i < j => R(j) \notin Results
        PROVE  Answered(h, result)'
    <3>1. i \in DOMAIN out'[h] /\ S(i) \in Results /\ S(i) = result
      BY <2>1, <2>5
    <3>2. \A j \in DOMAIN out'[h] : i < j => S(j) \notin Results
      BY <2>1, <2>3, <2>5
    <3> QED BY <2>2, <3>1, <3>2
  <2> QED BY <1>2, <2>2, <2>4, <2>5
<1> QED BY <1>1, <1>2

\* The result that is added is the last one.
LEMMA AnsweredNow ==
  ASSUME TypeOK, NEW h \in Accepted, NEW kind \in Results, NEW shown \in OnWire(kind),
         out' = Got(h, shown)
  PROVE  Answered(h, kind)'
<1> DEFINE n == Len(out[h])
<1>1. /\ DOMAIN out'[h] = 1..(n + 1) /\ n \in Nat /\ out'[h][n + 1] = shown
  BY GotOne, AnswersBehind
<1> HIDE DEF n
<1>2. n + 1 \in DOMAIN out'[h] /\ \A j \in DOMAIN out'[h] : ~ (n + 1 < j)
  BY <1>1
<1>3. AnswerBehind(out'[h][n + 1]) = kind
  BY <1>1, AnswersBehind
<1> QED BY <1>2, <1>3 DEF Answered, AnswerBehind

\* The cache agrees with the stream unless a task was accepted twice.
Agreed == Once => CacheAgreesWithStream

LEMMA AgreedStep == Agreed /\ EndInv /\ Held /\ OrderInv /\ [Next]_vars => Agreed'
<1> SUFFICES ASSUME Agreed, EndInv, Held, OrderInv, [Next]_vars, Once',
                    NEW t \in Tasks \ CallbackTasks, Cached(t)'
             PROVE  \E h \in Accepted' : task'[h] = t /\ Answered(h, idem.val[t])'
  BY DEF Agreed, CacheAgreesWithStream, Accepted
<1>1. TypeOK /\ PostsOnCallback /\ Filing
  BY StepFiles DEF EndInv
<1>2. Once /\ CacheAgreesWithStream
  BY <1>1, OnceBefore DEF Agreed
<1>3. \A h \in Accepted : h \in Accepted' /\ task'[h] = task[h] /\ task[h] \in Tasks
  BY <1>1, AcceptedStays, AcceptedHandles
<1>4. ASSUME idem'.val[t] = idem.val[t]
      PROVE  \E h \in Accepted : task[h] = t /\ Answered(h, idem'.val[t])
  BY <1>2, <1>4 DEF CacheAgreesWithStream, Cached, Accepted
<1>5. CASE FilesNothing
  <2>1. PICK g \in Accepted : task[g] = t /\ Answered(g, idem'.val[t])
    BY <1>4, <1>5 DEF FilesNothing
  <2>2. CASE out' = out
    <3>1. Answered(g, idem.val[t])'
      BY <2>1, <2>2 DEF Answered
    <3> QED BY <1>3, <2>1, <3>1
  <2>3. ASSUME NEW h \in Accepted, NEW kind \in Wire, out' = Got(h, kind),
               OnStream(h) => AnswerBehind(kind) \notin Results
        PROVE  Answered(g, idem.val[t])'
    <3>1. g = h => AnswerBehind(kind) \notin Results
      BY <2>1, <2>3 DEF OnStream
    <3> QED BY <1>1, <2>1, <2>3, <3>1, AnsweredKept
  <2> QED BY <1>3, <1>5, <2>1, <2>2, <2>3 DEF FilesNothing
<1>6. ASSUME NEW h \in Accepted, NEW kind \in Results, Files(h, kind)
      PROVE  \E g \in Accepted' : task'[g] = t /\ Answered(g, idem.val[t])'
  <2>1. idem'.val[t] = IF t = task[h] THEN kind ELSE idem.val[t]
    BY <1>1, <1>3, <1>6, PutIdemValues DEF Files, Cached
  <2>4. PICK shown \in OnWire(kind) : out' = Got(h, shown)
    BY <1>6 DEF Files, Streamed
  <2>2. CASE t = task[h]
    <3>1. Answered(h, kind)'
      BY <1>1, <2>4, AnsweredNow
    <3>2. Answered(h, idem.val[t])'
      BY <2>1, <2>2, <3>1 DEF Answered
    <3> QED BY <1>3, <2>2, <3>2
  <2>3. CASE t # task[h]
    <3>1. PICK g \in Accepted : task[g] = t /\ Answered(g, idem'.val[t])
      BY <1>4, <2>1, <2>3
    <3>2. Answered(g, idem.val[t])'
      BY <1>1, <2>3, <2>4, <3>1, AnsweredKept, AnswersBehind
    <3> QED BY <1>3, <3>1, <3>2
  <2> QED BY <2>2, <2>3
<1>7. ASSUME NEW h \in Accepted, FilesOther(h)
      PROVE  \E g \in Accepted' : task'[g] = t /\ Answered(g, idem.val[t])'
  <2>1. t # task[h]
    BY <1>7 DEF FilesOther, OnStream
  <2>2. idem'.val[t] = idem.val[t]
    BY <1>1, <1>3, <1>7, <2>1, PutIdemValues DEF FilesOther, Cached
  <2>3. PICK g \in Accepted : task[g] = t /\ Answered(g, idem'.val[t])
    BY <1>4, <2>2
  <2>4. Answered(g, idem.val[t])'
    BY <1>7, <2>3 DEF FilesOther, Answered
  <2> QED BY <1>3, <2>3, <2>4
<1>8. ASSUME NEW h \in Accepted, FilesSilent(h)
      PROVE  \E g \in Accepted' : task'[g] = t /\ Answered(g, idem.val[t])'
  <2>1. idem'.val[t] = IF t = task[h] THEN "silent" ELSE idem.val[t]
    <3>1. "silent" \in Results
      BY DEF Results, Terminals
    <3> QED BY <1>1, <1>3, <1>8, <3>1, PutIdemValues DEF FilesSilent, Cached
  <2>2. CASE t = task[h]
    <3>1. \A i \in DOMAIN out[h] : out[h][i] \notin Terminals
      BY <1>8, AcceptedHandles, <1>1 DEF EndInv, ToldIsOver, Told, FilesSilent
    <3>2. \A i \in DOMAIN out[h] : out[h][i] \notin OnWire("message")
      BY <1>2, <1>8 DEF Held, EarlyIsClean, Clean, FilesSilent, Early
    <3>3. Answered(h, idem.val[t])'
      <4>1. out' = out /\ idem'.val[t] = "silent"
        BY <1>8, <2>1, <2>2 DEF FilesSilent
      <4>2. \A i \in DOMAIN out[h] : AnswerBehind(out[h][i]) \notin Results
        BY <3>1, <3>2, WireKinds DEF AnswerBehind, Results
      <4> QED BY <4>1, <4>2 DEF Answered, AnswerBehind
    <3> QED BY <1>3, <2>2, <3>3
  <2>3. CASE t # task[h]
    <3>1. PICK g \in Accepted : task[g] = t /\ Answered(g, idem'.val[t])
      BY <1>4, <2>1, <2>3
    <3>2. Answered(g, idem.val[t])'
      BY <1>8, <3>1 DEF FilesSilent, Answered
    <3> QED BY <1>3, <3>1, <3>2
  <2> QED BY <2>2, <2>3
<1> QED BY <1>1, <1>5, <1>6, <1>7, <1>8 DEF Filing

\* The result a repeated POST is told is the last answer of its turn, whoever
\* ended the turn and whatever was pushed out of the cache: the end of the turn
\* once there is one, before it the reply, also one for which the stream carried
\* an error because it was too large.  When the cache has forgotten a task and
\* it runs again, the entry of one turn may be replaced by another's silence.
THEOREM CacheTellsTheStream == Spec => [](Once => CacheAgreesWithStream)
<1>1. Init => Agreed
  <2> SUFFICES ASSUME Init PROVE CacheAgreesWithStream
    BY DEF Agreed
  <2> QED BY DEF Init, CacheAgreesWithStream, Cached, Empty
<1> QED BY <1>1, AgreedStep, HeldAlways, EndAlways, OrderAlways, PTL DEF Spec, Agreed
=============================================================================
