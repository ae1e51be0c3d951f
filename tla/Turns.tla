------------------------------- MODULE Turns -------------------------------
(***************************************************************************)
(* The life of a turn in StageWhisperAdapter (adapter.py), from the POST   *)
(* that accepts a task to the end of its dispatch coroutine.               *)
(*                                                                         *)
(* Everything runs on one event loop, so an action is the code between two *)
(* awaits that really suspend.  A delivery on the event stream never       *)
(* suspends (capture_durable is synchronous) and is part of the action     *)
(* that makes it; a delivery to a callback URL does, and is two actions:   *)
(* one puts the payload in posts, another resumes the awaiting coroutine.  *)
(* Clocks are abstract: a timeout may strike whenever it is armed.         *)
(*                                                                         *)
(* The n-th accepted event makes handle n.  A task id can have several     *)
(* handles, because a client may POST the same task again.                 *)
(***************************************************************************)
EXTENDS Integers, FiniteSets, Sequences, OrderedDict

CONSTANTS
  Tasks,          \* task ids
  Chats,          \* chat ids, sw:<session>:chat and sw:<session>:reasoning
  Sessions,
  ChatOf,         \* [Tasks -> Chats]
  SessionOf,      \* [Chats -> Sessions]
  ReasoningChats, \* the sw:<session>:reasoning ones
  CallbackTasks,  \* tasks whose event carries a callback block
  MaxConcurrent,  \* STAGEWHISPER_MAX_CONCURRENT
  DedupCap,       \* STAGEWHISPER_DEDUP_CACHE_SIZE
  PreludeSessions,\* sessions whose client sends system_prelude events
  ClientRetries,  \* whether a client POSTs a task it has POSTed before
  SendKinds,      \* what agents send: message, notice, chunk
  MaxHandles,     \* bound: accepted events
  MaxSends,       \* bound: sends by agents
  MaxReconnects   \* bound: disconnect/connect rounds

Handles == 1..MaxHandles
None == 0                    \* no handle
NoResult == "none"
Terminals == {"completed", "silent", "errored"}
Results == Terminals \cup {"message"}
\* On the stream a payload beyond the retention limit is replaced by an error
\* (status errored, reply_too_large) under the same task id.
TooLarge == [message |-> "lost_message", notice |-> "lost_notice",
             chunk |-> "lost_chunk", new |-> "lost_new"]
OnWire(kind) == {kind} \cup {TooLarge[k] : k \in DOMAIN TooLarge \cap {kind}}
Wire == UNION {OnWire(kind) : kind \in Results \cup {"notice", "chunk", "new"}}
PCs == {"free", "queued", "locked", "agent", "flush", "settle", "ending", "done"}

ASSUME ConstantsAssumption ==
  /\ IsFiniteSet(Tasks)
  /\ ChatOf \in [Tasks -> Chats]
  /\ SessionOf \in [Chats -> Sessions]
  /\ ReasoningChats \subseteq Chats
  /\ CallbackTasks \subseteq Tasks
  /\ PreludeSessions \subseteq Sessions
  /\ ClientRetries \in BOOLEAN
  /\ SendKinds \subseteq {"message", "notice", "chunk"}
  /\ MaxConcurrent \in Nat \ {0}
  /\ DedupCap \in Nat
  /\ MaxHandles \in Nat
  /\ MaxSends \in Nat
  /\ MaxReconnects \in Nat

VARIABLES
  task,        \* Seq(Tasks): the task of each accepted handle
  pc,          \* where the dispatch coroutine of each handle is
  lockGen,     \* the _chat_locks generation whose lock the dispatch uses
  terminated,  \* handles with handle.terminated
  delivered,   \* handles with handle.delivered
  queue,       \* handles in the deques of _callbacks (always in accept order)
  active,      \* _active_handles
  callbacks,   \* _task_callbacks
  closed,      \* _closed_turns
  idem,        \* idempotency cache, task -> status of the cached payload
  inflight,    \* tasks in the inflight table
  pending,     \* tasks with a reply in _reasoning_pending
  flushed,     \* _reasoning_pending._flushed
  prelude,     \* sessions with a prelude in _preludes
  posts,       \* callback deliveries being awaited
  out,         \* per handle, the durable payloads its client got, in order
  sends,       \* sends made so far
  phase,       \* listener: up, draining, closing, down
  draining,    \* pending_task_ids that disconnect still has to visit
  gen          \* generation of _chat_locks

turnVars  == <<task, lockGen>>
routeVars == <<queue, callbacks, closed, flushed, pending>>
connVars  == <<phase, draining, gen>>
vars == <<turnVars, routeVars, connVars, pc, terminated, delivered, active,
          idem, inflight, prelude, posts, out, sends>>

Chat(h) == ChatOf[task[h]]
OnStream(h) == task[h] \notin CallbackTasks
Reasoning(h) == Chat(h) \in ReasoningChats
Cached(t) == idem.val[t] # NoResult
CacheCap == IF DedupCap > 1 THEN DedupCap ELSE 1

\* _terminate and its kin do nothing for a handle that is terminated already.
OverOrDelivered(h) == h \in terminated \cup delivered  \* mutant: disconnect's test
NeverOver(h) == FALSE                                  \* mutant: no check
Over(h) == h \in terminated

\* Handles inside the two contexts of "async with chat_lock, self._sem".
HasLock == {h \in Handles : pc[h] \in {"locked", "agent", "flush", "settle", "ending"}}
RunningForEver ==   \* mutant: a slot is not freed
  {h \in Handles : pc[h] \notin {"free", "queued", "locked"}}
Running == {h \in Handles : pc[h] \in {"agent", "flush", "settle", "ending"}}

Oldest(S) == CHOOSE h \in S : \A g \in S : h <= g
QueueOf(c) == {h \in queue : Chat(h) = c}
Peek(c) == IF QueueOf(c) = {} THEN None ELSE Oldest(QueueOf(c))

ByOpenTask(t) == callbacks.val[t]   \* mutant: _closed_turns is not asked
ByTask(t) == IF callbacks.val[t] # None THEN callbacks.val[t] ELSE closed.val[t]
ClosedIn(c) == {t \in Keys(closed) : ChatOf[t] = c}
ByChat(c) ==
  IF active[c] # None THEN active[c]
  ELSE IF Peek(c) # None THEN Peek(c)
  ELSE IF ClosedIn(c) # {} THEN closed.val[Newest(closed, ClosedIn(c))]
  ELSE None

\* Mutants of the cache: errors are not remembered; an entry is never replaced.
PutIdemAnswer(t, result) ==
  IF result = "errored" THEN idem ELSE Trim(Put(idem, t, result), CacheCap, NoResult)
PutIdemFirst(t, result) ==
  IF Cached(t) THEN idem ELSE Trim(Put(idem, t, result), CacheCap, NoResult)
PutIdem(t, result) == Trim(Put(idem, t, result), CacheCap, NoResult)
\* What the client of h has after one more payload.
Got(h, kind) == [out EXCEPT ![h] = Append(@, kind)]
\* deliver_reply on the stream, true either way.
StreamedTyping(h, kind) == out' = Got(h, "typing")   \* mutant
Streamed(h, kind) == \E shown \in OnWire(kind) : out' = Got(h, shown)
Post(h, kind, by) ==
  [handle |-> h, kind |-> kind, by |-> by,
   id |-> IF by = "send" THEN sends ELSE 0, got |-> FALSE]

Init ==
  /\ task = << >>
  /\ pc = [h \in Handles |-> "free"]
  /\ lockGen = [h \in Handles |-> 0]
  /\ terminated = {}
  /\ delivered = {}
  /\ queue = {}
  /\ active = [c \in Chats |-> None]
  /\ callbacks = Empty(Tasks, None)
  /\ closed = Empty(Tasks, None)
  /\ idem = Empty(Tasks, NoResult)
  /\ inflight = {}
  /\ pending = {}
  /\ flushed = {}
  /\ prelude = {}
  /\ posts = {}
  /\ out = [h \in Handles |-> << >>]
  /\ sends = 0
  /\ phase = "up"
  /\ draining = {}
  /\ gen = 0
-----------------------------------------------------------------------------
(* Ingress: handle_incoming and accept_event.                              *)

\* The finished tasks _evict_finished_task_callbacks drops from d, oldest first.
Evicted(d) ==
  LET finished == {t \in Keys(d) : t \notin inflight}
  IN  {t \in finished :
         Cardinality({u \in finished : d.pos[u] <= d.pos[t]})
           <= Cardinality(Keys(d)) - DedupCap}

Accept(t) ==
  LET h == Len(task) + 1
      registered == Assign(callbacks, t, h)
      gone == Evicted(registered)
  IN  /\ phase \in {"up", "draining"}
      /\ h <= MaxHandles
      /\ ~ Cached(t)
      /\ t \notin inflight
      /\ ClientRetries \/ \A g \in DOMAIN task : task[g] # t
      /\ task' = Append(task, t)
      /\ pc' = [pc EXCEPT ![h] = "queued"]
      /\ lockGen' = [lockGen EXCEPT ![h] = gen]
      /\ queue' = queue \cup {h}
      /\ callbacks' = Drop(registered, gone, None)
      /\ pending' = pending \ gone
      /\ flushed' = flushed \ gone
      /\ inflight' = inflight \cup {t}
      /\ UNCHANGED <<connVars, terminated, delivered, active, closed, idem,
                     prelude, posts, out, sends>>

\* A repeated POST is answered from the cache, which makes the entry recent.
Duplicate(t) ==
  /\ phase \in {"up", "draining"}
  /\ ClientRetries
  /\ Cached(t)
  /\ idem' = Promote(idem, t)
  /\ UNCHANGED <<turnVars, routeVars, connVars, pc, terminated, delivered,
                 active, inflight, prelude, posts, out, sends>>

StashPrelude(s) ==
  /\ phase \in {"up", "draining"}
  /\ prelude' = prelude \cup {s}
  /\ UNCHANGED <<turnVars, routeVars, connVars, pc, terminated, delivered,
                 active, idem, inflight, posts, out, sends>>
-----------------------------------------------------------------------------
(* Pieces of a step: _release_task, the finally block of _dispatch, and    *)
(* the two ways a turn ends.                                               *)

ForgetNothing(buffer, h) == buffer   \* mutant
Forget(buffer, h) == buffer \ {task[h]}

Release(h) ==
  /\ terminated' = terminated \cup {h}
  /\ queue' = queue \ {h}
  /\ callbacks' = Drop(callbacks, {task[h]}, None)
  /\ pending' = Forget(pending, h)
  /\ flushed' = Forget(flushed, h)
  /\ closed' = Trim(Put(closed, task[h], h), CacheCap, None)

\* mutant: the finally block does not call _signal_done
LeaveUnsignalled(h) ==
  /\ pc' = [pc EXCEPT ![h] = "done"]
  /\ active' = [active EXCEPT ![Chat(h)] = None]
  /\ UNCHANGED inflight

Leave(h) ==
  /\ pc' = [pc EXCEPT ![h] = "done"]
  /\ active' = IF active[Chat(h)] = h THEN [active EXCEPT ![Chat(h)] = None]
               ELSE active
  /\ inflight' = inflight \ {task[h]}

\* The finally block when nothing else in the step ends the turn.
Finally(h) ==
  /\ Leave(h)
  /\ queue' = queue \ {h}
  /\ pending' = pending \ {task[h]}
  /\ idem' = IF h \notin terminated /\ ~ Cached(task[h])
             THEN PutIdem(task[h], "silent") ELSE idem
  /\ UNCHANGED <<callbacks, closed, flushed, terminated, delivered, posts, out>>

\* The dispatch terminates its own turn, then runs its finally block.
EndTurn(h, status) ==
  /\ Release(h)
  /\ UNCHANGED delivered
  /\ IF OnStream(h)
     THEN /\ Streamed(h, status)
          /\ idem' = PutIdem(task[h], status)
          /\ Leave(h)
          /\ UNCHANGED posts
     ELSE /\ posts' = posts \cup {Post(h, status, "ending")}
          /\ pc' = [pc EXCEPT ![h] = "ending"]
          /\ UNCHANGED <<out, idem, active, inflight>>

\* _terminate called by somebody else while the dispatch goes on.
TerminateFrom(h, by) ==
  /\ Release(h)
  /\ UNCHANGED <<pc, delivered, active>>
  /\ IF OnStream(h)
     THEN /\ Streamed(h, "silent")
          /\ idem' = PutIdem(task[h], "silent")
          /\ inflight' = inflight \ {task[h]}
          /\ UNCHANGED posts
     ELSE /\ posts' = posts \cup {Post(h, "silent", by)}
          /\ UNCHANGED <<out, idem, inflight>>
-----------------------------------------------------------------------------
(* The dispatch coroutine.                                                 *)

SameLock(g, h) == Chat(g) = Chat(h) /\ lockGen[g] = lockGen[h]

\* asyncio.Lock is FIFO: the oldest waiter of the same lock goes first.
LockWithoutOrder(h) ==   \* mutant
  \A g \in DOMAIN task : SameLock(g, h) => g \notin HasLock
LockPerTask(h) ==        \* mutant: _chat_locks keyed by the task id
  \A g \in DOMAIN task : task[g] = task[h] => g \notin HasLock
LockIsMine(h) ==
  \A g \in DOMAIN task : SameLock(g, h) =>
    g \notin HasLock /\ (pc[g] = "queued" => h <= g)

TakeLock(h) ==
  /\ pc[h] = "queued"
  /\ LockIsMine(h)
  /\ pc' = [pc EXCEPT ![h] = "locked"]
  /\ UNCHANGED <<turnVars, routeVars, connVars, terminated, delivered, active,
                 idem, inflight, prelude, posts, out, sends>>

\* Up to the await of handle_message, the first typing status included.
Start(h) ==
  /\ pc[h] = "locked"
  /\ Cardinality(Running) < MaxConcurrent
  /\ pc' = [pc EXCEPT ![h] = "agent"]
  /\ active' = [active EXCEPT ![Chat(h)] = h]
  /\ prelude' = prelude \ {SessionOf[Chat(h)]}
  /\ UNCHANGED <<turnVars, routeVars, connVars, terminated, delivered, idem,
                 inflight, posts, out, sends>>

\* handle_message returned: a reasoning turn flushes its buffered reply.
AgentReturns(h) ==
  /\ pc[h] = "agent"
  /\ UNCHANGED <<turnVars, connVars, prelude, sends>>
  /\ \/ /\ ~ Reasoning(h)
        /\ pc' = [pc EXCEPT ![h] = "settle"]
        /\ UNCHANGED <<routeVars, terminated, delivered, active, idem,
                       inflight, posts, out>>
     \/ /\ Reasoning(h)
        /\ Over(h)
        /\ Finally(h)
     \/ /\ Reasoning(h)
        /\ ~ Over(h)
        /\ flushed' = flushed \cup {task[h]}
        /\ pending' = pending \ {task[h]}
        /\ UNCHANGED <<callbacks, closed, terminated>>
        /\ IF task[h] \in pending /\ ~ OnStream(h)
           THEN /\ posts' = posts \cup {Post(h, "message", "flush")}
                /\ pc' = [pc EXCEPT ![h] = "flush"]
                /\ UNCHANGED <<queue, delivered, active, idem, inflight, out>>
           ELSE /\ Leave(h)
                /\ queue' = queue \ {h}
                /\ UNCHANGED posts
                /\ IF task[h] \in pending
                   THEN /\ Streamed(h, "message")
                        /\ delivered' = delivered \cup {h}
                        /\ idem' = PutIdem(task[h], "message")
                   ELSE /\ idem' = IF Cached(task[h]) THEN idem
                                   ELSE PutIdem(task[h], "silent")
                        /\ UNCHANGED <<out, delivered>>

\* handle_message raised, or AGENT_HARD_TIMEOUT_S struck.
AgentFails(h) ==
  /\ pc[h] = "agent"
  /\ IF Over(h) THEN Finally(h) ELSE EndTurn(h, "errored")
  /\ UNCHANGED <<turnVars, connVars, prelude, sends>>

\* The settle loop ends: quiet, idle, past its deadline or terminated.
Settle(h) ==
  /\ pc[h] = "settle"
  /\ IF Over(h) THEN Finally(h)
     ELSE EndTurn(h, IF h \in delivered THEN "completed" ELSE "silent")
  /\ UNCHANGED <<turnVars, connVars, prelude, sends>>
-----------------------------------------------------------------------------
(* Sends by the agent, while its turn runs or long after.                  *)

Deliver(h, kind) ==
  /\ IF OnStream(h)
     THEN /\ Streamed(h, kind)
          /\ UNCHANGED posts
          /\ IF kind = "message"
             THEN /\ delivered' = delivered \cup {h}
                  /\ idem' = PutIdem(task[h], "message")
             ELSE UNCHANGED <<delivered, idem>>
     ELSE /\ posts' = posts \cup {Post(h, kind, "send")}
          /\ UNCHANGED <<out, delivered, idem>>
  /\ UNCHANGED pending

\* After the end of the turn a reply goes out under a fresh task id
\* (_send_as_new_message).
SameKind(h, kind) == kind   \* mutant
WireKind(h, kind) == IF Over(h) THEN "new" ELSE kind

NoBuffer(h, kind) == FALSE  \* mutant
Buffers(h, kind) ==
  kind = "message" /\ Reasoning(h) /\ ~ Over(h) /\ task[h] \notin flushed

SendTo(h, kind) ==
  /\ sends < MaxSends
  /\ sends' = sends + 1
  /\ IF h = None \/ (kind = "notice" /\ Over(h))
     THEN UNCHANGED <<out, posts, delivered, idem, pending>>
     ELSE IF Buffers(h, kind)
     THEN /\ pending' = pending \cup {task[h]}
          /\ UNCHANGED <<out, posts, delivered, idem>>
     ELSE Deliver(h, WireKind(h, kind))
  /\ UNCHANGED <<turnVars, connVars, pc, terminated, queue, active, callbacks,
                 closed, inflight, flushed, prelude>>

\* A send in the context of h's dispatch, or of a task its agent left behind.
AgentSend(h, kind) ==
  /\ pc[h] \notin {"free", "queued", "locked"}
  /\ SendTo(ByTask(task[h]), kind)

\* A send from outside every dispatch (a scheduled job), routed by chat.
ChatSend(c, kind) == SendTo(ByChat(c), kind)

Interrupt(c) ==
  /\ Peek(c) # None
  /\ Peek(c) \notin terminated
  /\ TerminateFrom(Peek(c), "interrupt")
  /\ UNCHANGED <<turnVars, connVars, prelude, sends>>
-----------------------------------------------------------------------------
(* Callback deliveries.                                                    *)

\* The client receives a payload; the adapter may not learn of it.
Receive(p) ==
  /\ ~ p.got
  /\ phase # "down"
  /\ posts' = (posts \ {p}) \cup {[p EXCEPT !.got = TRUE]}
  /\ out' = Got(p.handle, p.kind)
  /\ UNCHANGED <<turnVars, routeVars, connVars, pc, terminated, delivered,
                 active, idem, inflight, prelude, sends>>

\* retry_callback returns ok to a send.
SendReturns(p, ok) ==
  /\ p.by = "send"
  /\ posts' = posts \ {p}
  /\ IF ok /\ p.kind = "message"
     THEN /\ delivered' = delivered \cup {p.handle}
          /\ idem' = PutIdem(task[p.handle], "message")
     ELSE UNCHANGED <<delivered, idem>>
  /\ UNCHANGED <<turnVars, routeVars, connVars, pc, terminated, active,
                 inflight, prelude, out, sends>>

\* ... to _flush_reasoning_reply.
FlushReturns(p, ok) ==
  LET h == p.handle IN
  /\ p.by = "flush"
  /\ UNCHANGED <<turnVars, connVars, prelude, out, sends>>
  /\ IF ok
     THEN /\ delivered' = delivered \cup {h}
          /\ idem' = PutIdem(task[h], "message")
          /\ posts' = posts \ {p}
          /\ queue' = queue \ {h}
          /\ pending' = pending \ {task[h]}
          /\ Leave(h)
          /\ UNCHANGED <<callbacks, closed, flushed, terminated>>
     ELSE IF Over(h)
     THEN /\ posts' = posts \ {p}
          /\ queue' = queue \ {h}
          /\ pending' = pending \ {task[h]}
          /\ Leave(h)
          /\ UNCHANGED <<callbacks, closed, flushed, terminated, delivered, idem>>
     ELSE /\ Release(h)
          /\ posts' = (posts \ {p}) \cup {Post(h, "errored", "ending")}
          /\ pc' = [pc EXCEPT ![h] = "ending"]
          /\ UNCHANGED <<delivered, idem, active, inflight>>

\* ... to the dispatch that ends its own turn.
EndingReturns(p, ok) ==
  LET h == p.handle IN
  /\ p.by = "ending"
  /\ posts' = posts \ {p}
  /\ idem' = IF ok THEN PutIdem(task[h], p.kind) ELSE idem
  /\ pending' = pending \ {task[h]}
  /\ Leave(h)
  /\ UNCHANGED <<turnVars, connVars, prelude, out, sends, queue, callbacks,
                 closed, flushed, terminated, delivered>>

\* ... to a _terminate called by an interrupt or by disconnect.
TerminateReturns(p, ok) ==
  LET h == p.handle IN
  /\ p.by \in {"interrupt", "disconnect"}
  /\ posts' = posts \ {p}
  /\ inflight' = inflight \ {task[h]}
  /\ idem' = IF ok THEN PutIdem(task[h], p.kind) ELSE idem
  /\ UNCHANGED <<turnVars, routeVars, connVars, pc, terminated, delivered,
                 active, prelude, out, sends>>

PostReturns(p) ==
  \E ok \in {p.got, FALSE} :
    \/ SendReturns(p, ok)
    \/ FlushReturns(p, ok)
    \/ EndingReturns(p, ok)
    \/ TerminateReturns(p, ok)
-----------------------------------------------------------------------------
(* disconnect and connect.                                                 *)

BeginDisconnect ==
  /\ phase = "up"
  /\ gen < MaxReconnects
  /\ phase' = "draining"
  /\ draining' = inflight
  /\ UNCHANGED <<turnVars, routeVars, gen, pc, terminated, delivered, active,
                 idem, inflight, prelude, posts, out, sends>>

\* After at most two seconds every task that was in flight is visited.
DrainTask(t) ==
  LET h == callbacks.val[t] IN
  /\ phase = "draining"
  /\ t \in draining
  /\ \A p \in posts : p.by # "disconnect"
  /\ draining' = draining \ {t}
  /\ IF h = None \/ h \in terminated \cup delivered
     THEN UNCHANGED <<routeVars, pc, terminated, delivered, active, idem,
                      inflight, posts, out>>
     ELSE TerminateFrom(h, "disconnect")
  /\ UNCHANGED <<turnVars, phase, gen, prelude, sends>>

StopListening ==
  /\ phase = "draining"
  /\ draining = {}
  /\ \A p \in posts : p.by # "disconnect"
  /\ phase' = "closing"
  /\ UNCHANGED <<turnVars, routeVars, draining, gen, pc, terminated, delivered,
                 active, idem, inflight, prelude, posts, out, sends>>

\* The tables are emptied; dispatches that are still running are not stopped.
ClearTables ==
  /\ phase = "closing"
  /\ phase' = "down"
  /\ gen' = gen + 1
  /\ queue' = {}
  /\ callbacks' = Empty(Tasks, None)
  /\ inflight' = {}
  /\ prelude' = {}
  /\ active' = [c \in Chats |-> None]
  /\ pending' = {}
  /\ flushed' = {}
  /\ UNCHANGED <<turnVars, draining, pc, terminated, delivered, closed, idem,
                 posts, out, sends>>

Connect ==
  /\ phase = "down"
  /\ phase' = "up"
  /\ UNCHANGED <<turnVars, routeVars, draining, gen, pc, terminated, delivered,
                 active, idem, inflight, prelude, posts, out, sends>>
-----------------------------------------------------------------------------
Dispatch(h) ==
  \/ TakeLock(h)
  \/ Start(h)
  \/ AgentReturns(h)
  \/ AgentFails(h)
  \/ Settle(h)

Next ==
  \/ \E t \in Tasks : Accept(t) \/ Duplicate(t) \/ DrainTask(t)
  \/ \E s \in PreludeSessions : StashPrelude(s)
  \/ \E h \in DOMAIN task :
       \/ Dispatch(h)
       \/ \E kind \in SendKinds : AgentSend(h, kind)
  \/ \E c \in Chats :
       \/ Interrupt(c)
       \/ \E kind \in SendKinds : ChatSend(c, kind)
  \/ \E p \in posts : Receive(p) \/ PostReturns(p)
  \/ BeginDisconnect
  \/ StopListening
  \/ ClearTables
  \/ Connect

Spec == Init /\ [][Next]_vars

(***************************************************************************)
(* Fairness: the event loop runs every ready coroutine; the agent call is  *)
(* cut off by AGENT_HARD_TIMEOUT_S, the settle loop by its deadline, and a *)
(* callback delivery by its four attempts.  Clients, agents' sends,        *)
(* interrupts and reconnects are not obliged to happen.                    *)
(***************************************************************************)
Fairness ==
  /\ \A h \in Handles : WF_vars(h \in DOMAIN task /\ Dispatch(h))
  /\ \A h \in Handles : WF_vars(\E p \in posts : p.handle = h /\ PostReturns(p))

FairSpec == Spec /\ Fairness
-----------------------------------------------------------------------------
(* Correctness.                                                            *)

Posters == {"send", "flush", "ending", "interrupt", "disconnect"}
PostKinds(by) ==
  IF by = "send" THEN {"message", "notice", "chunk", "new"}
  ELSE IF by = "flush" THEN {"message"}
  ELSE Terminals
Posts ==
  {p \in [handle : DOMAIN task, kind : Wire, by : Posters, id : Nat, got : BOOLEAN] :
     p.kind \in PostKinds(p.by)}

\* Every table holds what its Python type says, and every callback delivery
\* carries a payload its sender makes.
TypeOK ==
  /\ task \in Seq(Tasks) /\ Len(task) <= MaxHandles
  /\ pc \in [Handles -> PCs]
  /\ \A h \in Handles : pc[h] = "free" <=> h > Len(task)
  /\ lockGen \in [Handles -> Nat]
  /\ gen \in Nat
  /\ terminated \subseteq DOMAIN task
  /\ delivered \subseteq DOMAIN task
  /\ queue \subseteq DOMAIN task
  /\ active \in [Chats -> {None} \cup DOMAIN task]
  /\ callbacks \in Dict(Tasks, {None} \cup DOMAIN task)
  /\ closed \in Dict(Tasks, {None} \cup DOMAIN task)
  /\ idem \in Dict(Tasks, Results \cup {NoResult})
  /\ inflight \subseteq Tasks
  /\ pending \subseteq Tasks
  /\ flushed \subseteq Tasks
  /\ prelude \subseteq Sessions
  /\ posts \subseteq Posts
  /\ out \in [Handles -> Seq(Wire)]
  /\ sends \in Nat
  /\ phase \in {"up", "draining", "closing", "down"}
  /\ draining \subseteq Tasks

\* Two dispatches of one chat never run at the same time, as long as they
\* took their lock from the same _chat_locks table ("async with chat_lock").
ChatSerialized ==
  \A g, h \in HasLock :
    g # h /\ Chat(g) = Chat(h) => lockGen[g] # lockGen[h]

\* Whoever gets there first - the settle loop, the error path, an interrupt,
\* disconnect - a turn makes at most one end of itself.  An error that stands
\* for an oversized reply (delivery.py) is not that end: the turn goes on.
OneTerminal ==
  \A h \in Handles :
    \A i, j \in DOMAIN out[h] :
      out[h][i] \in Terminals /\ out[h][j] \in Terminals => i = j

\* On the event stream nothing follows the end of a turn under the same task
\* id: what comes later is a message of its own (_send_as_new_message), or the
\* error in place of one.  An error in place of a reply of the turn is no end
\* of it, and is followed by the rest of the turn.
QuietAfterTerminal ==
  \A h \in DOMAIN task : OnStream(h) =>
    \A i, j \in DOMAIN out[h] :
      out[h][i] \in Terminals /\ i < j => out[h][j] \in OnWire("new")

\* interrupt_session_activity takes the head of the deque: while a turn runs
\* and is not over, that head is this turn and no turn that waits behind it.
InterruptHitsRunningTurn ==
  \A c \in Chats :
    LET h == active[c] IN
    h # None /\ h \notin terminated /\ lockGen[h] = gen => Peek(c) = h

\* inflight holds every task whose turn is not over, so that a repeated POST
\* is answered in_flight, and no task that nobody is going to take out.
InflightAccurate ==
  gen = 0 =>
    /\ \A h \in DOMAIN task :
         pc[h] # "done" /\ h \notin terminated => task[h] \in inflight
    /\ \A t \in inflight : \E h \in DOMAIN task :
         /\ task[h] = t
         /\ \/ pc[h] # "done"
            \/ \E p \in posts : p.handle = h /\ p.by \in {"interrupt", "disconnect"}

\* A repeated POST never starts a second turn for a task, while the cache is
\* large enough to remember it and the listener has not been restarted.
TaskRunsOnce ==
  gen = 0 => \A g, h \in DOMAIN task : task[g] = task[h] => g = h

\* What the turn answered where the client of h reads kind.
AnswerBehind(kind) == IF kind = "lost_message" THEN "message" ELSE kind

\* The last answer of the turn of h, silent without one.
Answered(h, result) ==
  \/ result = "silent" /\ \A i \in DOMAIN out[h] : AnswerBehind(out[h][i]) \notin Results
  \/ \E i \in DOMAIN out[h] :
       /\ AnswerBehind(out[h][i]) \in Results /\ AnswerBehind(out[h][i]) = result
       /\ \A j \in DOMAIN out[h] : i < j => AnswerBehind(out[h][j]) \notin Results

\* The cached result a repeated POST gets back is the last answer of a turn of
\* this task, or silent for a turn without an answer: its end once it has one,
\* so that the reply is no longer in the cache then, and before that the reply,
\* even one for which the stream carried an error because it was too large.
CacheAgreesWithStream ==
  \A t \in Tasks \ CallbackTasks : Cached(t) =>
    \E h \in DOMAIN task : task[h] = t /\ Answered(h, idem.val[t])

\* A reply made in a turn's context finds that turn again, even long after it
\* ended: _resolve_send_handle never answers callback_expired to it.
ReplyFindsItsTurn ==
  \A h \in DOMAIN task :
    lockGen[h] = gen \/ h \in terminated => ByTask(task[h]) = h

\* A reasoning turn shows its client no reply, nor the error in place of one,
\* before its agent is done.
ReasoningHeldBack ==
  \A h \in DOMAIN task : Reasoning(h) /\ pc[h] \in {"queued", "locked", "agent"} =>
    \A i \in DOMAIN out[h] : out[h][i] \notin OnWire("message")

\* The flushed marks and captured replies of the reasoning buffer belong to
\* tasks that are still registered: they go away with the task.
NoReasoningLeak ==
  gen = 0 => pending \cup flushed \subseteq Keys(callbacks)

\* Every accepted turn ends: no wait for a lock, a slot, an agent or a client
\* lasts for ever.
EveryTurnFinishes ==
  \A h \in Handles : pc[h] = "queued" ~> pc[h] = "done"

\* No task stays in flight for ever.
InflightDrains ==
  \A t \in Tasks : t \in inflight ~> t \notin inflight
=============================================================================
