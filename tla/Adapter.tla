------------------------------- MODULE Adapter -------------------------------
(***************************************************************************)
(* The turns and the reply streams together, as a client of the event      *)
(* stream meets them: every payload a turn makes is captured for the       *)
(* session, and a client learns of it over one connection or the next.     *)
(* The reply streams outlive a disconnect of the platform, their           *)
(* connections do not.  Tasks with a callback URL and preludes never meet  *)
(* the streams and are left out.                                           *)
(*                                                                         *)
(* A message of a turn that is over has a task id of its own.  No progress *)
(* is ever reported under one, so its session stands for it.               *)
(***************************************************************************)
EXTENDS Turns

CONSTANTS
  \* of ReplyStreams, beside those it shares with Turns
  Clients, ClientSession, Resuming, Sizes, MaxEventBytes, BacklogEvents,
  BacklogBytes, MaxSessions, PerSession, Total, Expiry, MaxConns,
  MaxTyping   \* bound: typing reports beside the first of each turn

ASSUME AdapterAssumption ==
  /\ CallbackTasks = {} /\ PreludeSessions = {}
  /\ IsFiniteSet(Sessions) /\ IsFiniteSet(Clients) /\ Clients # {}
  /\ ClientSession \in [Clients -> Sessions]
  /\ Resuming \subseteq Clients
  /\ 1 \in Sizes /\ Sizes \subseteq Nat \ {0}
  /\ {MaxEventBytes, BacklogEvents, BacklogBytes, MaxSessions, PerSession, Total}
       \subseteq Nat \ {0}
  /\ Expiry \in BOOLEAN
  /\ {MaxConns, MaxTyping} \subseteq Nat

VARIABLES
  backlogs, old, serial, epoch, sub, slots, captured, published, got,
  log,   \* the handle and the kind of every captured payload, in order
  cut    \* handles ended by somebody else while their dispatch went on

S == INSTANCE ReplyStreams WITH
  Tasks <- Tasks \cup Sessions,
  SessionOf <- [x \in Clients \cup Tasks \cup Sessions |->
                  IF x \in Clients THEN ClientSession[x]
                  ELSE IF x \in Tasks THEN SessionOf[ChatOf[x]] ELSE x],
  MaxCaptures <- 2 * MaxHandles + MaxSends,
  MaxProgress <- MaxHandles + MaxTyping,
  MaxRestarts <- 0

streamVars == <<backlogs, old, serial, epoch, sub, slots, captured, published, got>>
adapterVars == <<vars, streamVars, log, cut>>

AdapterInit == Init /\ S!Init /\ log = << >> /\ cut = {}
-----------------------------------------------------------------------------
(* A step of a turn and what it hands to the streams.                      *)

TaskId(h, kind) ==
  IF kind \in OnWire("new") THEN SessionOf[ChatOf[task[h]]] ELSE task[h]

Lost == {TooLarge[k] : k \in DOMAIN TooLarge}

\* A reply may be of any size, the turn knows whether it was too large; a
\* status is small.
SizesOf(kind) ==
  IF kind \in Terminals THEN {1}
  ELSE {size \in Sizes : size > S!EventCap <=> kind \in Lost}

\* deliver_reply captures what the step added to the payloads of a turn.
Captures(h) ==
  LET kind == out'[h][Len(out'[h])] IN
  /\ \E size \in SizesOf(kind) : S!Capture(TaskId(h, kind), size)
  /\ log' = Append(log, [handle |-> h, kind |-> kind])

ToStreams ==
  /\ cut' = cut \cup {h \in terminated' \ terminated : pc'[h] # "done"}
  /\ LET grown == {h \in Handles : out'[h] # out[h]} IN
     IF grown = {} THEN UNCHANGED <<streamVars, log>>
     ELSE \E h \in grown : Captures(h)

\* _emit_typing of a dispatch that starts.
StartAndReport(h) ==
  /\ Start(h)
  /\ S!Publish(task[h])
  /\ UNCHANGED <<log, cut>>

Proceed(h) ==
  \/ StartAndReport(h)
  \/ (TakeLock(h) \/ AgentReturns(h) \/ AgentFails(h) \/ Settle(h)) /\ ToStreams

\* disconnect waits until the listener has let go of its connections.
ClearWhenAlone == S!Subscribed = {} /\ ClearTables /\ ToStreams

Others ==
  \/ \E t \in Tasks : Accept(t) \/ Duplicate(t) \/ DrainTask(t)
  \/ \E h \in DOMAIN task, kind \in SendKinds : AgentSend(h, kind)
  \/ \E c \in Chats : Interrupt(c) \/ \E kind \in SendKinds : ChatSend(c, kind)
  \/ BeginDisconnect \/ StopListening \/ Connect
-----------------------------------------------------------------------------
(* Progress while a turn goes on.                                          *)

Report(h) ==
  /\ published - Cardinality({g \in DOMAIN task : pc[g] \notin {"queued", "locked"}}) < MaxTyping
  /\ S!Publish(task[h])
  /\ UNCHANGED <<vars, log, cut>>

\* Mutant: the keep-alive goes on after the end of its turn.
StartedOnce(h) == pc[h] \notin {"queued", "locked"}
Alive(h) == pc[h] \in {"agent", "flush", "settle"} /\ h \notin terminated

\* _keepalive of a dispatch.
Keepalive(h) == Alive(h) /\ Report(h)

\* send_typing goes to the turn that is active, over or not, or waits first.
SendTyping(c) ==
  LET h == IF active[c] # None THEN active[c] ELSE Peek(c)
  IN  h # None /\ Report(h)
-----------------------------------------------------------------------------
(* Clients and connections.                                                *)

Listening == phase \in {"up", "draining"}

Connection ==
  /\ \/ Listening /\ \E cl \in Clients : S!Subscribe(cl)
     \/ \E c \in S!Conns : S!Serve(c) \/ S!Leave(c) \/ S!ConnectionLost(c)
     \/ S!Age
  /\ UNCHANGED <<vars, log, cut>>

AdapterNext ==
  \/ \E h \in DOMAIN task : Proceed(h) \/ Keepalive(h)
  \/ Others /\ ToStreams
  \/ ClearWhenAlone
  \/ \E c \in Chats : SendTyping(c)
  \/ Connection

AdapterSpec == AdapterInit /\ [][AdapterNext]_adapterVars

\* The fairness of the turns and that of the connections: a capture never
\* keeps a turn from going on.
AdapterFairSpec ==
  /\ AdapterSpec
  /\ Fairness
  /\ \A c \in S!Conns : WF_streamVars(S!Serve(c))
-----------------------------------------------------------------------------
(* Correctness.                                                            *)

EndOf(n, h) == log[n].handle = h /\ log[n].kind \in Terminals
Ended(cl, h) ==
  \E i \in DOMAIN got[cl] : got[cl][i].durable /\ EndOf(got[cl][i].stamp, h)

\* A turn that ended by itself is not shown busy after its end.  One that was
\* interrupted can be, since send_typing does not ask.
NotBusyAfterEnd ==
  \A cl \in Clients : \A i, j \in DOMAIN got[cl] :
    i < j /\ got[cl][i].durable /\ ~ got[cl][j].durable
      => \A h \in DOMAIN task \ cut :
           EndOf(got[cl][i].stamp, h) => got[cl][j].task # task[h]

\* A client that heard the end of a turn and repeats its POST gets a duplicate:
\* the task is neither in flight nor started again.
EndedIsDuplicate ==
  \A cl \in Clients, h \in DOMAIN task :
    Ended(cl, h) => Cached(task[h]) /\ task[h] \notin inflight

Connected(cl) ==
  \E c \in S!Subscribed : sub[c].client = cl /\ sub[c].live /\ ~ sub[c].dropped
Discarded(h) ==
  \E n \in DOMAIN log : EndOf(n, h) /\
    \A s \in Sessions : \A i \in DOMAIN backlogs.val[s].entries :
      backlogs.val[s].entries[i].stamp # n

\* The recovery story: a client that in the end stays connected learns the end
\* of every chat turn, whenever it was away, unless the end was discarded.
EndReachesReader ==
  \A cl \in Clients : <>[]Connected(cl) =>
    \A h \in Handles :
      (pc[h] = "queued" /\ ~ Reasoning(h)
         /\ SessionOf[Chat(h)] = ClientSession[cl])
        ~> Ended(cl, h) \/ Discarded(h)
=============================================================================
