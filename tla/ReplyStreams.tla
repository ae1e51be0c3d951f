---------------------------- MODULE ReplyStreams ----------------------------
(***************************************************************************)
(* The SSE reply stream: ReplyStreams (streams.py), which retains durable  *)
(* replies per session and fans them out, and the connection coroutine of  *)
(* GET /v1/events (handle_events in listener.py), which writes them.       *)
(*                                                                         *)
(* Every ReplyStreams method is synchronous on the event loop, so each is  *)
(* one action.  The coroutine suspends in every write: captures and other  *)
(* connections run between two frames.  The clock is abstract: backlogs    *)
(* pass their retention period in the order of their last updates.         *)
(*                                                                         *)
(* A client is external.  It reads one connection at a time and, if it is  *)
(* one of Resuming, reconnects with the id of the last event it has.       *)
(***************************************************************************)
EXTENDS Integers, FiniteSets, Sequences, SequencesExt, OrderedDict

CONSTANTS
  Sessions, Clients, Tasks,
  SessionOf,      \* [Clients \cup Tasks -> Sessions]
  Resuming,       \* clients that send Last-Event-ID
  Sizes,          \* payload sizes
  MaxEventBytes,  \* max_event_bytes
  BacklogEvents,  \* backlog_per_session
  BacklogBytes,   \* backlog_bytes_per_session
  MaxSessions,    \* max_sessions
  PerSession,     \* max_subscribers_per_session
  Total,          \* max_subscribers_total
  Expiry,         \* whether a backlog may outlive the retention period
  MaxCaptures,    \* bound: durable payloads
  MaxProgress,    \* bound: transient payloads
  MaxConns,       \* bound: accepted event streams
  MaxRestarts     \* bound: restarts of the process

Conns == 1..MaxConns
Phases == {"unused", "opening", "writing", "waiting", "closed"}

ASSUME StreamAssumption ==
  /\ IsFiniteSet(Sessions) /\ IsFiniteSet(Clients) /\ IsFiniteSet(Tasks)
  /\ Clients # {}
  /\ SessionOf \in [Clients \cup Tasks -> Sessions]
  /\ Resuming \subseteq Clients
  /\ Sizes \subseteq Nat \ {0}
  /\ {MaxEventBytes, BacklogEvents, BacklogBytes, MaxSessions, PerSession, Total}
       \subseteq Nat \ {0}
  /\ Expiry \in BOOLEAN
  /\ {MaxCaptures, MaxProgress, MaxConns, MaxRestarts} \subseteq Nat

VARIABLES
  backlogs,   \* _backlogs, in the order of their last updates
  old,        \* sessions whose backlog is past the retention period
  serial,     \* _next_backlog_serial
  epoch,      \* _epoch
  sub,        \* per connection: its Subscriber and its coroutine
  slots,      \* _subscriber_count
  captured,   \* durable payloads captured so far
  published,  \* transient payloads published so far
  got         \* per client, the frames it received

storeVars == <<backlogs, old, serial, epoch, captured>>
vars == <<storeVars, sub, slots, published, got>>

NoBacklog == [token |-> << >>, next |-> 0, entries |-> << >>, bytes |-> 0]
Fresh(cl, replayed, bytes) ==
  [client |-> cl, live |-> TRUE, pc |-> "opening", pending |-> replayed,
   bytes |-> bytes, transient |-> Empty(Tasks, 0), dropped |-> FALSE,
   wakeup |-> FALSE, batch |-> << >>]
Unused ==
  [Fresh(CHOOSE cl \in Clients : TRUE, << >>, 0) EXCEPT !.pc = "unused", !.live = FALSE]

Session(c) == SessionOf[sub[c].client]
Subscribed == {c \in Conns : sub[c].pc \in {"opening", "writing", "waiting"}}
Bytes(q) ==
  LET sum[i \in 0..Len(q)] == IF i = 0 THEN 0 ELSE sum[i - 1] + q[i].size
  IN  sum[Len(q)]

Init ==
  /\ backlogs = Empty(Sessions, NoBacklog)
  /\ old = {}
  /\ serial = 0
  /\ epoch = 0
  /\ sub = [c \in Conns |-> Unused]
  /\ slots = 0
  /\ captured = 0
  /\ published = 0
  /\ got = [cl \in Clients |-> << >>]
-----------------------------------------------------------------------------
(* Capturing a durable payload.                                            *)

Pruned == Drop(backlogs, old, NoBacklog)

EventCapAlone == MaxEventBytes   \* mutant: may exceed the bytes of a backlog
EventCap == Min({MaxEventBytes, BacklogBytes})

\* deliver_reply replaces a payload that is refused by a short error.
Stored(size) == IF size > EventCap THEN 1 ELSE size

\* The longest tail of q within both limits.
Within(q) ==
  LET tail(k) == SubSeq(q, k + 1, Len(q))
      fits == {k \in 0..Len(q) : /\ Len(tail(k)) <= BacklogEvents
                                 /\ Bytes(tail(k)) <= BacklogBytes}
  IN  tail(Min(fits))

TokenOfSession(s) == <<epoch, 0>>          \* mutant: no serial in the token
NewToken(s) == <<epoch, serial>>

\* The backlog of s after one more payload of a task.
Extended(s, t, size) ==
  LET b == IF Pruned.pos[s] # 0 THEN Pruned.val[s]
           ELSE [NoBacklog EXCEPT !.token = NewToken(s)]
      e == [token |-> b.token, seq |-> b.next, task |-> t, size |-> size,
            stamp |-> captured + 1, durable |-> TRUE]
      kept == Within(Append(b.entries, e))
  IN  [b EXCEPT !.next = @ + 1, !.entries = kept, !.bytes = Bytes(kept)]

Dropped(x) ==
  [x EXCEPT !.dropped = TRUE, !.pending = << >>, !.bytes = 0,
            !.transient = Empty(Tasks, 0), !.wakeup = TRUE]

\* mutants: queued progress outlives the answer; the connection is not woken
QueuedBesideProgress(x, e) ==
  [x EXCEPT !.pending = Append(@, e), !.bytes = @ + e.size, !.wakeup = TRUE]
QueuedAsleep(x, e) ==
  [x EXCEPT !.pending = Append(@, e), !.bytes = @ + e.size,
            !.transient = Drop(@, {e.task}, 0)]
Queued(x, e) ==
  [x EXCEPT !.pending = Append(@, e), !.bytes = @ + e.size, !.wakeup = TRUE,
            !.transient = Drop(@, {e.task}, 0)]

Offered(x, e) ==
  LET y == Queued(x, e)
  IN  IF x.dropped THEN x
      ELSE IF Len(y.pending) > BacklogEvents \/ y.bytes > BacklogBytes
      THEN Dropped(y) ELSE y

Capture(t, size) ==
  LET s == SessionOf[t]
      b == Extended(s, t, Stored(size))
      placed == Put(Pruned, s, b)
  IN  /\ captured < MaxCaptures
      /\ captured' = captured + 1
      /\ backlogs' = Trim(placed, MaxSessions, NoBacklog)
      /\ serial' = IF Pruned.pos[s] # 0 THEN serial ELSE serial + 1
      /\ old' = {}
      /\ sub' = [c \in Conns |->
                   IF c \in Subscribed /\ Session(c) = s
                   THEN Offered(sub[c], Last(b.entries)) ELSE sub[c]]
      /\ UNCHANGED <<epoch, slots, published, got>>

\* Typing or tool activity: kept for live readers only, one per task.
Publish(t) ==
  /\ published < MaxProgress
  /\ published' = published + 1
  /\ sub' = [c \in Conns |->
       LET x == sub[c]
           y == [x EXCEPT !.transient = Put(@, t, captured), !.wakeup = TRUE]
       IN  IF c \notin Subscribed \/ Session(c) # SessionOf[t] \/ x.dropped THEN x
           ELSE IF Cardinality(Keys(y.transient)) > BacklogEvents
           THEN Dropped(y) ELSE y]
  /\ UNCHANGED <<storeVars, slots, got>>

\* The least recently updated backlog passes its retention period.
Age ==
  /\ Expiry
  /\ \E s \in Keys(backlogs) \ old :
       /\ \A r \in Keys(backlogs) \ old : backlogs.pos[s] <= backlogs.pos[r]
       /\ old' = old \cup {s}
  /\ UNCHANGED <<backlogs, serial, epoch, captured, sub, slots, published, got>>
-----------------------------------------------------------------------------
(* Connections.                                                            *)

\* The last event a client received, whose id it sends if it is one of Resuming.
NoEvent == [token |-> << >>, seq |-> 0]
LastEvent(cl) ==
  LET events == {i \in DOMAIN got[cl] : got[cl][i].durable}
  IN  IF events = {} THEN NoEvent ELSE got[cl][Max(events)]

\* _replay_floor: an id of another backlog or of the future counts for nothing.
FloorAhead(b, seen) ==          \* mutant: one event too many is skipped
  IF seen = NoEvent \/ b.entries = << >> THEN -1 ELSE seen.seq + 1
Floor(b, seen) ==
  IF \/ b.entries = << >>
     \/ seen.token # b.token
     \/ seen.seq > Last(b.entries).seq
  THEN -1 ELSE seen.seq

\* The entries above the floor; they are in the order of seq.
ReplayedFrom(b, floor) ==       \* mutant: the last event again
  LET skipped == {i \in DOMAIN b.entries : b.entries[i].seq < floor}
  IN  SubSeq(b.entries, Max(skipped \cup {0}) + 1, Len(b.entries))
Replayed(b, floor) ==
  LET skipped == {i \in DOMAIN b.entries : b.entries[i].seq <= floor}
  IN  SubSeq(b.entries, Max(skipped \cup {0}) + 1, Len(b.entries))

Refused(s) ==
  \/ Cardinality({c \in Subscribed : Session(c) = s}) >= PerSession
  \/ slots >= Total

Subscribe(cl) ==
  LET s == SessionOf[cl]
      b == Pruned.val[s]
      seen == IF cl \in Resuming THEN LastEvent(cl) ELSE NoEvent
      replayed == Replayed(b, Floor(b, seen))
  IN  /\ \A c \in Subscribed : sub[c].client = cl => ~ sub[c].live
      /\ backlogs' = Pruned
      /\ old' = {}
      /\ IF Refused(s)
         THEN UNCHANGED <<sub, slots>>
         ELSE /\ \E c \in Conns :
                   /\ sub[c].pc = "unused"
                   /\ \A d \in Conns : sub[d].pc = "unused" => c <= d
                   /\ sub' = [sub EXCEPT ![c] = Fresh(cl, replayed, Bytes(replayed))]
              /\ slots' = slots + 1
      /\ UNCHANGED <<serial, epoch, captured, published, got>>

\* A client stops reading; its connection does not know yet.
Leave(c) ==
  /\ c \in Subscribed
  /\ sub[c].live
  /\ sub' = [sub EXCEPT ![c].live = FALSE]
  /\ UNCHANGED <<storeVars, slots, published, got>>

SlotFreed == slots - 1

\* The finally block of handle_events.
Closed(c) ==
  /\ sub' = [sub EXCEPT ![c].pc = "closed", ![c].live = FALSE, ![c].pending = << >>,
               ![c].transient = Empty(Tasks, 0), ![c].batch = << >>]
  /\ slots' = SlotFreed

\* The frames of one drain: the durable entries, then the progress.
Progress(c) ==
  LET waiting == sub[c].transient
  IN  [i \in 1..Cardinality(Keys(waiting)) |->
         LET t == CHOOSE u \in Keys(waiting) : waiting.pos[u] = i
         IN  [task |-> t, stamp |-> waiting.val[t], durable |-> FALSE]]

DrainedUncounted(x, frames) ==  \* mutant: pending_bytes is not reset
  [x EXCEPT !.wakeup = FALSE, !.pending = << >>,
            !.transient = Empty(Tasks, 0), !.batch = frames]
Drained(x, frames) ==
  [x EXCEPT !.wakeup = FALSE, !.pending = << >>, !.bytes = 0,
            !.transient = Empty(Tasks, 0), !.batch = frames]

StaysOpen(c) == FALSE           \* mutant: the loop does not test dropped
Ends(c) == sub[c].dropped

\* The head of the loop, up to the first frame or the wait.
Turn(c) ==
  LET frames == sub[c].pending \o Progress(c)
      pc == IF frames = << >> THEN "waiting" ELSE "writing"
  IN  IF frames = << >> /\ Ends(c)
      THEN Closed(c)
      ELSE /\ sub' = [sub EXCEPT ![c] = [Drained(@, frames) EXCEPT !.pc = pc]]
           /\ UNCHANGED slots

Open(c) ==
  /\ sub[c].pc = "opening"
  /\ Turn(c)
  /\ UNCHANGED <<storeVars, published, got>>

Wake(c) ==
  /\ sub[c].pc = "waiting"
  /\ sub[c].wakeup
  /\ Turn(c)
  /\ UNCHANGED <<storeVars, published, got>>

Reaches(c) ==
  LET x == sub[c]
  IN  got' = IF x.live THEN [got EXCEPT ![x.client] = Append(@, Head(x.batch))] ELSE got

Write(c) ==
  LET rest == Tail(sub[c].batch)
      pc == IF rest = << >> THEN "waiting" ELSE "writing"
  IN  /\ sub[c].pc = "writing"
      /\ Reaches(c)
      /\ IF rest = << >> /\ Ends(c)
         THEN Closed(c)
         ELSE /\ sub' = [sub EXCEPT ![c].batch = rest, ![c].pc = pc]
              /\ UNCHANGED slots
      /\ UNCHANGED <<storeVars, published>>

\* A write fails or takes longer than STREAM_WRITE_TIMEOUT_SECONDS.  The frame
\* may have reached the client all the same.
WriteFails(c) ==
  /\ sub[c].pc = "writing"
  /\ Closed(c)
  /\ Reaches(c) \/ UNCHANGED got
  /\ UNCHANGED <<storeVars, published>>

\* The response cannot be opened, a keep-alive fails, or the listener stops.
ConnectionLost(c) ==
  /\ sub[c].pc \in {"opening", "waiting"}
  /\ Closed(c)
  /\ UNCHANGED <<storeVars, published, got>>

\* The process ends and starts again: everything is lost, the epoch is new.
Restart ==
  /\ epoch < MaxRestarts
  /\ epoch' = epoch + 1
  /\ backlogs' = Empty(Sessions, NoBacklog)
  /\ old' = {}
  /\ serial' = 0
  /\ sub' = [c \in Conns |->
               IF c \in Subscribed THEN [Unused EXCEPT !.pc = "closed"] ELSE sub[c]]
  /\ slots' = 0
  /\ UNCHANGED <<captured, published, got>>
-----------------------------------------------------------------------------
Serve(c) == Open(c) \/ Wake(c) \/ Write(c) \/ WriteFails(c)

Next ==
  \/ \E t \in Tasks : Publish(t) \/ \E size \in Sizes : Capture(t, size)
  \/ \E cl \in Clients : Subscribe(cl)
  \/ \E c \in Conns : Serve(c) \/ Leave(c) \/ ConnectionLost(c)
  \/ Age
  \/ Restart

Spec == Init /\ [][Next]_vars

\* The event loop runs a connection that can go on; a write ends within
\* STREAM_WRITE_TIMEOUT_SECONDS, one way or the other.
FairSpec == Spec /\ \A c \in Conns : WF_vars(Serve(c))
-----------------------------------------------------------------------------
(* Correctness.                                                            *)

Entries ==
  [token : Nat \X Nat, seq : Nat, task : Tasks, size : Nat, stamp : Nat,
   durable : {TRUE}]
Frames == Entries \cup [task : Tasks, stamp : Nat, durable : {FALSE}]
Backlogs ==
  [token : (Nat \X Nat) \cup {<< >>}, next : Nat, entries : Seq(Entries), bytes : Nat]

Connections ==
  [client : Clients, live : BOOLEAN, pc : Phases, pending : Seq(Entries),
   bytes : Nat, transient : Dict(Tasks, Nat), dropped : BOOLEAN,
   wakeup : BOOLEAN, batch : Seq(Frames)]

\* Every table holds what its Python type says.
TypeOK ==
  /\ backlogs \in Dict(Sessions, Backlogs)
  /\ old \subseteq Keys(backlogs)
  /\ {serial, epoch, slots, captured, published} \subseteq Nat
  /\ sub \in [Conns -> Connections]
  /\ got \in [Clients -> Seq(Frames)]

\* A client that names its last event never gets an event twice nor an older
\* one after a newer one, over reconnects, expiry, eviction and restarts.
ReceivedOnceInOrder ==
  \A cl \in Resuming :
    \A i, j \in DOMAIN got[cl] :
      i < j /\ got[cl][i].durable /\ got[cl][j].durable
        => got[cl][i].stamp < got[cl][j].stamp

\* What a client that reads a connection has not received yet of the retained
\* events of its session is on its way to it.
NoRetainedEventSkipped ==
  \A c \in Subscribed : sub[c].live /\ ~ sub[c].dropped =>
    \A i \in DOMAIN backlogs.val[Session(c)].entries :
      backlogs.val[Session(c)].entries[i] \in
        ToSet(got[sub[c].client] \o sub[c].batch \o sub[c].pending)

\* No progress report of a task reaches a client after a durable payload of
\* the same task that was captured later.
ProgressIsFresh ==
  \A cl \in Clients : \A i, j \in DOMAIN got[cl] :
    /\ i < j
    /\ got[cl][i].durable
    /\ ~ got[cl][j].durable
    /\ got[cl][i].task = got[cl][j].task
    => got[cl][i].stamp <= got[cl][j].stamp

\* The running counters agree with what they count: a wrong one would refuse
\* or drop readers for ever, or let the retained bytes grow.
CountersAccurate ==
  /\ slots = Cardinality(Subscribed)
  /\ \A c \in Subscribed : sub[c].bytes = Bytes(sub[c].pending)
  /\ \A s \in Keys(backlogs) : backlogs.val[s].bytes = Bytes(backlogs.val[s].entries)

\* A capture is retained when it returns True, whatever had to make room, and
\* the store stays within its limits.
CaptureIsRetained ==
  [][captured' # captured =>
       /\ \E s \in Keys(backlogs') :
            /\ backlogs'.val[s].entries # << >>
            /\ Last(backlogs'.val[s].entries).stamp = captured'
       /\ Cardinality(Keys(backlogs')) <= MaxSessions]_vars

\* An event queued for a connection reaches its client, unless the connection
\* ends, is dropped, or its client stops reading.
QueuedEventArrives ==
  \A c \in Conns, n \in 1..MaxCaptures :
    (\E i \in DOMAIN sub[c].pending : sub[c].pending[i].stamp = n) ~>
      \/ c \notin Subscribed
      \/ sub[c].dropped \/ ~ sub[c].live
      \/ \E i \in DOMAIN got[sub[c].client] :
           got[sub[c].client][i].durable /\ got[sub[c].client][i].stamp = n

\* A reader that was dropped for being slow loses its connection and frees its
\* slot: it can reconnect and resume.
DroppedReaderIsReleased ==
  \A c \in Conns : sub[c].dropped ~> c \notin Subscribed
=============================================================================
