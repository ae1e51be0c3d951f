# A TLA+ verification of the Hermes StageWhisper plugin

The plugin is a platform adapter of the Hermes agent. A desktop or mobile
client POSTs events (chat messages, final transcript chunks, preludes) to
`/v1/incoming`; the adapter dispatches each to the agent and delivers what the
agent sends to the client, over a server-sent event stream that the client holds
open or by POSTing to a callback URL that came with the event.

This directory holds TLA+ models of the parts that carry state across requests
and of how they work together, TLC configurations that check them on small
instances, and TLAPS proofs for every value of their constants. All paths below are relative to
`src/hermes_stagewhisper_plugin/`.

## The system

| Component | State | Operations | Talks to | What is hard |
|---|---|---|---|---|
| Turn lifecycle (`adapter.py`, `callbacks.py`) | deques of open turns per chat, the task table, the active turn per chat, chat locks and the slot semaphore, `inflight`, the idempotency cache, closed turns | accept, dispatch, settle, terminate, send, edit, draft, interrupt, disconnect, connect | ingress, agent, reply streams, callbacks | every delivery to a callback suspends; four parties may end a turn; clients retry; the agent may send after its turn; disconnect does not stop dispatches |
| Ingress (`listener.py: handle_incoming`) | none of its own (preludes and caches of the adapter) | accept, duplicate, in_flight, prelude | turn lifecycle | a repeated POST at any moment of a turn |
| Reasoning buffer (`reasoning_buffer.py`) | captured reply and flushed mark per task | capture, flush, discard, forget | turn lifecycle | marks that outlive their task; a flush that fails |
| Reply streams (`streams.py`, `listener.py: handle_events`) | per session a bounded backlog with ids; per reader a queue, coalesced progress, a dropped flag, a wakeup event | capture, publish, subscribe with a cursor, drain, drop, expire, evict, unsubscribe | turn lifecycle, clients | captures between two writes, slow readers, reconnects with old ids, restarts |
| Callback delivery (`delivery.py`, `adapter.py: _post`) | the attempts a delivery has made, the HTTP session | four attempts with a timeout and a backoff, one for progress | turn lifecycle, clients | the client may have processed what the adapter counts as failed; the session closes under a retry |
| Draft streaming (`draft_stream.py`, `adapter.py: edit_message, send_draft`) | per task the open text part and what was sent of it; the texts given as messages of ended turns | emit, finalize, discard, flush | turn lifecycle | drafts that are rewritten rather than extended; a turn that ends, times out or is disconnected in the middle of an edit |
| Library model endpoint (`llm_*.py`) | `refused_by_host`, a task per streamed request | ping, complete, stream | Hermes host | a client that leaves or stalls during a completion; a host that never answers; a refusal that crosses a ping |
| Members of a host (`ops/*.sh`, `ops_runner.py`) | OS users, systemd units, profile files | provision, roll back, revoke | the host, pairing settings, the gateway of the member | failure or death between two steps; two runs at once; a gateway that keeps the settings it started with |
| Pairing settings (`config.py`, `cli.py`) | the token and the ingress hosts in a profile's `.env` | pair-code, unpair, load, save | provisioning, the gateway | what is read before another command writes; one temporary file for all writers |
| Profile files (`secure_fs.py`, `profile_seed.py`, `install.py`) | provider keys, credentials and shim of a profile | seed, install | provisioning | a run rewrites the `.env` that holds the keys and restores them two steps later |
| Command line, registration, wire schema (`register.py`, `models.py`, ...) | none between calls | | | pure functions of one call |

What makes them correct:

* **Turns.** Turns of a chat run one at a time. A turn makes at most one end
  of itself, and with no other failure exactly one. Nothing on the event stream
  follows that end under the same task id; the `errored` status that takes the place of a
  reply too large for the stream is not that end. A repeated POST never starts
  a task twice. An interrupt ends the turn that runs. A reply finds the turn it
  was made in, however late. A reasoning turn shows nothing before its agent is
  done. Every accepted turn ends and leaves the in-flight table.
* **Reply streams.** A client that resumes gets every retained event it has not
  got, once and in order, across trimming, expiry, eviction and restarts. Progress
  is never shown after a later answer to the same task. Limits hold, the newest
  event always survives them, and a slow reader is released.
* **Turns and streams together.** A client that in the end stays connected
  learns the end of every turn that was not discarded. It is not shown busy
  after that end, and a POST it then repeats is a duplicate.
* **Deliveries.** A success means that the client has the payload; a reply
  arrives at most four times and a typing status at most once; every delivery
  returns.
* **Drafts.** A client can place every chunk, shows only text that two drafts
  in a row agreed on or that is final, and has every final text whose edit
  succeeded, or an error in its place, whenever its turn ended.
* **Library model.** No host call outlives its request, a client that leaves
  stops its call, one that stays is told the outcome, and a refusal keeps the
  endpoint off until the next ping.
* **Members.** A run that fails undoes what it made and nothing else, as far as
  the host lets it. A revoked token stays refused across restarts, reboots and later runs. An
  account of somebody else is not taken over. A code that is printed is a code the running
  gateway accepts. A run that succeeds without a warning leaves the provider keys in place.

## Modules

| Module | Role |
|---|---|
| `OrderedDict` | `collections.OrderedDict` as the caches use it: a value and a place per key |
| `Turns` | the turn lifecycle, the ingress handler, the reasoning buffer, callback deliveries as the turn sees them |
| `ReplyStreams` | the retained backlogs and the event-stream connections |
| `Adapter` | `Turns` and `ReplyStreams` composed: turns capture and publish, readers come and go |
| `Delivery` | what a turn counts on when it awaits a delivery to a callback URL |
| `CallbackDelivery` | the attempts, timeouts and sessions behind such a delivery; implements `Delivery` |
| `Display` | what the reader of a draft may count on |
| `DraftStream` | parts, deltas and the flush after a turn; implements `Display` |
| `LibraryModel` | the handlers and host calls of the Library model endpoint |
| `Members` | the commands for one member of a host, its files and its gateway |
| `MCTurns`, `MCReplyStreams`, `MCAdapter`, `MCCallbackDelivery`, `MCDraftStream`, `MCLibraryModel`, `MCMembers` | small instances for TLC |
| `OrderedDict_proofs`, `Turns_proofs`, `Adapter_proofs`, `ReplyStreams_proofs`, `DraftStream_proofs`, `CallbackDelivery_proofs`, `LibraryModel_proofs`, `Members_proofs` | theorems and proofs |

### Turns

An action is the code between two awaits that really suspend. A delivery to the
event stream never suspends (`capture_durable` is synchronous), so it belongs to
the action that makes it. A delivery to a callback URL does: the payload is put in
`posts`, the client may receive it (`Receive`), and the waiting coroutine
goes on in `SendReturns`, `FlushReturns`, `EndingReturns` or `TerminateReturns`
with success only if the client has the payload, and possibly with a failure although
it has. The n-th accepted event is handle n; a task may have several handles.

| Variable | Code |
|---|---|
| `task`, `pc`, `lockGen` | the handle's `task_id`, where its `_dispatch` is, which `_chat_locks` table its lock is from |
| `terminated`, `delivered` | flags of the `CallbackHandle` |
| `queue` | `_callbacks`; a deque is the set of its handles in accept order |
| `active`, `callbacks`, `closed`, `idem`, `inflight`, `prelude` | `_active_handles`, `_task_callbacks`, `_closed_turns`, `idem`, `inflight`, `_preludes` |
| `pending`, `flushed` | the reasoning buffer |
| `phase`, `draining`, `gen` | where `disconnect` is, the tasks it has still to visit, how often the tables were cleared |
| `posts`, `out`, `sends` | deliveries awaited, what each client got, the number of sends |

`Accept`, `Duplicate` and `StashPrelude` are the ends of `handle_incoming`;
`TakeLock`, `Start`, `AgentReturns`, `AgentFails` and `Settle` are the segments of
`_dispatch`; `AgentSend` and `ChatSend` are `send`, `edit_message` and
`send_draft` with the two ways `_resolve_send_handle` routes; `Interrupt` is
`interrupt_session_activity`; `BeginDisconnect`, `DrainTask`, `StopListening` and
`ClearTables` are the segments of `disconnect`.

Abstractions: times (the settle loop, the agent timeout and the two seconds of
`disconnect` may end at any moment, so every real timing is covered); texts (see `DraftStream`); an invalid callback URL (ingress refuses it); a
missing gateway base class. The slot semaphore is a bound on running turns
without its FIFO order, which allows more orders than the code. `accept_event`
and the first step of its dispatch task are one action.

A payload too large for the stream is replaced by a status `errored` (`reply_too_large`) under the
same task id, and the call succeeds all the same (`delivery.py:64-77`): `Streamed` shows either, by
the turn's choice, and everything after it, the cache included, goes on as if the payload had been
shown. `out` keeps the two apart (`TooLarge`, `OnWire`), and so can the properties: the error in place of a reply
is not counted as an end of its turn. The client cannot always tell: it sees `errored`
and later a second status. In `Adapter` it is the size of a payload that decides (`SizesOf`).

### ReplyStreams

Every method of `ReplyStreams` is synchronous: one action each. The connection
coroutine is `Open`, `Wake` and `Write`, with a suspension in every frame; a
client that left is a connection with `live = FALSE`, whose writes go nowhere
until one fails. Clients are external: they read one connection at a time, and
those in `Resuming` send the id of the last event they have. The clock is a set:
backlogs grow `old` in the order of their updates, and the next `subscribe` or
capture prunes them. `slots`, `bytes` of a backlog and `bytes` of a reader are
kept as the code keeps them, so that `CountersAccurate` can compare them with
what they count.

### Adapter

The two modules share no variable in the code either: a turn meets the streams in
`deliver_reply` and `_emit_typing`, and a connection meets the turns only through
`disconnect`. So a step of `Adapter` is a step of `Turns` and, when that step adds a
payload to `out`, the `Capture` of it for its session (`ToStreams`); `StartAndReport`
publishes the first typing status; `Keepalive` and `SendTyping` are the tasks that
report progress later, which `Turns` has no use for; `ClearWhenAlone` waits until
the listener has let go of its connections; `Connection` is a step of
`ReplyStreams`. `log` says which turn and kind a captured payload is, and `cut` which
turns somebody else ended while their dispatch went on.

Tasks with a callback URL and preludes never meet the streams and are left out. A
message of an ended turn has a new task id in the code; as no progress is ever
reported under one, the session stands for it. Expiry and restarts of the process
are left to `StreamsResume`: they discard an end, which `EndReachesReader`
allows.

### Delivery and CallbackDelivery

A delivery is a coroutine (`pc`, `attempt`); a request on the `wire` is handled by
the client or lost, possibly long after its attempt timed out, and the answer
counts only while its attempt waits. `Begin`, `Post`, `Answered`, `TimesOut` and
`Cancel` are `retry_callback` over `_post`, `CloseSession` and `OpenSession` what `connect`
and `disconnect` do to `_client`. Statuses go through `Classify` as in
`delivery.py`. The one thing assumed of a client is that it does not answer 2xx to a payload it
did not take. The length of the backoff is left out: another attempt may come at any time.

`Delivery` is what `Turns` builds in: a success only for a payload the client has, a failure at any
time, and an end of every delivery that is not cancelled. `ImplementsDelivery` shows it,
fairness included.

### Display and DraftStream

`turns` is `StreamChunkTracker._turns`, `uuids` counts the part ids drawn, `flushed` is
`_terminated_stream_flush`. `Edit` is `edit_message` and `send_draft`: `EditOpen` for
an open turn (`Advanced` is `_advance` and `emit`), `EditEnded` for one that is over. On the event
stream an edit is one step, and text too large for it has an error in its place while the edit
succeeds and the tracker goes on (`Replaced`); on a callback URL its chunks are posted one by one, each of
which may be lost, repeated or cut off (`Posted`, `TimesOut`), once in the life of a task.
`Terminate`, `DispatchEnds` and `Disconnect` are how the turn ends around it. The agent edits
the drafts of a task one after the other; each `Returns` what the code returns.

The client (`Takes`) appends deltas to the part that is open, and marks itself lost when a
chunk has no place. It has `read` a final text that came whole and was `told` of one with an error
in it. Texts are sequences of integers, an integer standing for a
stretch of text that drafts keep or change as a whole.

`Display` knows nothing of parts: a client shows a text on which two drafts in a row agreed, or
the final one. `ImplementsDisplay` maps a task whose chunks are under way to what its client shows once
they are there.

### LibraryModel

`refused` is `HostLlm.refused_by_host`, which every refused host call sets and every ping clears.
`pc` is the handler of a request (`handle_chat_completions`, `_stream`), `call` the host
call it waits for, for a streamed request a task of its own. A client reads, stalls (then
a write waits, as it has no time limit) or leaves; that it left is known to aiohttp only after
`ConnectionLost`, and to the handler only at its next write. `Stop` is the end of the
listener, which cancels the handlers.

### Members

A command is a process that goes through the steps of its script, one action for
each change it makes to the host; `pc` is the step it is at. It can fail at a step
(`StepFails`, which goes where `fail` of `lib/common.sh` goes), be killed between two
(`Kill`), or die with the host (`Reboot`).

| Variable | Code |
|---|---|
| `account`, `unit`, `enabled` | the OS user and whose `useradd` made it, the unit file, `systemctl enable` |
| `env`, `tmp` | the profile's `.env` and the `.env.tmp` of `save_pairing` |
| `gateway` | the settings the running unit was started with (`EnvironmentFile` is read at start) |
| `hook`, `draft` | `ON_FAIL_HOOK`; the settings a command has read and will write |
| `apart`, `handed`, `revoked`, `cold` | history: no two commands overlapped; tokens in printed codes; those handed out before a successful revocation; commands that started the gateway themselves |
| `warned`, `stuck`, `leftover` | history: runs that only warned of missing keys; runs whose rollback could not delete the account; a member was deleted and its unit has been there ever since |

`EnsureUser`, `Prepare`, `WriteEnv`, `RenderUnit`, `Enable` and `Verify` are
`provision-member.sh` up to the line that clears the hook; `UndoService`, `UndoUnit` and `UndoAccount` are its
`rollback`, of which the first and the last may fail and are ignored (`|| true`): the service may stay enabled or
go on running, and `userdel` refuses then, or for reasons of its own. A `userdel` that fails half-way is
not modelled, nor an `rm -f` of the unit file that fails, which ends the script as `Kill` does. The pairing code at its end is `stagewhisper-hermes pair-code`: `Load`, `Save`,
`Rename`, `PrintCode`, which a command of its own runs too. `StopService` and `WipeEnv` are
`revoke-member.sh`. A token is named by the command that drew it, since 48
random characters never repeat. The credentials, the shim and the
directories are part of steps that may fail; putting the port on the tailnet only
warns and is left out. `keys` says that `.env` holds the provider keys that the member's
configuration names: `WriteEnv` writes a file without them (`ensure_env_file`), `Seed` merges them back or only
warns that there is no profile to copy from (`provision-member.sh:190`), or no credentials or keys in
it (`profile_seed.py:186`, `236-255`), and the run goes on; `save_pairing` keeps what it has read. Keys of which some are found
and some are not count as missing. Root and systemd are external; what an operator is told to do by hand
(`RemoveEnvByHand`, `DeleteMember`) is an action: a member is deleted by `userdel -r` alone, which leaves the unit file.

## Runs

| Run | Instance | Shows |
|---|---|---|
| `TurnsStream` | two tasks of one chat and a reasoning task on the event stream, one slot, three handles, two sends of a message or a chunk of any size, retried POSTs; the two tasks of the chat are interchangeable (`SYMMETRY`) | the tables are of their types; a task runs once; the cache agrees with what the turn answered; late replies find their turn; the reasoning buffer does not leak |
| `TurnsReconnect` | two tasks of one chat, one on a callback URL, two slots, a disconnect and connect, preludes, notices | chats are serialized, a turn ends once, nothing follows its end on the stream, an interrupt hits the turn that runs |
| `TurnsLive` | a stream task and a callback reasoning task, one slot, under fairness | every turn finishes; `inflight` is accurate and drains; reasoning is held back |
| `StreamsResume` | one resuming client, two sessions of which one backlog is kept, four captures of two sizes, two connections, a restart, expiry | resumption is exact; captures are retained; counters agree |
| `StreamsLive` | a resuming and a fresh client, backlogs and queues of one or two entries, two captures, a progress report, under fairness | progress is fresh; queued events arrive; dropped readers are released |
| `AdapterReader` | a chat turn and its resuming client, two connections, a backlog of one event, replies that fit and that do not, one reply, one more typing report, a reconnect of the platform, under fairness | the end of a turn reaches its reader, is the last sign of it, and makes a repeated POST a duplicate |
| `CallbackRetries` | a reply and a typing status, four attempts, five statuses, two sessions, under fairness | bounded copies; `CallbackDelivery` implements `Delivery` |
| `Drafts` | a draft on the stream of a reasoning turn and one on a callback URL, three edits of four texts, a memory of one text, chunks on the stream that fit or do not | chunks have their place, final texts are shown or an error in their place, no message is repeated; `DraftStream` implements `Display` |
| `LibraryCalls` | a streamed and a plain request, two pings, under fairness | no orphan calls, off until a ping, an abandoned call stops, a patient client is told |
| `MembersCommands` | two provisioning runs (one for a loopback URL, one for the tailnet), a pair-code, an unpair and a revocation in any order, up to two at once, with failures, warnings, rollbacks that do not get through, kills, restarts, reboots and a deletion by `userdel` | a rollback undoes its own run; what half-made accounts come from; a revoked token stays out; foreign accounts are left alone; a run that started the gateway prints a code it accepts; a run that succeeds without a warning leaves the provider keys |
| `TurnsRepost` | a chat task on a callback URL, accepted up to three times | a violation, see below |
| `MembersRerun` | two provisioning runs, one after the other | a violation, see below |

Why these bounds: a turn has at most two rivals for its lock and one slot is
enough to make turns wait; two sends distinguish a reply from a late one; three
entries of a cache of three let a retried POST meet every state of its task. In
the streams, limits of one or two entries make every capture trim, every second
one drop a reader, and any capture of the second session evict the first. In the
composition one turn makes up to three payloads and two progress reports for a backlog of one. A
text of a draft can grow, shrink, be rewritten and be empty, and a third edit follows a final one or a
rewrite. A member meets every sequence of up to five commands,
and a second provisioning run is the least that finds what a first one left; two at once are the least that overlap.
`MembersCommands` tells its states apart by a `VIEW`, `Seen`, without which it has more than ten times as many: it leaves out what
a command that is over leaves in `hook`, `cold` and `warned`, which nothing reads again, and, once commands have overlapped, the history
that only properties of commands that do not overlap speak of. The proofs need no such view.

Deadlock is not checked: a system with no client to serve and a host with no command to
run rightly stop, and the
bounds stop them too. The liveness runs show that turns and connections do not.

Fairness. `TurnsLive` assumes that the event loop runs every dispatch that can
go on, that the agent call is cut off by `AGENT_HARD_TIMEOUT_S`, the settle loop by
its deadline and a delivery by its four attempts of five seconds. `StreamsLive` assumes that the loop
runs a connection and that a write ends within `STREAM_WRITE_TIMEOUT_SECONDS`.
`AdapterReader` assumes both, the second for every connection. `CallbackRetries` shows
what `TurnsLive` assumes of a delivery, from an attempt that ends within `CALLBACK_TIMEOUT_S` and a
backoff that ends. `LibraryCalls` assumes that the loop runs a handler that can go on and that a
closed connection is found out; a stalled client is not obliged to read, nor the host to answer.
Clients, agents' sends, interrupts, failures and reconnects are never
obliged to happen.

### Disagreements found

Two runs state what a document or a test says and end in a counterexample:

* `TurnsRepost`: an interrupted turn on a callback URL leaves `inflight` while its
  end is still being delivered; a repeated POST starts the task again and its
  `inflight` entry is then removed by the old delivery.
* `MembersRerun`: a member set up without a tailnet is told to install it and
  run the command again. The second run writes the new host to `.env` but `systemctl
  enable --now` leaves the running gateway as it is, and the code that is printed names a host
  the gateway refuses until it is restarted.

Seen while modelling, and not run. The first four contradict a document or a test, and the properties that come near them say
which case they leave out:

* `tests/integration/test_end_to_end.py:270` repeats a POST after its reply was delivered and asks for
  that reply. The end of the turn replaces the reply in the cache (`adapter.py:431`), so that
  the answer is then a status without it; the test repeats its POST before the turn has ended. `CacheAgreesWithStream` says
  what the code answers, not what the test asks for;
* `ops/README.md:183` says that a failed run does not leave a half-provisioned member. A rollback
  whose `userdel` refuses leaves an account without a unit, reports that it is complete, and no later run adopts the
  account (`stuck` in `NothingHalfMade`);
* `ops/README.md:236` calls `userdel -r` sufficient to delete a member. The unit file stays, and it is
  what `ensure_os_user` (`provision-member.sh:93`) knows a member by: an account of that name made later for somebody
  else is adopted (`leftover` in `ForeignAccountUntouched`, which TLC finds violated without it);
* `ops/README.md:138` says that a re-run only mutates state that is not in place. A run that
  fails between `ensure_env_file` and the seeding, or only warns there, leaves a working member's `.env` without the
  provider keys and without any line added by hand (`warned` in `ProviderKeysStay`, which speaks of the codes that are printed);

* `disconnect` clears the chat locks under running dispatches (`adapter.py:285`); a turn accepted
  after the reconnect runs beside them, where `tests/unit/test_callback_dispatch.py:1312` asks
  for one at a time (`lockGen` keeps the two apart in `ChatSerialized`);
* an interrupt that comes while the agent of an interrupted turn still runs finds the next
  queued turn at the head and ends it;
* with as many busy tasks as the cache holds, the registration of the turn just accepted is evicted
  (`TurnsStream` has a cache that is large enough);
* a prelude goes to the dispatch that starts next, which may be of a message that came before it;
* `send_typing` (`adapter.py:759`) does not ask whether the turn is over: an interrupted client can be
  shown busy after the end (`NotBusyAfterEnd` leaves out `cut`);
* a reply too large for the stream becomes a status `errored` under the same task (`delivery.py:64`), although
  its turn goes on and later ends with a status of its own, and `send` and `edit_message` return success; the reply is in the
  cache until the end. No document says how a client tells that error from an end, so that no run states it;
* on a callback URL a late send of a reasoning agent may arrive before the buffered reply, and a reply
  that was being retried may arrive after the end and replace it in the cache; no document orders them;
* what a reasoning agent drafts after its turn, without finishing it, stays in the tracker until
  `disconnect`;
* a refused host call that was under way when a ping came turns the Library model off again;
* a provisioning run that fails to print its code is not rolled back;
* a run that is killed between `useradd` and the unit leaves an account that later runs refuse to adopt.

`InflightAccurate`, `TaskRunsOnce` and `NoReasoningLeak` speak of the
time before the first reconnect (`gen = 0`), and `TurnsLive`, where `InflightAccurate` is checked,
has clients that do not repeat a POST (`TurnsRepost` has those that do).
`TurnsStream` has room for every task in its tables, so that what is forgotten or evicted by smaller ones is outside of
`TaskRunsOnce`, `ReplyFindsItsTurn` and `NoReasoningLeak`.
The properties of `Members` that begin with `apart` speak of commands that do not
overlap: nothing locks a profile, and a command that has read a token
before a revocation may write it back after it. `RollbackUndoesOwnRun` holds of
overlapping runs too, in its first part.
The repository's README also says that every retained answer is replayed on connect; a
client that sends `Last-Event-ID` gets only what follows it.

## Proofs

`OrderedDict_proofs` has what the operations of the ordered dictionary return:
a dictionary of the same type whose places are 1, 2, ... in the order of the writes (`InOrder`), so
that trimming drops the oldest keys and no more than it has to.
`Turns_proofs` proves, for every finite set of tasks, any assignment of chats, any cache size,
number of slots and bounds:

* `TypeCorrect == Spec => []TypeOK`. `TypeOK` is inductive as it stands because it says of
  every awaited delivery which payload its sender can have made.
* `ChatsAreSerialized == Spec => []ChatSerialized`. `ChatSerialized` alone is not
  inductive: a delivery whose dispatch waits for it could be taken to resume a
  dispatch that is elsewhere. `LockInv` adds `AwaitedByDispatch` (the answer to a
  flush or an ending finds its dispatch in the place that waits for it); then only
  `TakeLock` adds a holder (`LockStep`), and its guard excludes the others.

Its second part proves what a client is told of an end, the errors in place of oversized replies left aside:

* `OneEndOfATurn == Spec => []OneTerminal` and `NothingAfterTheEnd == Spec => []QuietAfterTerminal`.
  The actions of `Turns` do one of four things to the payloads of a turn, `Effect`: nothing
  (`Silent`), end it (`Ends`), say something else (`Says`), or the client receives a delivery. Each action
  is shown to have such an effect, and the invariant `EndInv` is shown for the four effects instead of
  some twenty actions. `EndInv` adds to the two properties that deliveries are awaited only for tasks with a callback
  URL (`PostsOnCallback`), that a terminal which was shown or is awaited belongs to a terminated handle
  (`ToldIsOver`, `PostedIsOver`), and that one delivery of it is awaited at most (`OneEndPosted`): without
  the last, two could both be received.

It also proves `InterruptIsExact == Spec => []InterruptHitsRunningTurn`. The deques and the chat locks
are kept by different steps. What ties them is that both are in accept order: `OpenIsQueued` and `QueuedIsOpen`
say which turns a deque holds, `FirstCome` that none gets the lock before an earlier one of its chat, and
`ActiveRuns` that the chat's active turn is one that runs. A step takes the lock, accepts a turn, moves a dispatch
on (`RunStep`), ends a turn from outside (`Oust`) or leaves all of it alone (`Still`).

Its last part is about what the tables know of a turn.

* `OneTurnPerTask == Spec => []TaskRunsOnce`, if clients do not repeat a POST or if the cache `Remembers`: it has room for every task
  and no task has a callback URL. `Memory` says that every accepted task is in flight or cached and
  every terminated one cached; a step forgets nothing of it (`Remember`), except `ClearTables`, which is why the property
  speaks of the time before a reconnect. Both parts of the assumption are needed: a small cache forgets, and a turn whose end a callback
  URL does not take is cached never (`TurnsRepost`).
* `InFlightIsExact == Spec => []InflightAccurate`, under the same assumption. A step takes out of the table the tasks of turns
  that leave or end in it (`Frees`); that none of them is wanted by another turn is `Once`, that no two turns have one task.
* `ReasoningLeavesNothing == Spec => []NoReasoningLeak` and `RepliesFindTheirTurn == Spec => [](Once => ReplyFindsItsTurn)`, for
  caches with room for all tasks (`Roomy`). `Registered` places every turn that can still reply in one of the two tables, and
  `Moves` takes it from the first to the second. With a smaller cache an eviction may drop a turn that was
  just accepted, and TLC finds both properties violated with `DedupCap = 1`.
* `ReasoningIsHeldBack == Spec => [](Once => ReasoningHeldBack)`, for caches of any size. A reply is shown early only if
  its task is marked as flushed, and a mark is set by a dispatch that is past its agent (`FlushedIsLate`).
* `CacheTellsTheStream == Spec => [](Once => CacheAgreesWithStream)`, for caches of any size: the cache has the last answer the turn
  made, also where the stream carried an error in its place (`AnswerBehind`). `Filing` says what a step
  does to the cache and to the streams: it files a result and shows it, or the error in its place, in the same step (`Files`), files one
  of a turn with a callback URL (`FilesOther`), files the silence of a reasoning turn whose agent has
  returned (`FilesSilent`), or files nothing and shows no result (`FilesNothing`). The third case rests on the two earlier parts: such
  a turn has shown no reply (`Held`) and no terminal (`EndInv`).

`Once` is a condition on the run so far: it stays false when it is false (`OnceBefore`), so that each invariant `Once => ...`
can be proved inductive without an assumption on the clients. A client that repeats a task before it is cached, after a reconnect or after an
eviction, makes it false; `ReasoningHeldBack` then fails, for the mark of the first turn lets the second one's reply through, and
so does `CacheAgreesWithStream`, for the result of the first turn is replaced by that of the second or kept for it (TLC
finds it with `DedupCap = 1` and repeated POSTs).

`ReplyStreams_proofs` proves, for any sessions, clients and tasks, any limits and any number of payloads,
connections and restarts:

* `StreamTypes == Spec => []TypeOK` and `StreamCounters == Spec => []CountersAccurate`, from the invariant `Shape`:
  `TypeOK`, `Stores` (every retained backlog is a `Run`: one token that was drawn, rising numbers and times, ending in
  the newest; a session without one has `NoBacklog`) and `Readers` (a connection writes while it has a batch, a
  dropped or closed one has nothing queued, and no client has two connections that it reads). That `Within` keeps
  the last event follows from the limit of `EventCap`, and what `Bytes` adds up from the lemmas on its sums.
* `StreamRetains == Spec => CaptureIsRetained`: the backlog that was written is the newest of the dictionary,
  which `Trim` never drops.

Its second part is about what clients receive: `StreamOrder == Spec => []ReceivedOnceInOrder`,
`StreamNoGap == Spec => []NoRetainedEventSkipped` and `StreamProgress == Spec => []ProgressIsFresh`. None of the three is
inductive: what a client will have received depends on the batch being written, on the queue and on what a later
reconnect replays. The proof looks at the *line* of a connection, what its client received followed by its batch
and its queue, and at the frames a client received before it connects again. `Regular` says of both that every event in them is
`Recorded`: its token was drawn, and against the backlog of its session as it is now, it is ordered by number as it is by
time if the tokens agree, and older than every entry if they do not. For a client that resumes, the
events are also `Ascending`, and an entry not newer than one of them is among them (`Complete`). The line of a
connection that is not dropped is `Whole`: it has every entry. `Regular` survives whatever happens to
the backlog (`RegularGrows`, `RegularLater`, `RegularNew`), and `FloorResumes` is the heart of it: with the number of the last
event as floor, or none if its token is another, the replay begins exactly where the line ends.

`Adapter_proofs` proves of turns and streams together, for any sessions, clients, limits and connections:

* `TurnsAreTurns == AdapterSpec => Spec`: a behaviour of the composition is one of `Turns`, so that all that is proved
  of `Turns` holds in it. The streams never keep a handler from what it does without them.
* `StreamsAreStreams == AdapterSpec => S!Spec`: it is one of `ReplyStreams` as well, where a message of an ended turn has its session for a
  task; `StreamConstants` shows that the constants it gives them satisfy `StreamAssumption`. What is proved of `ReplyStreams` holds in it, too.
* `RepeatIsDuplicate == AdapterSpec => []EndedIsDuplicate`, if the idempotency cache has room for every task (`DedupCap >=
  Cardinality(Tasks)`; with a smaller one it forgets ends that clients have read).
* `EndedTurnsAreQuiet == AdapterSpec => [](Once => NotBusyAfterEnd)`, for caches, backlogs and limits of any size. `Once` is
  needed: the first turn of a task ends while its second one reports progress.

Each action is first shown to be a step of `Turns` or to leave it alone (`StepsOfTurns`), so that all that is known of the effects of
such a step can be used. The steps are then of four kinds (`Effects`): a step of `Turns` captures one
payload (`CapturesOne`) or none (`Rests`), a turn that goes on reports progress (`Reports`), or a connection or the clock
goes on (`Connects`). `JointInv` is what they keep: the invariants of the turns (`EndInv`, `OrderInv`), `LogInv`, that `log` has an entry
per capture and a terminal in it is of a terminated turn, and `Streams`, that whatever a backlog, a queue, a batch or a client
holds was captured. So an end that a client read is of a terminated turn, whose result is in the cache (`Memory`).
That a turn is quiet after its end needs more, since progress and answers wait in different places. `CalmInv` says that no
progress follows the end of its task in what a client has, nor in what it will have when it has read the batch being written
(`Line`), and that progress that waits is of no finished task. The last part is what ties the three: progress is reported only for
a turn that runs, and the capture of an end removes the progress of its task from every reader of its session (`Takes`). So what a
drain puts behind the answers of the queue cannot come after an end. A client keeps all that when it leaves one connection for
another, since it reads one at a time.

`DraftStream_proofs` proves, for any tasks, any texts, any number of edits and any size of the memory of ended turns:

* `ChunksFindTheirPlace == Spec => []EveryChunkHasItsPlace` and `FinalTextsAreShown == Spec => []FinalTextShown`. While an edit
  posts its chunks one by one the tracker is already ahead of the client, so that the invariant speaks of `Seen`, what the client
  will have made of its chunks when the rest has come. Errors in place of text keep a client in step: it has the parts, if not their text, and
  `FinalTextShown` counts what it was told of. `InStep` says that this agrees with the tracker (the part is open,
  its text is what was sent), and `Promising` that the final text of an edit under way is on its way. `AdvancedShows` is the heart of it:
  the chunks of one draft, opening, delta and closing, take a client in step to one in step with the next state.
* `MessagesDiffer == Spec => []NoRepeatedMessage`. What was given last is still in the memory (`LastIsRemembered`), because the memory drops its
  oldest text and holds one at least, and no edit under way posts it again (`NextIsAnother`).
* `DraftsKeepDisplay == Spec => ImplementsDisplay`: the initial state and every step map to those of `Display`. `Display` states no
  fairness, so that this is the whole refinement. An edit maps to `Draft`, to `Final` or to nothing, according to the tracker's state before and
  after it; the chunks of an edit under way, which the client takes one by one, change nothing of what it shows in the end.

What a client makes of a sequence of chunks, `TakesAll`, is a recursive function. That it exists, is typed and takes a
concatenation piece by piece is proved by least counterexample over the positions of the sequence; so is what is used of `LongestCommonPrefix`.

`CallbackDelivery_proofs` proves, for any deliveries, statuses and number of attempts:

* `DeliveriesTyped` and `CopiesAreBounded == Spec => []BoundedCopies`. `Inv` says that an attempt is made only
  while one is left (`AttemptsLeft`) and that a request, handled or not, was sent by an attempt (`SentByAttempt`).
  The copies of a delivery are then among as many requests as it has attempts.
* `DeliveriesKeepContract`: initial states and steps map to those of `Delivery`. A success needs
  `SuccessMeansTaken`: an answer 2xx is there only if some copy was taken.

`LibraryModel_proofs` proves, for any requests, streamed or not, `NoCallIsOrphaned == Spec => []NoOrphanCall` and
`RefusedUntilPing == Spec => []OffUntilPing`. The invariant adds that a refusal which no ping has followed keeps the switch
off, so that a request that came then is done at once (`BarredAtOnce`), and that a call exists only
once the body is read (`NoCallYet`).

`Members_proofs` proves, for any commands of any kinds, any hosts and any number of them at once:

* `MembersTyped == Spec => []TypeOK`, with `CodeHasToken`: a code is on its way to be printed
  only with a token, so that `handed` holds tokens. `TypeOK` does not say this of `draft`.
* `RollbackIsOwn == Spec => []RollbackUndoesOwnRun`. Two facts make it inductive. `OwnerInv`
  says that a run with the hook set, or undoing, still owns the account, and what has been handed
  out by then: nobody but a rollback removes an account while commands run. `Alone` turns the
  history variable `apart` into what it means, that at most one command is under way.

Another part is `RevokedForGood == Spec => []RevokedStaysOut`. `Clean` follows a token from a draft to the temporary file, to
`.env` and to the gateway: while no commands have overlapped, none of these has a revoked token, nor will the command
under way draw one, since a token that is anywhere was drawn by a command that has begun (`DrawnByBegun`), and a
revocation has stopped the gateway before it wipes `.env`. A temporary file left by a command that was killed may
hold a revoked token; it does no harm because every save writes it anew before the rename.

A third part is about what failed runs and deleted members leave behind: `NothingLeftHalfMade == Spec => []NothingHalfMade` and
`ForeignIsUntouched == Spec => []ForeignAccountUntouched`. `Tidy` says what holds without a member (`NoMember`) and where a command stands
with account and unit (`StageOf`): the account a run made has a unit from the moment its hook is cleared, unless the
run was killed or its `userdel` refused, and a unit that stands without an account outlived the member it was made for. A
step of one command keeps this for the others, since it makes an account or deletes one and
takes the unit only from its own (`Beside`). The second theorem speaks of the time when no such unit is left over. The condition is
needed: TLC finds the property violated without it.

The last part is about the code a run prints, `FreshCodeOpens == Spec => FreshCodeIsAccepted`, and the provider keys,
`KeysStayPut == Spec => ProviderKeysStay`. `Fresh` says, while no commands have overlapped, where a run has got to with `.env` (`FileOf`) and
that the gateway it started, or a restart of it, serves that file (`GatewayOf`). What carries it through is that the run
writes its token and host before it loads `.env` again, so that `pair-code`, its last part, finds nothing to change
and saves nothing; that its keys are there from the seeding on, unless it has warned; and that a command about to rename finds the temporary file it has just written, with the keys of an
`.env` nobody has touched since. TLC finds `Fresh` to hold on the instance of `MembersCommands`, too.

All rest on the assumption about the constants of their module alone (`ConstantsAssumption`,
`StreamAssumption`, `AdapterAssumption`, `DraftAssumption`, `DeliveryAssumption`, `LibraryAssumption`) and on the hypotheses named above.

Model-checked only: the liveness properties (`EveryTurnFinishes`, `InflightDrains`, `QueuedEventArrives`, `DroppedReaderIsReleased`,
`EndReachesReader`, `AbandonedCallStops`, `PatientClientIsTold`) and the fairness of `ImplementsDelivery` (`DeliveriesKeepContract` proves its
initial states and steps), which need ENABLED. Every invariant and action property of a passing run is stated by a theorem.

## Not modelled

* The wire schema (`models.py`) and the rest of request parsing: functions of one request. The models enumerate
  the kinds of payload and the ways a request is refused.
* Bearer, Host and source checks: the same. That a revoked token is refused is modelled
  as what the running gateway was started with.
* The list of notice message ids (`adapter.py`), which only decides how a message is marked, and the activity
  clocks, for which a timeout may strike at any time.
* The contents of `config.yaml`, of `auth.json` and of the shim: functions of the operator's profile, written in
  steps that may fail.
* Registration and command line beyond the commands in `Members`: one-shot set-up.

## Plan

What is left to prove: the order, completeness and counters of `ReplyStreams_proofs` and the properties of `Turns_proofs` as
invariants of `AdapterSpec`, which `StreamsAreStreams` and `TurnsAreTurns` make a matter of instantiating those proofs.
