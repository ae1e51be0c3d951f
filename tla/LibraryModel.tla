----------------------------- MODULE LibraryModel -----------------------------
(***************************************************************************)
(* The Library model endpoint: handle_chat_completions and _stream of      *)
(* llm_endpoint.py with the switch of HostLlm (llm_host.py).  A streamed   *)
(* request has a handler that writes keep-alives and a task that waits for *)
(* the host; any other request waits for the host itself.  The host model, *)
(* the clients and their connections are external.                         *)
(***************************************************************************)
EXTENDS Naturals

CONSTANTS
  Requests,
  Streamed,  \* requests with stream: true
  MaxPings   \* bound: pings

ASSUME LibraryAssumption == Streamed \subseteq Requests /\ MaxPings \in Nat

PCs == {"away", "reading", "calling", "loop", "writing", "waiting", "answering", "done"}
Failures == {401, 404, 429, 500}  \* and the like: 403 as 401, no status as 500
NoResult == 0
Answer == 200

VARIABLES
  refused,    \* HostLlm.refused_by_host
  pc,         \* where the handler of each request is
  call,       \* the host call of each: "none", "running", "ended" or "cancelled"
  result,     \* the status the host call ended with
  client,     \* "reads", "stalls", "left" or, when aiohttp knows that it left, "lost"
  told,       \* what each client was told at the end
  off,        \* the host has refused a call since the last ping
  barred,     \* requests that came while it was so
  listening,
  pings

vars == <<refused, pc, call, result, client, told, off, barred, listening, pings>>

Init ==
  /\ refused = FALSE
  /\ pc = [r \in Requests |-> "away"]
  /\ call = [r \in Requests |-> "none"]
  /\ result = [r \in Requests |-> NoResult]
  /\ client = [r \in Requests |-> "reads"]
  /\ told = [r \in Requests |-> NoResult]
  /\ off = FALSE
  /\ barred = {}
  /\ listening = TRUE
  /\ pings = 0

Goto(r, where) == pc' = [pc EXCEPT ![r] = where]
Tell(r, status) ==
  told' = IF client[r] = "reads" THEN [told EXCEPT ![r] = status] ELSE told
-----------------------------------------------------------------------------
(* handle_chat_completions, as far as the host call.                       *)

\* The switch is read before the body is.
Request(r) ==
  /\ pc[r] = "away"
  /\ listening
  /\ barred' = IF off THEN barred \cup {r} ELSE barred
  /\ IF refused THEN Tell(r, 404) /\ Goto(r, "done")
     ELSE Goto(r, "reading") /\ UNCHANGED told
  /\ UNCHANGED <<refused, call, result, client, off, listening, pings>>

\* The body is too large or is no chat request.
Reject(r, status) ==
  /\ pc[r] = "reading"
  /\ client[r] # "stalls"
  /\ Tell(r, status)
  /\ Goto(r, "done")
  /\ UNCHANGED <<refused, call, result, client, off, barred, listening, pings>>

\* The connection is lost while the body is read or the headers are written.
FailToRead(r) ==
  /\ pc[r] = "reading"
  /\ client[r] = "lost"
  /\ Goto(r, "done")
  /\ UNCHANGED <<refused, call, result, client, told, off, barred, listening, pings>>

Call(r) ==
  /\ pc[r] = "reading"
  /\ client[r] # "lost"
  /\ call' = [call EXCEPT ![r] = "running"]
  /\ Goto(r, IF r \in Streamed THEN "loop" ELSE "calling")
  /\ UNCHANGED <<refused, result, client, told, off, barred, listening, pings>>
-----------------------------------------------------------------------------
(* _settle: the host call ends.                                            *)

RefusesOnAuth(status) == status = 401   \* mutant: 404 is left to the request
Refuses(status) == status \in {401, 403, 404}

HostEnds(r, status) ==
  /\ call[r] = "running"
  /\ call' = [call EXCEPT ![r] = "ended"]
  /\ result' = [result EXCEPT ![r] = status]
  /\ refused' = (refused \/ Refuses(status))
  /\ off' = (off \/ status \in {401, 403, 404})
  /\ UNCHANGED <<pc, client, told, barred, listening, pings>>

Told(status) == IF status \in {401, 403, 500} THEN 502 ELSE status
-----------------------------------------------------------------------------
(* The rest of the handler.                                                *)

\* Any other request: the answer goes to whoever is still there.
Reply(r) ==
  /\ pc[r] = "calling"
  /\ call[r] = "ended"
  /\ client[r] # "stalls"
  /\ Tell(r, Told(result[r]))
  /\ Goto(r, "done")
  /\ UNCHANGED <<refused, call, result, client, off, barred, listening, pings>>

\* Mutant: a handler that is cancelled leaves its task alone.
CancelIfListening(r) ==
  call' = IF listening /\ call[r] = "running" THEN [call EXCEPT ![r] = "cancelled"] ELSE call
CancelCall(r) ==
  call' = IF call[r] = "running" THEN [call EXCEPT ![r] = "cancelled"] ELSE call

Finally(r) == CancelCall(r) /\ Goto(r, "done")

\* while not task.done()
Succeeded(r) == result[r] = Answer   \* mutant: a failure is waited for again
TaskDone(r) == call[r] = "ended"

LoopTop(r) ==
  /\ pc[r] = "loop"
  /\ Goto(r, IF TaskDone(r) THEN "answering" ELSE "writing")
  /\ UNCHANGED <<refused, call, result, client, told, off, barred, listening, pings>>

\* A write has no time limit: it waits while the client does not read.
\* One to a client that left goes nowhere until its connection is lost.
KeepAlive(r) ==
  /\ pc[r] = "writing"
  /\ client[r] # "stalls"
  /\ IF client[r] = "lost" THEN Finally(r) ELSE Goto(r, "waiting") /\ UNCHANGED call
  /\ UNCHANGED <<refused, result, client, told, off, barred, listening, pings>>

\* The task is done, or STREAM_HEARTBEAT_SECONDS have passed.
WaitForResult(r) == call[r] = "ended"   \* mutant: wait without a timeout
WaitEnds(r) == TRUE

Beat(r) ==
  /\ pc[r] = "waiting"
  /\ WaitEnds(r)
  /\ Goto(r, "loop")
  /\ UNCHANGED <<refused, call, result, client, told, off, barred, listening, pings>>

WriteAnswer(r) ==
  /\ pc[r] = "answering"
  /\ client[r] # "stalls"
  /\ Tell(r, Told(result[r]))
  /\ Finally(r)
  /\ UNCHANGED <<refused, result, client, off, barred, listening, pings>>

\* The listener stops and aiohttp cancels the handlers it has.
Stop ==
  /\ listening
  /\ listening' = FALSE
  /\ UNCHANGED <<refused, pc, call, result, client, told, off, barred, pings>>

CancelHandler(r) ==
  /\ ~ listening
  /\ pc[r] \notin {"away", "done"}
  /\ Finally(r)
  /\ UNCHANGED <<refused, result, client, told, off, barred, listening, pings>>
-----------------------------------------------------------------------------
\* ping_field: a ping offers the endpoint again.
Ping ==
  /\ listening
  /\ pings < MaxPings
  /\ pings' = pings + 1
  /\ refused' = FALSE
  /\ off' = FALSE
  /\ UNCHANGED <<pc, call, result, client, told, barred, listening>>

ClientDoes(r, from, to) ==
  /\ pc[r] \notin {"away", "done"}
  /\ client[r] \in from
  /\ client' = [client EXCEPT ![r] = to]
  /\ UNCHANGED <<refused, pc, call, result, told, off, barred, listening, pings>>

Stall(r) == ClientDoes(r, {"reads"}, "stalls")
ReadOn(r) == ClientDoes(r, {"stalls"}, "reads")
Leave(r) == ClientDoes(r, {"reads", "stalls"}, "left")
ConnectionLost(r) == ClientDoes(r, {"left"}, "lost")
-----------------------------------------------------------------------------
Handler(r) ==
  \/ FailToRead(r) \/ Reply(r) \/ LoopTop(r) \/ KeepAlive(r) \/ Beat(r)
  \/ WriteAnswer(r) \/ CancelHandler(r)

Next ==
  \/ \E r \in Requests :
       \/ Request(r) \/ Call(r) \/ Handler(r)
       \/ Reject(r, 400) \/ Reject(r, 413)
       \/ \E status \in Failures \cup {Answer} : HostEnds(r, status)
       \/ Stall(r) \/ ReadOn(r) \/ Leave(r) \/ ConnectionLost(r)
  \/ Ping
  \/ Stop

\* The loop runs a handler that can go on, and finds out about a closed
\* connection.  The host is not obliged to answer, nor a client to read.
Spec ==
  /\ Init /\ [][Next]_vars
  /\ \A r \in Requests : WF_vars(Handler(r)) /\ WF_vars(ConnectionLost(r))
-----------------------------------------------------------------------------
(* Correctness.                                                            *)

TypeOK ==
  /\ refused \in BOOLEAN /\ off \in BOOLEAN /\ listening \in BOOLEAN
  /\ pc \in [Requests -> PCs]
  /\ call \in [Requests -> {"none", "running", "ended", "cancelled"}]
  /\ result \in [Requests -> Failures \cup {NoResult, Answer}]
  /\ client \in [Requests -> {"reads", "stalls", "left", "lost"}]
  /\ told \in [Requests -> {NoResult, Answer, 400, 404, 413, 429, 502}]
  /\ barred \subseteq Requests
  /\ pings \in 0..MaxPings

\* No call of the host goes on for a request whose handler is done, be it
\* answered, abandoned by its client or cut off with the listener.
NoOrphanCall ==
  \A r \in Requests : pc[r] = "done" => call[r] # "running"

\* A refusal turns the endpoint off until the next ping: a request that comes
\* in between never reaches the host.  One that was reading its body may.
OffUntilPing ==
  \A r \in barred : call[r] = "none"

\* A client that leaves a streamed request stops the host call, even when the
\* host would never answer: the next keep-alive finds the connection lost.
AbandonedCallStops ==
  \A r \in Streamed : client[r] = "left" ~> [](call[r] # "running")

\* A client that stays and reads gets the outcome of the host call.
PatientClientIsTold ==
  \A r \in Requests :
    call[r] = "ended" ~>
      told[r] # NoResult \/ client[r] # "reads" \/ ~ listening
=============================================================================
