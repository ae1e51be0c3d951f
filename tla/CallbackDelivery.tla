--------------------------- MODULE CallbackDelivery ---------------------------
(***************************************************************************)
(* Deliveries to a callback URL: retry_callback and deliver_progress of    *)
(* delivery.py over StageWhisperAdapter._post.  A delivery is a coroutine  *)
(* that suspends while an attempt is posted and while it backs off; the    *)
(* network may lose a request or an answer, and a request whose attempt    *)
(* timed out may still reach the client.  The client is external.          *)
(***************************************************************************)
EXTENDS Naturals, FiniteSets

CONSTANTS
  Deliveries,
  Progress,     \* those made by deliver_progress: one attempt
  MaxAttempts,  \* CALLBACK_MAX_ATTEMPTS
  Statuses,     \* HTTP statuses the client answers with
  MaxSessions   \* bound: how often the adapter connects

ASSUME DeliveryAssumption ==
  /\ IsFiniteSet(Deliveries)
  /\ Progress \subseteq Deliveries
  /\ MaxAttempts \in Nat \ {0}
  /\ Statuses \subseteq Nat
  /\ MaxSessions \in Nat

NoAnswer == 0
PCs == {"idle", "ready", "posting", "backoff", "succeeded", "failed", "cancelled"}
Requests == Deliveries \X (1..MaxAttempts)

VARIABLES
  pc,        \* where the coroutine of each delivery is
  attempt,   \* attempts made so far
  wire,      \* requests sent that the client has not handled
  answer,    \* the status that answers the attempt being posted
  handled,   \* requests whose payload the client took
  open,      \* the aiohttp session exists (_client is not None)
  sessions   \* sessions opened so far

vars == <<pc, attempt, wire, answer, handled, open, sessions>>

Init ==
  /\ pc = [d \in Deliveries |-> "idle"]
  /\ attempt = [d \in Deliveries |-> 0]
  /\ wire = {}
  /\ answer = [d \in Deliveries |-> NoAnswer]
  /\ handled = {}
  /\ open = TRUE
  /\ sessions = 1

Goto(d, where) == pc' = [pc EXCEPT ![d] = where]
InProgress(d) == pc[d] \in {"ready", "posting", "backoff"}
-----------------------------------------------------------------------------
Begin(d) ==
  /\ pc[d] = "idle"
  /\ Goto(d, "ready")
  /\ UNCHANGED <<attempt, wire, answer, handled, open, sessions>>

\* Without a session the failure is permanent, and nothing is sent.
Post(d) ==
  /\ pc[d] \in {"ready", "backoff"}
  /\ IF open
     THEN /\ attempt' = [attempt EXCEPT ![d] = @ + 1]
          /\ wire' = wire \cup {<<d, attempt[d] + 1>>}
          /\ answer' = [answer EXCEPT ![d] = NoAnswer]
          /\ Goto(d, "posting")
     ELSE Goto(d, "failed") /\ UNCHANGED <<attempt, wire, answer>>
  /\ UNCHANGED <<handled, open, sessions>>

\* Mutant: a redirect counts as delivered.
ClassifyBelow400(status) == IF status < 400 THEN "delivered" ELSE "retryable"

Classify(status) ==
  IF status \in 200..299 THEN "delivered"
  ELSE IF status \in {408, 425, 429} \cup 500..599 THEN "retryable"
  ELSE "permanent"

\* Mutant: progress is retried like a reply.
AttemptsOfAnyReply(d) == MaxAttempts
AttemptsAllowed(d) == IF d \in Progress THEN 1 ELSE MaxAttempts

Resolve(d, outcome) ==
  Goto(d, IF outcome = "delivered" THEN "succeeded"
          ELSE IF outcome = "retryable" /\ attempt[d] < AttemptsAllowed(d)
          THEN "backoff" ELSE "failed")

\* An answer arrives within CALLBACK_TIMEOUT_S.
Answered(d) ==
  /\ pc[d] = "posting"
  /\ answer[d] # NoAnswer
  /\ Resolve(d, Classify(answer[d]))
  /\ UNCHANGED <<attempt, wire, answer, handled, open, sessions>>

\* The timeout strikes, be it while the body of an error is read, or the
\* connection fails: the outcome is retryable.
TimesOut(d) ==
  /\ pc[d] = "posting"
  /\ Resolve(d, "retryable")
  /\ UNCHANGED <<attempt, wire, answer, handled, open, sessions>>

\* AGENT_HARD_TIMEOUT_S cancels the agent that awaits this delivery.
Cancel(d) ==
  /\ InProgress(d)
  /\ Goto(d, "cancelled")
  /\ UNCHANGED <<attempt, wire, answer, handled, open, sessions>>
-----------------------------------------------------------------------------
(* The client and the network.                                             *)

\* The client takes the payload, or refuses it, or fails after it took it. It
\* never answers 2xx to a payload it did not take.
ClientHandles(r, status) ==
  /\ r \in wire
  /\ wire' = wire \ {r}
  /\ handled' \in {handled \cup {r}} \cup
                  (IF status \in 200..299 THEN {} ELSE {handled})
  /\ answer' = IF pc[r[1]] = "posting" /\ attempt[r[1]] = r[2]
               THEN [answer EXCEPT ![r[1]] = status] ELSE answer
  /\ UNCHANGED <<pc, attempt, open, sessions>>

LoseRequest(r) ==
  /\ r \in wire
  /\ wire' = wire \ {r}
  /\ UNCHANGED <<pc, attempt, answer, handled, open, sessions>>

LoseAnswer(d) ==
  /\ answer[d] # NoAnswer
  /\ answer' = [answer EXCEPT ![d] = NoAnswer]
  /\ UNCHANGED <<pc, attempt, wire, handled, open, sessions>>

\* disconnect closes the session, connect makes a new one.
CloseSession ==
  /\ open
  /\ open' = FALSE
  /\ UNCHANGED <<pc, attempt, wire, answer, handled, sessions>>

OpenSession ==
  /\ ~open
  /\ sessions < MaxSessions
  /\ open' = TRUE
  /\ sessions' = sessions + 1
  /\ UNCHANGED <<pc, attempt, wire, answer, handled>>
-----------------------------------------------------------------------------
Step(d) == Post(d) \/ Answered(d) \/ TimesOut(d)

Next ==
  \/ \E d \in Deliveries : Begin(d) \/ Step(d) \/ Cancel(d) \/ LoseAnswer(d)
  \/ \E r \in wire : LoseRequest(r) \/ \E s \in Statuses : ClientHandles(r, s)
  \/ CloseSession
  \/ OpenSession

\* The event loop goes on with a delivery; an attempt ends within
\* CALLBACK_TIMEOUT_S and a backoff by its clock.
Spec == Init /\ [][Next]_vars /\ \A d \in Deliveries : WF_vars(Step(d))
-----------------------------------------------------------------------------
(* Correctness.                                                            *)

TypeOK ==
  /\ pc \in [Deliveries -> PCs]
  /\ attempt \in [Deliveries -> 0..MaxAttempts]
  /\ wire \subseteq Requests /\ handled \subseteq Requests
  /\ answer \in [Deliveries -> Statuses \cup {NoAnswer}]
  /\ open \in BOOLEAN
  /\ sessions \in Nat

Copies(d) == {r \in handled : r[1] = d}

\* The client gets a reply at most CALLBACK_MAX_ATTEMPTS times and a typing
\* status at most once ("attempted once and never retried"), even when every
\* answer is lost and requests arrive late.
BoundedCopies ==
  \A d \in Deliveries :
    Cardinality(Copies(d)) <= IF d \in Progress THEN 1 ELSE MaxAttempts

Contract == INSTANCE Delivery WITH
  state <- [d \in Deliveries |->
              IF pc[d] = "idle" THEN "waiting"
              ELSE IF InProgress(d) THEN "open" ELSE pc[d]],
  received <- {d \in Deliveries : Copies(d) # {}}

\* What the turns assume of deliveries: a success only for a payload the client
\* has, over lost answers, late requests, timeouts and closed sessions, and an
\* end of every delivery.
ImplementsDelivery == Contract!Spec
=============================================================================
