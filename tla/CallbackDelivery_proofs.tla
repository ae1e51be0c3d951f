------------------------ MODULE CallbackDelivery_proofs ------------------------
(***************************************************************************)
(* Proofs about CallbackDelivery, for any deliveries, number of attempts   *)
(* and statuses a client may answer with.                                  *)
(***************************************************************************)
EXTENDS CallbackDelivery, FiniteSetTheorems, TLAPS

\* An attempt is made only while one is left, every request was sent by an
\* attempt, and a success is answered only for a payload that was taken.
AttemptsLeft ==
  \A d \in Deliveries :
    /\ pc[d] \in {"idle", "ready"} => attempt[d] = 0
    /\ pc[d] = "backoff" => attempt[d] < AttemptsAllowed(d)
    /\ attempt[d] <= AttemptsAllowed(d)
SentByAttempt ==
  \A r \in wire \cup handled : r[2] <= attempt[r[1]]
SuccessMeansTaken ==
  \A d \in Deliveries : answer[d] \in 200..299 => Copies(d) # {}

Inv == TypeOK /\ AttemptsLeft /\ SentByAttempt /\ SuccessMeansTaken

LEMMA Allowed ==
  ASSUME NEW d \in Deliveries
  PROVE  AttemptsAllowed(d) \in 1..MaxAttempts
BY DeliveryAssumption DEF DeliveryAssumption, AttemptsAllowed

LEMMA InitInv == Init => Inv
<1> SUFFICES ASSUME Init PROVE Inv
  OBVIOUS
<1> USE DEF Init
<1>1. TypeOK
  BY DeliveryAssumption DEF DeliveryAssumption, TypeOK, PCs
<1>2. AttemptsLeft
  BY Allowed DEF AttemptsLeft
<1>3. SentByAttempt /\ SuccessMeansTaken
  BY DEF SentByAttempt, SuccessMeansTaken, NoAnswer
<1> QED BY <1>1, <1>2, <1>3 DEF Inv

\* A step of a coroutine that sends nothing and touches no answer.
LEMMA MoveInv ==
  ASSUME Inv, NEW d \in Deliveries,
         Begin(d) \/ Answered(d) \/ TimesOut(d) \/ Cancel(d)
  PROVE  Inv'
<1>1. PICK where \in PCs :
        /\ pc' = [pc EXCEPT ![d] = where]
        /\ where = "ready" => pc[d] = "idle"
        /\ where = "backoff" => attempt[d] < AttemptsAllowed(d)
        /\ where # "idle"
  BY DEF Begin, Answered, TimesOut, Cancel, Resolve, Goto, PCs
<1>2. UNCHANGED <<attempt, wire, answer, handled, open, sessions>>
  BY DEF Begin, Answered, TimesOut, Cancel
<1>3. TypeOK'
  BY <1>1, <1>2 DEF Inv, TypeOK
<1>4. AttemptsLeft'
  BY <1>1, <1>2 DEF Inv, TypeOK, AttemptsLeft, AttemptsAllowed
<1>5. SentByAttempt' /\ SuccessMeansTaken'
  BY <1>2 DEF Inv, SentByAttempt, SuccessMeansTaken, Copies
<1> QED BY <1>3, <1>4, <1>5 DEF Inv

\* An attempt is posted only from the start or a backoff: one is left.
LEMMA PostInv ==
  ASSUME Inv, NEW d \in Deliveries, Post(d) PROVE Inv'
<1> USE DEF Inv
<1>1. attempt[d] \in Nat /\ attempt[d] < AttemptsAllowed(d)
  BY Allowed, DeliveryAssumption DEF DeliveryAssumption, Post, AttemptsLeft, TypeOK
<1>2. CASE open
  <2> USE <1>2 DEF Post, Goto
  <2>1. attempt[d] + 1 \in 1..MaxAttempts
    BY <1>1, Allowed, DeliveryAssumption DEF DeliveryAssumption
  <2>2. TypeOK'
    <3>1. /\ pc' \in [Deliveries -> PCs]
          /\ answer' \in [Deliveries -> Statuses \cup {NoAnswer}]
      BY DEF TypeOK, PCs
    <3>2. attempt' \in [Deliveries -> 0..MaxAttempts]
      BY <2>1 DEF TypeOK
    <3>3. wire' \subseteq Requests
      BY <2>1 DEF TypeOK, Requests
    <3> QED BY <3>1, <3>2, <3>3 DEF TypeOK
  <2>3. AttemptsLeft'
    BY <1>1, Allowed DEF AttemptsLeft, TypeOK, AttemptsAllowed
  <2>4. SentByAttempt'
    BY <1>1, DeliveryAssumption DEF DeliveryAssumption, SentByAttempt, TypeOK, Requests
  <2>5. SuccessMeansTaken'
    BY DEF SuccessMeansTaken, Copies, TypeOK, NoAnswer
  <2> QED BY <2>2, <2>3, <2>4, <2>5
<1>3. CASE ~ open
  <2> USE <1>3 DEF Post, Goto
  <2>1. TypeOK'
    BY DEF TypeOK, PCs
  <2>2. AttemptsLeft'
    BY DEF AttemptsLeft, TypeOK, AttemptsAllowed
  <2>3. SentByAttempt' /\ SuccessMeansTaken'
    BY DEF SentByAttempt, SuccessMeansTaken, Copies
  <2> QED BY <2>1, <2>2, <2>3
<1> QED BY <1>2, <1>3

\* A client that answers 2xx has taken the payload.
LEMMA ClientInv ==
  ASSUME Inv, NEW r \in wire, NEW status \in Statuses, ClientHandles(r, status)
  PROVE  Inv'
<1> USE DEF Inv, ClientHandles
<1>1. r \in Requests /\ r[1] \in Deliveries
  BY DEF TypeOK, Requests
<1>2. TypeOK'
  BY <1>1 DEF TypeOK
<1>3. AttemptsLeft'
  BY DEF AttemptsLeft, AttemptsAllowed
<1>4. SentByAttempt'
  BY DEF SentByAttempt
<1>5. SuccessMeansTaken'
  <2> SUFFICES ASSUME NEW d \in Deliveries, answer'[d] \in 200..299
               PROVE  Copies(d)' # {}
    BY DEF SuccessMeansTaken
  <2>1. handled \subseteq handled'
    OBVIOUS
  <2>2. CASE answer[d] = answer'[d]
    BY <2>1, <2>2 DEF SuccessMeansTaken, Copies
  <2>3. CASE answer[d] # answer'[d]
    BY <1>1, <2>3 DEF Copies, TypeOK
  <2> QED BY <2>2, <2>3
<1> QED BY <1>2, <1>3, <1>4, <1>5

\* The network loses something, or the session is closed or opened.
LEMMA NetworkInv ==
  ASSUME Inv,
         \/ \E r \in wire : LoseRequest(r)
         \/ \E d \in Deliveries : LoseAnswer(d)
         \/ CloseSession \/ OpenSession
  PROVE  Inv'
<1> USE DEF Inv
<1>1. ASSUME NEW r \in wire, LoseRequest(r) PROVE Inv'
  BY <1>1 DEF LoseRequest, TypeOK, AttemptsLeft, AttemptsAllowed, SentByAttempt,
              SuccessMeansTaken, Copies
<1>2. ASSUME NEW d \in Deliveries, LoseAnswer(d) PROVE Inv'
  BY <1>2 DEF LoseAnswer, TypeOK, AttemptsLeft, AttemptsAllowed, SentByAttempt,
              SuccessMeansTaken, Copies, NoAnswer
<1>3. CASE CloseSession \/ OpenSession
  <2> USE <1>3 DEF CloseSession, OpenSession
  <2>1. TypeOK'
    <3>1. open' \in BOOLEAN
      OBVIOUS
    <3>2. sessions' \in Nat
      BY DEF TypeOK
    <3> QED BY <3>1, <3>2 DEF TypeOK
  <2>2. AttemptsLeft' /\ SentByAttempt' /\ SuccessMeansTaken'
    BY DEF AttemptsLeft, AttemptsAllowed, SentByAttempt, SuccessMeansTaken, Copies
  <2> QED BY <2>1, <2>2
<1> QED BY <1>1, <1>2, <1>3

LEMMA StepInv == Inv /\ [Next]_vars => Inv'
<1> SUFFICES ASSUME Inv, [Next]_vars PROVE Inv'
  OBVIOUS
<1>1. CASE UNCHANGED vars
  BY <1>1 DEF vars, Inv, TypeOK, AttemptsLeft, AttemptsAllowed, SentByAttempt,
              SuccessMeansTaken, Copies
<1>2. ASSUME NEW d \in Deliveries, Begin(d) \/ Step(d) \/ Cancel(d) PROVE Inv'
  BY <1>2, MoveInv, PostInv DEF Step
<1> QED BY <1>1, <1>2, ClientInv, NetworkInv DEF Next

LEMMA AlwaysInv == Spec => []Inv
BY InitInv, StepInv, PTL DEF Spec

\* Every table of a delivery keeps its type, the attempts their limit.
THEOREM DeliveriesTyped == Spec => []TypeOK
<1>1. Inv => TypeOK
  BY DEF Inv
<1> QED BY AlwaysInv, <1>1, PTL
-----------------------------------------------------------------------------
\* The requests of n attempts are at most n.
LEMMA RequestsOf ==
  ASSUME NEW d, NEW n \in Nat
  PROVE  /\ IsFiniteSet({<<d, i>> : i \in 1..n})
         /\ Cardinality({<<d, i>> : i \in 1..n}) <= n
<1> DEFINE f == [i \in 1..n |-> <<d, i>>]
           T == {<<d, i>> : i \in 1..n}
<1>1. f \in Surjection(1..n, T)
  BY DEF Surjection
<1>2. IsFiniteSet(1..n) /\ Cardinality(1..n) = n
  BY FS_Interval
<1> HIDE DEF f, T
<1>3. IsFiniteSet(T) /\ Cardinality(T) <= n
  BY <1>1, <1>2, FS_Surjection
<1> QED BY <1>3 DEF T

\* A client gets a reply at most MaxAttempts times and a typing status at most
\* once, whatever is lost, answered late or sent again.
THEOREM CopiesAreBounded == Spec => []BoundedCopies
<1>1. ASSUME Inv PROVE BoundedCopies
  <2> SUFFICES ASSUME NEW d \in Deliveries
               PROVE  Cardinality(Copies(d)) <= AttemptsAllowed(d)
    BY DEF BoundedCopies, AttemptsAllowed
  <2> DEFINE n == AttemptsAllowed(d)
             T == {<<d, i>> : i \in 1..n}
  <2>1. n \in Nat
    BY Allowed, DeliveryAssumption DEF DeliveryAssumption
  <2>2. Copies(d) \subseteq T
    BY <1>1, <2>1, DeliveryAssumption
    DEF DeliveryAssumption, Inv, TypeOK, Requests, SentByAttempt, AttemptsLeft, Copies
  <2>3. IsFiniteSet(T) /\ Cardinality(T) <= n
    BY <2>1, RequestsOf
  <2> HIDE DEF n, T
  <2>4. Cardinality(Copies(d)) <= Cardinality(T) /\ Cardinality(Copies(d)) \in Nat
        /\ Cardinality(T) \in Nat
    BY <2>2, <2>3, FS_Subset, FS_CardinalityType
  <2> QED BY <2>1, <2>3, <2>4 DEF n
<1> QED BY AlwaysInv, <1>1, PTL
-----------------------------------------------------------------------------
(* The safety of the contract: every step is one of Delivery or a stutter. *)

LEMMA InitContract == Init => Contract!Init
BY DEF Init, Contract!Init, Copies, InProgress

\* What the client has does not change when no request is handled, nor does
\* the state of a delivery that stays in progress.
LEMMA Unmoved ==
  ASSUME Inv, UNCHANGED handled,
         \A d \in Deliveries :
           pc'[d] = pc[d] \/ (InProgress(d) /\ pc'[d] \in {"ready", "posting", "backoff"})
  PROVE  UNCHANGED Contract!vars
BY DEF Contract!vars, Copies, InProgress

\* A coroutine that moves on: one state of the contract changes.
LEMMA MoveContract ==
  ASSUME Inv, NEW d \in Deliveries, NEW where \in {"succeeded", "failed", "cancelled"},
         InProgress(d), Goto(d, where), UNCHANGED handled,
         where = "succeeded" => Copies(d) # {}
  PROVE  Contract!Next
<1> DEFINE state == [x \in Deliveries |->
                       IF pc[x] = "idle" THEN "waiting"
                       ELSE IF InProgress(x) THEN "open" ELSE pc[x]]
<1>1. state[d] = "open" /\ state' = [state EXCEPT ![d] = where]
  BY DEF InProgress, Goto, Inv, TypeOK
<1>2. {x \in Deliveries : Copies(x) # {}}' = {x \in Deliveries : Copies(x) # {}}
  BY DEF Copies
<1>3. Contract!Moves(d, "open", where)
  BY <1>1 DEF Contract!Moves
<1> QED
  BY <1>2, <1>3
  DEF Contract!Next, Contract!Return, Contract!Succeed, Contract!Fail, Contract!Cancel

LEMMA BeginContract ==
  ASSUME Inv, NEW d \in Deliveries, Begin(d) PROVE Contract!Begin(d)
<1>1. {x \in Deliveries : Copies(x) # {}}' = {x \in Deliveries : Copies(x) # {}}
  BY DEF Begin, Copies
<1>2. Contract!Moves(d, "waiting", "open")
  BY DEF Begin, Goto, Contract!Moves, InProgress, Inv, TypeOK
<1> QED BY <1>1, <1>2 DEF Contract!Begin

\* A coroutine succeeds on an answer 2xx alone, and that means a payload taken.
LEMMA StepContract ==
  ASSUME Inv, NEW d \in Deliveries, Step(d) \/ Cancel(d)
  PROVE  Contract!Next \/ UNCHANGED Contract!vars
<1>1. UNCHANGED handled /\ InProgress(d)
  BY DEF Step, Post, Answered, TimesOut, Cancel, InProgress
<1>2. PICK where \in PCs :
        /\ Goto(d, where)
        /\ where \in {"posting", "backoff", "succeeded", "failed", "cancelled"}
        /\ where = "succeeded" => answer[d] \in 200..299
  BY DEF Step, Post, Answered, TimesOut, Cancel, Resolve, Classify, Goto, PCs
<1>3. where = "succeeded" => Copies(d) # {}
  BY <1>2 DEF Inv, SuccessMeansTaken
<1>4. CASE where \in {"posting", "backoff"}
  BY <1>1, <1>2, <1>4, Unmoved DEF Goto, Inv, TypeOK
<1>5. CASE where \in {"succeeded", "failed", "cancelled"}
  BY <1>1, <1>2, <1>3, <1>5, MoveContract
<1> QED BY <1>2, <1>4, <1>5

\* A request was sent by a delivery that has begun, so its arrival is Receive.
LEMMA ClientContract ==
  ASSUME Inv, NEW r \in wire, NEW status \in Statuses, ClientHandles(r, status)
  PROVE  Contract!Next \/ UNCHANGED Contract!vars
<1>1. r \in Requests /\ r[1] \in Deliveries /\ r[2] \in 1..MaxAttempts /\ UNCHANGED pc
  BY DEF Inv, TypeOK, Requests, ClientHandles
<1>2. handled' = handled \/ handled' = handled \cup {r}
  BY DEF ClientHandles
<1>3. CASE handled' = handled
  BY <1>1, <1>3, Unmoved
<1>4. CASE handled' = handled \cup {r}
  <2> DEFINE received == {x \in Deliveries : Copies(x) # {}}
  <2>1. received' = received \cup {r[1]}
    BY <1>1, <1>4 DEF Copies
  <2>2. pc[r[1]] # "idle"
    <3>1. r[2] <= attempt[r[1]] /\ attempt[r[1]] \in Nat /\ r[2] > 0
      BY <1>1, DeliveryAssumption DEF DeliveryAssumption, Inv, SentByAttempt, TypeOK
    <3> QED BY <1>1, <3>1 DEF Inv, AttemptsLeft
  <2>3. Contract!Receive(r[1])
    BY <1>1, <2>1, <2>2 DEF Contract!Receive, InProgress, Inv, TypeOK, PCs
  <2> QED BY <1>1, <2>3 DEF Contract!Next
<1> QED BY <1>2, <1>3, <1>4

LEMMA NextContract ==
  Inv /\ [Next]_vars => [Contract!Next]_(Contract!vars)
<1> SUFFICES ASSUME Inv, [Next]_vars
             PROVE  Contract!Next \/ UNCHANGED Contract!vars
  OBVIOUS
<1>1. CASE UNCHANGED <<pc, handled>>
  BY <1>1, Unmoved
<1>2. ASSUME NEW d \in Deliveries, Begin(d) PROVE Contract!Next
  BY <1>2, BeginContract DEF Contract!Next
<1>3. ASSUME NEW d \in Deliveries, Step(d) \/ Cancel(d)
      PROVE  Contract!Next \/ UNCHANGED Contract!vars
  BY <1>3, StepContract
<1>4. ASSUME NEW r \in wire, NEW status \in Statuses, ClientHandles(r, status)
      PROVE  Contract!Next \/ UNCHANGED Contract!vars
  BY <1>4, ClientContract
<1>5. CASE \/ \E d \in Deliveries : LoseAnswer(d)
           \/ \E r \in wire : LoseRequest(r)
           \/ CloseSession \/ OpenSession
  <2>1. UNCHANGED <<pc, handled>>
    BY <1>5 DEF LoseAnswer, LoseRequest, CloseSession, OpenSession
  <2> QED BY <1>1, <2>1
<1>6. CASE UNCHANGED vars
  BY <1>1, <1>6 DEF vars
<1> QED BY <1>2, <1>3, <1>4, <1>5, <1>6 DEF Next

\* The safety of ImplementsDelivery: over lost answers, late requests, timeouts,
\* cancelled agents and closed sessions, a delivery does what Delivery allows.
\* Its fairness, that every delivery returns, is model-checked.
THEOREM DeliveriesKeepContract ==
  Spec => Contract!Init /\ [][Contract!Next]_(Contract!vars)
BY InitContract, AlwaysInv, NextContract, PTL DEF Spec
=============================================================================
