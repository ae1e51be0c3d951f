------------------------------- MODULE Delivery -------------------------------
(***************************************************************************)
(* What the adapter counts on when it awaits a delivery to a callback URL, *)
(* whatever the network and the client do: a success means that the client *)
(* has the payload, a failure means nothing, and every delivery returns.   *)
(***************************************************************************)
CONSTANT Deliveries

VARIABLES
  state,    \* "waiting", "open", "succeeded", "failed" or "cancelled"
  received  \* the deliveries whose payload the client has

vars == <<state, received>>

Init ==
  /\ state = [d \in Deliveries |-> "waiting"]
  /\ received = {}

Moves(d, from, to) ==
  /\ state[d] = from
  /\ state' = [state EXCEPT ![d] = to]

Begin(d) == Moves(d, "waiting", "open") /\ UNCHANGED received

\* The payload may arrive long after the adapter has given up.
Receive(d) ==
  /\ state[d] # "waiting"
  /\ received' = received \cup {d}
  /\ UNCHANGED state

Succeed(d) == d \in received /\ Moves(d, "open", "succeeded") /\ UNCHANGED received

Fail(d) == Moves(d, "open", "failed") /\ UNCHANGED received

Cancel(d) == Moves(d, "open", "cancelled") /\ UNCHANGED received

Return(d) == Succeed(d) \/ Fail(d)

Next == \E d \in Deliveries : Begin(d) \/ Receive(d) \/ Return(d) \/ Cancel(d)

\* A delivery that is under way returns, unless its caller is cancelled.
Spec == Init /\ [][Next]_vars /\ \A d \in Deliveries : WF_vars(Return(d))
=============================================================================
