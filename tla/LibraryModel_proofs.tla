-------------------------- MODULE LibraryModel_proofs --------------------------
(***************************************************************************)
(* Proofs about LibraryModel, for any number of requests, streamed or not. *)
(***************************************************************************)
EXTENDS LibraryModel, TLAPS

\* A refusal that nobody has answered with a ping keeps the switch off, so a
\* request that comes then is done at once.  A request has no call before its
\* body is read, and none that runs once it is done.
SwitchedOff == off => refused
BarredAtOnce == \A r \in barred : pc[r] = "done" /\ call[r] = "none"
NoCallYet == \A r \in Requests : pc[r] \in {"away", "reading"} => call[r] = "none"

Inv == TypeOK /\ SwitchedOff /\ BarredAtOnce /\ NoCallYet /\ NoOrphanCall

LEMMA InitInv == Init => Inv
<1> SUFFICES ASSUME Init PROVE Inv
  OBVIOUS
<1> USE DEF Init
<1>1. TypeOK
  <2>1. pings \in 0..MaxPings
    BY LibraryAssumption DEF LibraryAssumption
  <2>2. /\ pc \in [Requests -> PCs]
        /\ call \in [Requests -> {"none", "running", "ended", "cancelled"}]
        /\ client \in [Requests -> {"reads", "stalls", "left", "lost"}]
    BY DEF PCs
  <2>3. /\ result \in [Requests -> Failures \cup {NoResult, Answer}]
        /\ told \in [Requests -> {NoResult, Answer, 400, 404, 413, 429, 502}]
    OBVIOUS
  <2> QED BY <2>1, <2>2, <2>3 DEF TypeOK
<1>2. SwitchedOff /\ BarredAtOnce /\ NoCallYet /\ NoOrphanCall
  BY DEF SwitchedOff, BarredAtOnce, NoCallYet, NoOrphanCall
<1> QED BY <1>1, <1>2 DEF Inv

\* What Tell does to the table of what clients were told.
LEMMA ToldTyped ==
  ASSUME NEW r \in Requests, Inv,
         NEW status \in {NoResult, Answer, 400, 404, 413, 429, 502}, Tell(r, status)
  PROVE  told' \in [Requests -> {NoResult, Answer, 400, 404, 413, 429, 502}]
BY DEF Tell, Inv, TypeOK

\* What _failure_response makes of the status of a host call.
LEMMA ToldOfResult ==
  ASSUME NEW status \in Failures \cup {NoResult, Answer}
  PROVE  Told(status) \in {NoResult, Answer, 400, 404, 413, 429, 502}
BY DEF Told, Failures, Answer, NoResult

\* The one step of a request that comes while the switch is off ends it.
LEMMA RequestInv ==
  ASSUME Inv, NEW r \in Requests, Request(r) PROVE Inv'
<1> USE DEF Inv, Request, Goto
<1>1. TypeOK'
  <2>1. told' \in [Requests -> {NoResult, Answer, 400, 404, 413, 429, 502}]
    <3>1. CASE refused
      BY <3>1, ToldTyped
    <3>2. CASE ~ refused
      BY <3>2 DEF TypeOK
    <3> QED BY <3>1, <3>2
  <2> QED BY <2>1 DEF TypeOK, PCs
<1>2. SwitchedOff'
  BY DEF SwitchedOff
<1>3. BarredAtOnce'
  BY DEF BarredAtOnce, NoCallYet, SwitchedOff, TypeOK
<1>4. NoCallYet' /\ NoOrphanCall'
  BY DEF NoCallYet, NoOrphanCall, TypeOK
<1> QED BY <1>1, <1>2, <1>3, <1>4

LEMMA RejectInv ==
  ASSUME Inv, NEW r \in Requests, NEW status \in {400, 413}, Reject(r, status) PROVE Inv'
<1> USE DEF Inv, Reject, Goto
<1>1. TypeOK'
  <2>1. told' \in [Requests -> {NoResult, Answer, 400, 404, 413, 429, 502}]
    BY ToldTyped
  <2> QED BY ZenonT(60), <2>1 DEF TypeOK, PCs
<1>2. SwitchedOff' /\ BarredAtOnce' /\ NoCallYet' /\ NoOrphanCall'
  BY DEF SwitchedOff, BarredAtOnce, NoCallYet, NoOrphanCall, TypeOK
<1> QED BY <1>1, <1>2

\* Steps that move a handler and leave the calls alone.
LEMMA MoveInv ==
  ASSUME Inv, NEW r \in Requests,
         FailToRead(r) \/ LoopTop(r) \/ Beat(r)
  PROVE  Inv'
<1> USE DEF Inv, FailToRead, LoopTop, Beat, Goto, TaskDone
<1>1. TypeOK'
  BY DEF TypeOK, PCs
<1>2. SwitchedOff' /\ BarredAtOnce' /\ NoCallYet' /\ NoOrphanCall'
  BY DEF SwitchedOff, BarredAtOnce, NoCallYet, NoOrphanCall, TypeOK
<1> QED BY <1>1, <1>2

\* A request that may call has been read, so it was not barred.
LEMMA CallInv ==
  ASSUME Inv, NEW r \in Requests, Call(r) PROVE Inv'
<1> USE DEF Inv, Call, Goto
<1>1. TypeOK'
  BY DEF TypeOK, PCs
<1>2. SwitchedOff' /\ BarredAtOnce' /\ NoCallYet' /\ NoOrphanCall'
  BY DEF SwitchedOff, BarredAtOnce, NoCallYet, NoOrphanCall, TypeOK
<1> QED BY <1>1, <1>2

\* The switch is off for every refusal that counts as one.
LEMMA HostEndsInv ==
  ASSUME Inv, NEW r \in Requests, NEW status \in Failures \cup {Answer},
         HostEnds(r, status)
  PROVE  Inv'
<1> USE DEF Inv, HostEnds, Refuses
<1>1. TypeOK'
  BY DEF TypeOK
<1>2. SwitchedOff'
  BY DEF SwitchedOff, TypeOK
<1>3. BarredAtOnce' /\ NoCallYet' /\ NoOrphanCall'
  BY DEF BarredAtOnce, NoCallYet, NoOrphanCall, TypeOK
<1> QED BY <1>1, <1>2, <1>3

\* Every way a handler ends leaves no call running: the call of a request that
\* is not streamed is over, that of a streamed one is cancelled.
LEMMA FinallyKeeps ==
  ASSUME Inv, NEW r \in Requests, pc[r] \notin {"away", "done"}, Finally(r),
         UNCHANGED <<refused, result, client, off, barred, listening, pings>>,
         told' \in [Requests -> {NoResult, Answer, 400, 404, 413, 429, 502}]
  PROVE  Inv'
<1> USE DEF Inv, Finally, CancelCall, Goto
<1>1. TypeOK'
  BY ZenonT(60) DEF TypeOK, PCs
<1>2. SwitchedOff' /\ BarredAtOnce' /\ NoCallYet' /\ NoOrphanCall'
  BY DEF SwitchedOff, BarredAtOnce, NoCallYet, NoOrphanCall, TypeOK
<1> QED BY <1>1, <1>2

LEMMA EndInv ==
  ASSUME Inv, NEW r \in Requests,
         Reply(r) \/ KeepAlive(r) \/ WriteAnswer(r) \/ CancelHandler(r)
  PROVE  Inv'
<1>1. Told(result[r]) \in {NoResult, Answer, 400, 404, 413, 429, 502}
  BY ToldOfResult DEF Inv, TypeOK
<1>2. CASE Reply(r)
  <2> USE <1>2 DEF Inv, Reply, Goto
  <2>1. TypeOK'
    <3>1. told' \in [Requests -> {NoResult, Answer, 400, 404, 413, 429, 502}]
      BY <1>1, ToldTyped
    <3> QED BY ZenonT(60), <3>1 DEF TypeOK, PCs
  <2>2. SwitchedOff' /\ BarredAtOnce' /\ NoCallYet' /\ NoOrphanCall'
    BY DEF SwitchedOff, BarredAtOnce, NoCallYet, NoOrphanCall, TypeOK
  <2> QED BY <2>1, <2>2
<1>3. CASE KeepAlive(r)
  <2>1. CASE client[r] = "lost"
    BY <1>3, <2>1, FinallyKeeps DEF KeepAlive, Inv, TypeOK
  <2>2. CASE client[r] # "lost"
    <3> USE <1>3, <2>2 DEF Inv, KeepAlive, Goto
    <3>1. TypeOK'
      BY DEF TypeOK, PCs
    <3>2. SwitchedOff' /\ BarredAtOnce' /\ NoCallYet' /\ NoOrphanCall'
      BY DEF SwitchedOff, BarredAtOnce, NoCallYet, NoOrphanCall, TypeOK
    <3> QED BY <3>1, <3>2
  <2> QED BY <2>1, <2>2
<1>4. CASE WriteAnswer(r)
  <2>1. told' \in [Requests -> {NoResult, Answer, 400, 404, 413, 429, 502}]
    BY <1>1, <1>4, ToldTyped DEF WriteAnswer
  <2> QED BY <1>4, <2>1, FinallyKeeps DEF WriteAnswer
<1>5. CASE CancelHandler(r)
  BY <1>5, FinallyKeeps DEF CancelHandler, Inv, TypeOK
<1> QED BY <1>2, <1>3, <1>4, <1>5

\* Pings, the end of the listener and what clients do.
LEMMA OutsideInv ==
  ASSUME Inv,
         \/ Ping \/ Stop
         \/ \E r \in Requests : Stall(r) \/ ReadOn(r) \/ Leave(r) \/ ConnectionLost(r)
  PROVE  Inv'
<1> USE DEF Inv
<1>1. CASE Ping
  <2> USE <1>1 DEF Ping
  <2>1. pings' \in 0..MaxPings
    BY LibraryAssumption DEF LibraryAssumption, TypeOK
  <2>2. TypeOK'
    BY ZenonT(60), <2>1 DEF TypeOK
  <2>3. SwitchedOff' /\ BarredAtOnce' /\ NoCallYet' /\ NoOrphanCall'
    BY DEF SwitchedOff, BarredAtOnce, NoCallYet, NoOrphanCall
  <2> QED BY <2>2, <2>3
<1>2. CASE Stop
  BY ZenonT(60), <1>2 DEF Stop, TypeOK, SwitchedOff, BarredAtOnce, NoCallYet, NoOrphanCall
<1>3. ASSUME NEW r \in Requests, Stall(r) \/ ReadOn(r) \/ Leave(r) \/ ConnectionLost(r)
      PROVE  Inv'
  <2> USE <1>3 DEF Stall, ReadOn, Leave, ConnectionLost, ClientDoes
  <2>1. TypeOK'
    BY DEF TypeOK
  <2>2. SwitchedOff' /\ BarredAtOnce' /\ NoCallYet' /\ NoOrphanCall'
    BY DEF SwitchedOff, BarredAtOnce, NoCallYet, NoOrphanCall
  <2> QED BY <2>1, <2>2
<1> QED BY <1>1, <1>2, <1>3

LEMMA StepInv == Inv /\ [Next]_vars => Inv'
<1> SUFFICES ASSUME Inv, [Next]_vars PROVE Inv'
  OBVIOUS
<1>1. ASSUME NEW r \in Requests, Request(r) \/ Call(r) \/ Handler(r) PROVE Inv'
  BY <1>1, RequestInv, CallInv, MoveInv, EndInv DEF Handler
<1>2. ASSUME NEW r \in Requests, Reject(r, 400) \/ Reject(r, 413) PROVE Inv'
  BY <1>2, RejectInv
<1>3. ASSUME NEW r \in Requests, NEW status \in Failures \cup {Answer}, HostEnds(r, status)
      PROVE  Inv'
  BY <1>3, HostEndsInv
<1>4. CASE UNCHANGED vars
  BY <1>4 DEF vars, Inv, TypeOK, SwitchedOff, BarredAtOnce, NoCallYet, NoOrphanCall
<1> QED BY <1>1, <1>2, <1>3, <1>4, OutsideInv DEF Next

LEMMA AlwaysInv == Spec => []Inv
BY InitInv, StepInv, PTL DEF Spec

\* Every table of the endpoint keeps its type.
THEOREM LibraryTyped == Spec => []TypeOK
<1>1. Inv => TypeOK
  BY DEF Inv
<1> QED BY AlwaysInv, <1>1, PTL

\* No call of the host goes on for a request whose handler is done: answered,
\* abandoned by its client, cut off with the listener or refused.
THEOREM NoCallIsOrphaned == Spec => []NoOrphanCall
<1>1. Inv => NoOrphanCall
  BY DEF Inv
<1> QED BY AlwaysInv, <1>1, PTL

\* A request that comes between a refusal of the host and the next ping never
\* reaches the host, however its steps meet those of other requests.
THEOREM RefusedUntilPing == Spec => []OffUntilPing
<1>1. Inv => OffUntilPing
  BY DEF Inv, BarredAtOnce, OffUntilPing
<1> QED BY AlwaysInv, <1>1, PTL
=============================================================================
