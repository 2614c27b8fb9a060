------------------------- MODULE HttpServiceProofs -------------------------
(***************************************************************************)
(* What HttpService promises when a server ends, and the time limit of a   *)
(* request, for any number of requests and publications and any limit.     *)
(***************************************************************************)
EXTENDS HttpService, TLAPS

USE DEF http, requests, registry

-----------------------------------------------------------------------------
(* The inductive invariant. *)

\* Admission is closed by start_shutdown, or by the drop of ServerLifetime,
\* before anything else is stopped.
ClosedFirst ==
    serve \in {"cancelling", "joining", "returned", "dropped"} => closed

\* The shutdown of the registry ends when nothing is left; since admission is
\* closed nothing comes after it.
NothingAfterShutdown ==
    result # None => closed /\ operation = "none" /\ admitted = {}

\* serve returns after the shutdown of the registry.
ReturnsLast == serve = "returned" => result # None

\* A request that was given time has left its upload behind, so that no more
\* of its limit is used up.
GivenOnce ==
    \A h \in DataRequests : budget[h] # None =>
        /\ handler[h] \in {"execute", "reply", "answered", "gone"}
        /\ budget[h] > 0
        /\ elapsed[h] + budget[h] <= Timeout

Inv == TypeOK /\ ClosedFirst /\ NothingAfterShutdown /\ ReturnsLast /\ GivenOnce

LEMMA InitInv == Init => Inv
<1> SUFFICES ASSUME Init PROVE Inv
  OBVIOUS
<1>1. elapsed \in [DataRequests -> 0..Timeout + 1]
  BY TimeoutIsPositive DEF Init
<1>2. TypeOK
  BY <1>1 DEF Init, TypeOK, Steps, Busy, ServeSteps
<1>3. GivenOnce
  BY DEF Init, GivenOnce
<1> QED
  BY <1>2, <1>3 DEF Init, Inv, ClosedFirst, NothingAfterShutdown, ReturnsLast

\* Most steps of a handler move it on, and at most release its lifetime.
LEMMA MovesOn ==
    ASSUME Inv, NEW h \in Handlers, NEW s \in Steps, To(h, s),
           h \in DataRequests /\ budget[h] # None => s \in {"reply", "answered", "gone"},
           UNCHANGED <<http, elapsed, budget, registry>>,
           admitted' \subseteq admitted
    PROVE  Inv'
BY DEF Inv, TypeOK, ClosedFirst, NothingAfterShutdown, ReturnsLast, GivenOnce,
       To, Handlers

\* Publish and Unregister occupy the management slot while admission is open.
LEMMA Accepts ==
    ASSUME Inv, NEW h \in Handlers, Publish(h) \/ Unregister(h)
    PROVE  Inv'
BY DEF Inv, TypeOK, ClosedFirst, NothingAfterShutdown, ReturnsLast, GivenOnce,
       Publish, Unregister, Answer, To, Handlers, Steps, Busy

LEMMA HandlerInv ==
    ASSUME Inv, NEW h \in Handlers, HandlerStep(h) \/ ClientStep(h) \/ ExecutionEnds(h)
    PROVE  Inv'
<1> USE DEF Answer, Steps, Busy
<1>1. CASE Admit(h)
  BY <1>1 DEF Inv, TypeOK, ClosedFirst, NothingAfterShutdown, ReturnsLast, GivenOnce,
              Admit, To, Handlers
<1>2. CASE Execute(h)
  <2>1. /\ h \in DataRequests /\ elapsed[h] \in 0..Timeout + 1
        /\ Remaining(h) > 0 /\ Remaining(h) = Timeout - elapsed[h]
    BY <1>2 DEF Execute, Remaining, Inv, TypeOK
  <2>2. Remaining(h) \in 1..Timeout
    BY <2>1, TimeoutIsPositive
  <2>3. budget' = [budget EXCEPT ![h] = Remaining(h)]
    <3>1. (IF Remaining(h) < Timeout THEN Remaining(h) ELSE Timeout) = Remaining(h)
      BY <2>2, TimeoutIsPositive
    <3> QED
      BY <1>2, <3>1 DEF Execute
  <2>4. elapsed[h] + Remaining(h) <= Timeout
    BY <2>1, TimeoutIsPositive
  <2>5. /\ handler' = [handler EXCEPT ![h] = "execute"]
        /\ UNCHANGED <<http, elapsed, admitted, registry>>
    BY <1>2 DEF Execute, To
  <2>6. TypeOK'
    BY <2>1, <2>2, <2>3, <2>5 DEF Inv, TypeOK, Handlers
  <2>7. GivenOnce'
    BY <2>1, <2>2, <2>3, <2>4, <2>5 DEF Inv, TypeOK, GivenOnce
  <2> QED
    BY <2>5, <2>6, <2>7 DEF Inv, ClosedFirst, NothingAfterShutdown, ReturnsLast
<1>3. CASE Refuse(h) \/ BadInput(h) \/ GiveUp(h) \/ NoTimeLeft(h) \/ Reply(h)
           \/ PublishRefused(h)
  <2>1. /\ To(h, "answered") /\ admitted' \subseteq admitted
        /\ UNCHANGED <<http, elapsed, budget, registry>>
    BY <1>3 DEF Refuse, BadInput, GiveUp, NoTimeLeft, Reply, PublishRefused
  <2> QED
    BY <2>1, MovesOn
<1>4. CASE Upload(h)
  <2>1. h \in DataRequests => budget[h] = None
    BY <1>4 DEF Upload, Inv, GivenOnce
  <2> QED
    BY <1>4, <2>1, MovesOn DEF Upload
<1>5. CASE Proceed(h)
  <2>1. h \in DataRequests => budget[h] = None
    BY <1>5 DEF Proceed, Inv, GivenOnce
  <2>2. PICK s \in {"parse", "start"} : To(h, s)
    BY <1>5 DEF Proceed
  <2> QED
    BY <1>5, <2>1, <2>2, MovesOn DEF Proceed
<1>6. CASE ExecutionEnds(h)
  <2>1. PICK s \in {"reply", "gone"} : To(h, s)
    BY <1>6 DEF ExecutionEnds
  <2> QED
    BY <1>6, <2>1, MovesOn DEF ExecutionEnds
<1>7. CASE Disconnect(h)
  BY <1>7, MovesOn DEF Disconnect
<1> QED
  BY <1>1, <1>2, <1>3, <1>4, <1>5, <1>6, <1>7, Accepts DEF HandlerStep, ClientStep

\* Time passes only for those that have not been given any yet.
LEMMA TickInv == ASSUME Inv, Tick PROVE Inv'
<1>1. elapsed' \in [DataRequests -> 0..Timeout + 1]
  BY TimeoutIsPositive DEF Tick, Inv, TypeOK
<1>2. GivenOnce'
  BY DEF Tick, Inv, TypeOK, GivenOnce
<1> QED
  BY <1>1, <1>2 DEF Tick, Inv, TypeOK, ClosedFirst, NothingAfterShutdown, ReturnsLast

\* The server, the registry and the listeners.
LEMMA ServerInv ==
    ASSUME Inv,
           \/ ServeStep \/ RegistryStep \/ Signal \/ ListenerEnded \/ DropServe
           \/ \E l \in Listeners : ListenerEnds(l)
    PROVE  Inv'
<1> USE DEF Inv, TypeOK, ClosedFirst, NothingAfterShutdown, ReturnsLast, GivenOnce,
            ServeSteps
<1>1. CASE ServeStep
  BY <1>1 DEF ServeStep, StartShutdown, Cancel, Return, Joined, LifetimeDropped
<1>2. CASE RegistryStep
  BY <1>2 DEF RegistryStep, CloseAdmission, OperationEnds, RegistryDrained
<1>3. CASE Signal \/ ListenerEnded \/ DropServe
  BY <1>3 DEF Signal, ListenerEnded, DropServe
<1>4. CASE \E l \in Listeners : ListenerEnds(l)
  BY <1>4 DEF ListenerEnds
<1> QED
  BY <1>1, <1>2, <1>3, <1>4

\* The invariant holds in every reachable state of the server.
THEOREM Invariance == Spec => []Inv
<1>1. Inv /\ [Next]_vars => Inv'
  <2>1. Inv /\ UNCHANGED vars => Inv'
    BY DEF vars, Inv, TypeOK, ClosedFirst, NothingAfterShutdown, ReturnsLast, GivenOnce
  <2> QED
    BY <2>1, HandlerInv, TickInv, ServerInv DEF Next
<1> QED
  BY <1>1, InitInv, PTL DEF Spec

\* Once Server::serve has returned, nothing is admitted, no operation runs, and
\* admission is closed for ever, whether it ended by a signal or a failed
\* listener.
THEOREM Drained == Spec => []DrainedOnReturn
<1>1. Inv => DrainedOnReturn
  BY DEF Inv, ReturnsLast, NothingAfterShutdown, DrainedOnReturn
<1> QED
  BY <1>1, Invariance, PTL

\* What data_request gives to the execution and what upload and parse have used
\* of the limit are together at most the limit.
THEOREM Budget == Spec => []WithinBudget
<1>1. Inv => WithinBudget
  BY DEF Inv, GivenOnce, WithinBudget
<1> QED
  BY <1>1, Invariance, PTL
=============================================================================
