---------------------------- MODULE HttpService ----------------------------
(***************************************************************************)
(* The HTTP service over a registry: data requests that are admitted before *)
(* their body is read, uploads of publications, and the end of the server  *)
(* by a signal, by the failure of a listener or by dropping its future.    *)
(* Translated from src/http.rs; the signal comes from src/main.rs.         *)
(*                                                                         *)
(* Clients need not send their bodies, and blocking threads need not get to *)
(* a parse.  Of the registry there is what the handlers use: admission,    *)
(* the count of requests, one operation at a time, and the shutdown, which *)
(* module Registry has in detail.                                          *)
(***************************************************************************)
EXTENDS Integers, FiniteSets

CONSTANTS
    DataRequests,   \* requests to the data listener
    Publications,   \* publish requests to the management listener
    Timeout,        \* limits.timeout of the database, in ticks
    None

ASSUME TimeoutIsPositive == Timeout \in Nat \ {0}

Handlers == DataRequests \cup Publications
Listeners == {"data", "management"}
ListenerOf(h) == IF h \in DataRequests THEN "data" ELSE "management"

VARIABLES
    serve,      \* step of Server::serve
    failure,    \* a listener ended before the signal
    stop,       \* the cancellation token of ServiceState
    listener,   \* the tasks in the JoinSet: "up" or "down"
    handler,    \* step of each handler
    elapsed,    \* ticks from the admission of a data request to its execution
    budget,     \* the time its execution was given
    admitted,   \* requests that hold a RequestLifetime
    \* The registry.
    closed, result, phase, operation

http == <<serve, failure, stop, listener>>
requests == <<handler, elapsed, budget, admitted>>
registry == <<closed, result, phase, operation>>
vars == <<http, requests, registry>>

Busy == {"upload", "parse", "start", "execute", "reply"}
Steps == Busy \cup {"idle", "answered", "gone"}
ServeSteps == {"running", "closing", "cancelling", "joining", "returned",
               "dropping", "dropped"}

\* axum: a connection that was accepted outlives its listener, until it is told to
\* stop.
Connected(h) == listener[ListenerOf(h)] = "up" \/ ~stop

To(h, s) == handler' = [handler EXCEPT ![h] = s]
\* The handler answers, or fails, before anything was executed; an admitted
\* request is dropped with its lifetime.
Answer(h) == To(h, "answered") /\ admitted' = admitted \ {h}

-----------------------------------------------------------------------------
(* data_request *)

\* admit: the request counts from here on, and its time runs.
Admit(h) ==
    /\ h \in DataRequests
    /\ handler[h] = "idle"
    /\ Connected(h)
    /\ ~closed
    /\ phase = "ready"
    /\ admitted' = admitted \cup {h}
    /\ To(h, "upload")
    /\ UNCHANGED <<http, elapsed, budget, registry>>

\* Not admitted, or a path or method that is not served.
Refuse(h) ==
    /\ handler[h] = "idle"
    /\ Connected(h)
    /\ Answer(h)
    /\ UNCHANGED <<http, elapsed, budget, registry>>

\* A publication reads its body without being admitted to anything.
Upload(h) ==
    /\ h \in Publications
    /\ handler[h] = "idle"
    /\ Connected(h)
    /\ To(h, "upload")
    /\ UNCHANGED <<http, elapsed, budget, admitted, registry>>

\* The body has been read, or the input parsed. The select is biased: a stop
\* is seen first.
Proceed(h) ==
    /\ handler[h] \in {"upload", "parse"}
    /\ ~stop
    /\ To(h, IF handler[h] = "upload" THEN "parse" ELSE "start")
    /\ UNCHANGED <<http, elapsed, budget, admitted, registry>>

\* The body breaks off, is not JSON, or does not parse.
BadInput(h) ==
    /\ handler[h] \in {"upload", "parse"}
    /\ Answer(h)
    /\ UNCHANGED <<http, elapsed, budget, registry>>

\* Defect: the upload of a publication does not look at the token.
DataSeesStop(h) == stop /\ h \in DataRequests
SeesStop(h) == stop

\* Defect: no deadline for the body.
NoDeadline(h) == h \in DataRequests /\ handler[h] = "parse" /\ elapsed[h] >= Timeout
\* timeout_at, for the body and for the parse of a data request.
DeadlineOver(h) == h \in DataRequests /\ elapsed[h] >= Timeout

\* Stopped or out of time while it waits for its body or its parse.
GiveUp(h) ==
    /\ handler[h] \in {"upload", "parse"}
    /\ SeesStop(h) \/ DeadlineOver(h)
    /\ Answer(h)
    /\ UNCHANGED <<http, elapsed, budget, registry>>

\* Defect: execution gets the limit of the database.
FullTime(h) == Timeout
\* What is left until the deadline; execute takes the smaller of it and the
\* limit.
Remaining(h) == Timeout - elapsed[h]

\* Admitted::execute: the supervisor takes over the lifetime.
Execute(h) ==
    /\ h \in DataRequests
    /\ handler[h] = "start"
    /\ Remaining(h) > 0
    /\ budget' = [budget EXCEPT ![h] = IF Remaining(h) < Timeout THEN Remaining(h)
                                                                 ELSE Timeout]
    /\ To(h, "execute")
    /\ UNCHANGED <<http, elapsed, admitted, registry>>

NoTimeLeft(h) ==
    /\ h \in DataRequests
    /\ handler[h] = "start"
    /\ Remaining(h) <= 0
    /\ Answer(h)
    /\ UNCHANGED <<http, elapsed, budget, registry>>

\* The supervisor is done: the lifetime is released, then the handler gets the
\* result, if it is still there.
ExecutionEnds(h) ==
    /\ h \in admitted
    /\ handler[h] \in {"execute", "gone"}
    /\ admitted' = admitted \ {h}
    /\ To(h, IF handler[h] = "execute" THEN "reply" ELSE "gone")
    /\ UNCHANGED <<http, elapsed, budget, registry>>

Reply(h) ==
    /\ handler[h] = "reply"
    /\ Answer(h)
    /\ UNCHANGED <<http, elapsed, budget, registry>>

\* The client goes away and the handler is dropped, with the lifetime unless
\* the supervisor has it.
Disconnect(h) ==
    /\ handler[h] \in Busy
    /\ To(h, "gone")
    /\ admitted' = IF handler[h] = "execute" THEN admitted ELSE admitted \ {h}
    /\ UNCHANGED <<http, elapsed, budget, registry>>

\* Time passes for the requests that have been admitted. It stands still once
\* the deadline is over: nothing depends on how long ago that was.
Tick ==
    /\ elapsed' = [h \in DataRequests |->
          IF handler[h] \in {"upload", "parse", "start"} /\ elapsed[h] <= Timeout
          THEN elapsed[h] + 1 ELSE elapsed[h]]
    /\ elapsed' # elapsed
    /\ UNCHANGED <<http, handler, budget, admitted, registry>>

-----------------------------------------------------------------------------
(* management_request, and the operations of the registry. *)

\* registry.publish accepts one operation at a time.
Publish(h) ==
    /\ h \in Publications
    /\ handler[h] = "start"
    /\ ~closed
    /\ operation = "none"
    /\ operation' = "running"
    /\ Answer(h)
    /\ UNCHANGED <<http, elapsed, budget, closed, result, phase>>

PublishRefused(h) ==
    /\ h \in Publications
    /\ handler[h] = "start"
    /\ Answer(h)
    /\ UNCHANGED <<http, elapsed, budget, registry>>

\* DELETE: an unregistration, accepted without a body.
Unregister(h) ==
    /\ h \in Publications
    /\ handler[h] = "idle"
    /\ Connected(h)
    /\ ~closed
    /\ operation = "none"
    /\ operation' = "draining"
    /\ phase' = "closed"
    /\ Answer(h)
    /\ UNCHANGED <<http, elapsed, budget, closed, result>>

CloseAdmission ==
    /\ operation = "running"
    /\ operation' = "draining"
    /\ phase' = "closed"
    /\ UNCHANGED <<http, requests, closed, result>>

\* It waits for the admitted requests only if it has closed admission.
OperationEnds ==
    /\ \/ operation = "running"
       \/ operation = "draining" /\ admitted = {}
    /\ operation' = "none"
    /\ phase' \in {"ready", "closed"}
    /\ UNCHANGED <<http, requests, closed, result>>

\* The task of start_shutdown.
RegistryDrained ==
    /\ closed
    /\ result = None
    /\ operation = "none"
    /\ admitted = {}
    /\ result' = "ok"
    /\ phase' = "closed"
    /\ UNCHANGED <<http, requests, closed, operation>>

-----------------------------------------------------------------------------
(* Server::serve *)

\* The signal of main.rs.
Signal ==
    /\ serve = "running"
    /\ serve' = "closing"
    /\ UNCHANGED <<failure, stop, listener, requests, registry>>

\* join_next returns although nobody asked the listeners to end.
ListenerEnded ==
    /\ serve = "running"
    /\ \E l \in Listeners : listener[l] = "down"
    /\ failure' = TRUE
    /\ serve' = "closing"
    /\ UNCHANGED <<stop, listener, requests, registry>>

\* start_shutdown: admission is closed before anything else is stopped.
StartShutdown ==
    /\ serve = "closing"
    /\ closed' = TRUE
    /\ serve' = "cancelling"
    /\ UNCHANGED <<failure, stop, listener, requests, result, phase, operation>>

Cancel ==
    /\ serve = "cancelling"
    /\ stop' = TRUE
    /\ serve' = "joining"
    /\ UNCHANGED <<failure, listener, requests, registry>>

\* Defect: only the listeners are joined.
ListenersJoined == \A l \in Listeners : listener[l] = "down"
\* join!: the listeners and the registry.
Joined == ListenersJoined /\ result # None

Return ==
    /\ serve = "joining"
    /\ Joined
    /\ serve' = "returned"
    /\ UNCHANGED <<failure, stop, listener, requests, registry>>

\* The future is dropped: the JoinSet aborts the listeners, then the drop of
\* ServerLifetime closes admission and cancels the token.
DropServe ==
    /\ serve \in {"running", "closing", "cancelling", "joining"}
    /\ listener' = [l \in Listeners |-> "down"]
    /\ serve' = "dropping"
    /\ UNCHANGED <<failure, stop, requests, registry>>

LifetimeDropped ==
    /\ serve = "dropping"
    /\ closed' = TRUE
    /\ stop' = TRUE
    /\ serve' = "dropped"
    /\ UNCHANGED <<failure, listener, requests, result, phase, operation>>

\* axum: a listener ends when it is told to and its handlers are done, or it
\* fails; handlers go on without it.
ListenerEnds(l) ==
    /\ listener[l] = "up"
    /\ stop => \A h \in Handlers : ListenerOf(h) = l => handler[h] \notin Busy
    /\ listener' = [listener EXCEPT ![l] = "down"]
    /\ UNCHANGED <<serve, failure, stop, requests, registry>>

-----------------------------------------------------------------------------

Init ==
    /\ serve = "running"
    /\ failure = FALSE
    /\ stop = FALSE
    /\ listener = [l \in Listeners |-> "up"]
    /\ handler = [h \in Handlers |-> "idle"]
    /\ elapsed = [h \in DataRequests |-> 0]
    /\ budget = [h \in DataRequests |-> None]
    /\ admitted = {}
    /\ closed = FALSE
    /\ result = None
    /\ phase \in {"ready", "closed"}
    /\ operation = "none"

\* What a handler does by itself once it is polled.
HandlerStep(h) ==
    \/ GiveUp(h) \/ Execute(h) \/ NoTimeLeft(h) \/ Reply(h) \/ Publish(h)
    \/ PublishRefused(h)

\* What depends on the client or on a free thread.
ClientStep(h) ==
    \/ Admit(h) \/ Refuse(h) \/ Upload(h) \/ Unregister(h) \/ Proceed(h)
    \/ BadInput(h) \/ Disconnect(h)

ServeStep == StartShutdown \/ Cancel \/ Return \/ LifetimeDropped

RegistryStep == CloseAdmission \/ OperationEnds \/ RegistryDrained

Next ==
    \/ \E h \in Handlers : HandlerStep(h) \/ ClientStep(h) \/ ExecutionEnds(h)
    \/ Tick
    \/ ServeStep
    \/ RegistryStep
    \/ Signal \/ ListenerEnded \/ DropServe
    \/ \E l \in Listeners : ListenerEnds(l)

Spec == Init /\ [][Next]_vars

\* Futures are polled, time passes, and an execution ends (StoppedRequestsEnd of
\* the request modules). Nothing is assumed of clients, threads or signals.
Fairness ==
    /\ \A h \in Handlers : WF_vars(HandlerStep(h)) /\ WF_vars(ExecutionEnds(h))
    /\ WF_vars(Tick)
    /\ WF_vars(ServeStep)
    /\ WF_vars(RegistryStep)

FairSpec == Spec /\ Fairness

-----------------------------------------------------------------------------

\* The type invariant.
TypeOK ==
    /\ serve \in ServeSteps
    /\ failure \in BOOLEAN
    /\ stop \in BOOLEAN
    /\ listener \in [Listeners -> {"up", "down"}]
    /\ handler \in [Handlers -> Steps]
    /\ elapsed \in [DataRequests -> 0..Timeout + 1]
    /\ budget \in [DataRequests -> 1..Timeout \cup {None}]
    /\ admitted \subseteq DataRequests
    /\ closed \in BOOLEAN
    /\ result \in {None, "ok"}
    /\ phase \in {"ready", "closed"}
    /\ operation \in {"none", "running", "draining"}

\* "Awaiting completion confirms that accepted operations and requests
\* drained": once serve has returned no request is admitted and no operation
\* runs, and none ever will, although handlers without a listener, or whose
\* listener failed, may still be there.
DrainedOnReturn == serve = "returned" => closed /\ admitted = {} /\ operation = "none"

\* Upload, parse and execution share one limit: what execution is given and
\* what had passed before are together not more than the limit, and it is
\* never started with no time at all.
WithinBudget ==
    \A h \in DataRequests : budget[h] # None =>
        budget[h] > 0 /\ elapsed[h] + budget[h] <= Timeout

(* Liveness, under FairSpec. *)

\* A request is admitted before its body has arrived, and an operation waits for
\* it: the operation ends even if the body never comes.
OperationsEnd == operation # "none" ~> operation = "none"

\* Once the token is cancelled no handler is kept by a client that does not
\* send, with or without a deadline of its own.
StopEndsHandlers ==
    \A h \in Handlers : stop /\ handler[h] \in Busy ~> handler[h] \notin Busy
=============================================================================
