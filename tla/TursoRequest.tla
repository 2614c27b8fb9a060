---------------------------- MODULE TursoRequest ----------------------------
(***************************************************************************)
(* One request to the embedded database, from Executor::execute_tracked in *)
(* src/execution.rs through run_request in src/turso_driver.rs.            *)
(*                                                                         *)
(* Four parties run concurrently: the caller, who may go away; the         *)
(* supervisor task, which owns the request's lifetime token; the blocking  *)
(* worker, which may wait in the pool's queue for ever and cannot be       *)
(* stopped once it runs; and the watchdog, which interrupts its statement. *)
(* The registry gives the database up once the lifetime is released.       *)
(***************************************************************************)
VARIABLES
    expired,     \* the deadline of Control has passed
    cancelled,   \* its cancellation token
    caller,      \* "waiting", "gone" or "answered"
    supervisor,  \* step of the spawned task
    reply,       \* the result it returns
    lifetime,    \* RequestLifetime: "held" or "released"
    started,     \* the flag behind the gate between supervisor and worker
    aborted,     \* worker.abort() was called
    worker,      \* step of the blocking closure
    outcome,     \* its result
    slot,        \* whether the watchdog can reach the connection
    watchdog,    \* "waiting", "interrupting" or "off"
    interrupted, \* the running statement has been interrupted
    tx,          \* "none", "open", "committed" or "undone"
    strong       \* who keeps the database open

control == <<expired, cancelled>>
gate == <<started, aborted>>
connection == <<slot, interrupted, tx>>
vars == <<control, caller, supervisor, reply, lifetime, gate, worker, outcome,
          connection, watchdog, strong>>

Results == {"ok", "failed", "unknown", "cleanup_failed"}

\* Steps during which the connection executes a statement.
Statements == {"begin", "statement", "commit"}
\* Steps during which the worker holds a connection.
Connected == {"connected", "between", "response", "failing", "rollback",
              "closing"} \cup Statements
WorkerSteps == {"absent", "queued", "entered", "marked", "checked", "done"}
                   \cup Connected
SupervisorSteps == {"validating", "select", "aborting", "joining", "returned",
                    "ended"}

-----------------------------------------------------------------------------
(* Control. *)

\* Control::check fails.
Stopped == cancelled \/ expired

Expire ==
    /\ ~expired
    /\ expired' = TRUE
    /\ UNCHANGED <<cancelled, caller, supervisor, reply, lifetime, gate, worker,
                   outcome, connection, watchdog, strong>>

\* The caller drops the future; CancelOnDrop cancels the token.
Disconnect ==
    /\ caller = "waiting"
    /\ caller' = "gone"
    /\ cancelled' = TRUE
    /\ UNCHANGED <<expired, supervisor, reply, lifetime, gate, worker, outcome,
                   connection, watchdog, strong>>

-----------------------------------------------------------------------------
(* The supervisor. *)

\* The input is valid: the watchdog is spawned and the worker queued.
Prepared ==
    /\ supervisor = "validating"
    /\ ~Stopped
    /\ supervisor' = "select"
    /\ worker' = "queued"
    /\ watchdog' = "waiting"
    /\ UNCHANGED <<control, caller, reply, lifetime, gate, outcome, connection,
                   strong>>

\* The supervisor leaves: it gives up the database, then the watchdog is gone.
Return(result) ==
    /\ supervisor' = "returned"
    /\ reply' = result
    /\ watchdog' = "off"
    /\ strong' = strong \ {"supervisor"}

\* Invalid input, or no time to wait for the validation.
Rejected ==
    /\ supervisor = "validating"
    /\ Return("failed")
    /\ UNCHANGED <<control, caller, lifetime, gate, worker, outcome, connection>>

Finished == worker = "done"

\* The worker has finished, before or after the supervisor stopped waiting.
WorkerJoined ==
    /\ supervisor \in {"select", "joining"}
    /\ Finished
    /\ Return(outcome)
    /\ UNCHANGED <<control, caller, lifetime, gate, worker, outcome, connection>>

StopWaiting ==
    /\ supervisor = "select"
    /\ Stopped
    /\ supervisor' = "aborting"
    /\ aborted' = TRUE
    /\ UNCHANGED <<control, caller, reply, lifetime, started, worker, outcome,
                   connection, watchdog, strong>>

\* Defect: the worker is always waited for.
GateIgnored == FALSE
\* Under the gate: the worker has not begun.
GateOpen == ~started

\* A queued worker may never run, so it is not waited for.
LeaveQueued ==
    /\ supervisor = "aborting"
    /\ GateOpen
    /\ cancelled' = TRUE
    /\ Return("failed")
    /\ UNCHANGED <<expired, caller, lifetime, gate, worker, outcome, connection>>

\* A running worker must finish its cleanup.
Join ==
    /\ supervisor = "aborting"
    /\ ~GateOpen
    /\ supervisor' = "joining"
    /\ UNCHANGED <<control, caller, reply, lifetime, gate, worker, outcome,
                   connection, watchdog, strong>>

\* The task ends and drops the lifetime token; the caller, if still there,
\* gets the reply, and its token is dropped with the future.
Release ==
    /\ supervisor = "returned"
    /\ supervisor' = "ended"
    /\ lifetime' = "released"
    /\ IF caller = "waiting" THEN caller' = "answered" /\ cancelled' = TRUE
                             ELSE UNCHANGED <<caller, cancelled>>
    /\ UNCHANGED <<expired, reply, gate, worker, outcome, connection, watchdog,
                   strong>>

\* After the drain the registry drops its Resources: first the database, then
\* the claim on its file.
RegistryRetires ==
    /\ lifetime = "released"
    /\ "registry" \in strong
    /\ strong' = strong \ {"registry"}
    /\ UNCHANGED <<control, caller, supervisor, reply, lifetime, gate, worker,
                   outcome, connection, watchdog>>

-----------------------------------------------------------------------------
(* The blocking worker. *)

\* A thread of the pool takes the job, unless it was aborted in the queue.
WorkerEnters ==
    /\ worker = "queued"
    /\ ~aborted
    /\ worker' = "entered"
    /\ UNCHANGED <<control, caller, supervisor, reply, lifetime, gate, outcome,
                   connection, watchdog, strong>>

WorkerMarks ==
    /\ worker = "entered"
    /\ started' = TRUE
    /\ worker' = "marked"
    /\ UNCHANGED <<control, caller, supervisor, reply, lifetime, aborted, outcome,
                   connection, watchdog, strong>>

\* Defect: the late worker does not look at the control.
MayGoOnAlways == TRUE
MayGoOn == ~Stopped

WorkerChecks ==
    /\ worker = "marked"
    /\ IF MayGoOn THEN worker' = "checked" /\ UNCHANGED outcome
                  ELSE worker' = "done" /\ outcome' = "failed"
    /\ UNCHANGED <<control, caller, supervisor, reply, lifetime, gate, connection,
                   watchdog, strong>>

\* The weak reference is upgraded, if anyone still keeps the database open,
\* and a connection made and shown to the watchdog.
WorkerConnects ==
    /\ worker = "checked"
    /\ \/ strong # {} /\ strong' = strong \cup {"worker"}
          /\ worker' = "connected" /\ slot' = TRUE /\ UNCHANGED outcome
       \/ worker' = "done" /\ outcome' = "failed" /\ UNCHANGED <<strong, slot>>
    /\ UNCHANGED <<control, caller, supervisor, reply, lifetime, gate, interrupted,
                   tx, watchdog>>

\* What every later step of the worker leaves alone.
aside == <<control, caller, supervisor, reply, lifetime, gate, watchdog, strong>>

\* Control is checked before every statement, before the response and before
\* COMMIT.
WorkerProceeds ==
    /\ ~Stopped
    /\ \/ worker = "connected" /\ worker' = "begin"
       \/ worker = "between" /\ worker' \in {"statement", "response"}
       \/ worker = "response" /\ worker' = "commit"
    /\ UNCHANGED <<aside, outcome, connection>>

\* Control stopped the request, or a contract, a limit or an encoding did.
\* Right after the connection was made there is nothing to clean up.
WorkerFails ==
    /\ worker \in {"connected", "between", "response"}
    /\ worker' = IF worker = "connected" THEN "closing" ELSE "failing"
    /\ outcome' = "failed"
    /\ UNCHANGED <<aside, connection>>

\* A statement completes.
StatementDone ==
    /\ worker \in {"begin", "statement"}
    /\ worker' = "between"
    /\ interrupted' = FALSE
    /\ tx' = "open"
    /\ UNCHANGED <<aside, outcome, slot>>

\* An SQL error, the statement's own timeout, or an interrupt. The database may
\* have ended the transaction by itself.
StatementFails ==
    /\ worker \in {"begin", "statement"}
    /\ worker' = "failing"
    /\ outcome' = "failed"
    /\ interrupted' = FALSE
    /\ tx' \in IF tx = "open" THEN {"open", "undone"} ELSE {tx}
    /\ UNCHANGED <<aside, slot>>

CommitDone ==
    /\ worker = "commit"
    /\ worker' = "closing"
    /\ outcome' = "ok"
    /\ tx' = "committed"
    /\ interrupted' = FALSE
    /\ UNCHANGED <<aside, slot>>

\* Defect: a failed COMMIT is reported like any other failure.
CommitFailedOutcome == "failed"
CommitErrorOutcome == "unknown"

\* COMMIT returned something else: it may have taken effect or not.
CommitFails ==
    /\ worker = "commit"
    /\ worker' = "failing"
    /\ outcome' = CommitErrorOutcome
    /\ tx' \in {"open", "committed", "undone"}
    /\ interrupted' = FALSE
    /\ UNCHANGED <<aside, slot>>

\* Defect: the watchdog keeps the connection.
KeepSlot == UNCHANGED slot
ClearSlot == slot' = FALSE

\* The connection is taken from the watchdog, then cleanup begins: nothing to
\* do in auto-commit mode, else ROLLBACK.
StartCleanup ==
    /\ worker = "failing"
    /\ ClearSlot
    /\ worker' = IF tx = "open" THEN "rollback" ELSE "closing"
    /\ UNCHANGED <<aside, outcome, interrupted, tx>>

RollbackDone ==
    /\ worker = "rollback"
    /\ worker' = "closing"
    /\ tx' = "undone"
    /\ UNCHANGED <<aside, outcome, slot, interrupted>>

\* The error of cleanup replaces the original one, except after COMMIT.
RollbackFails ==
    /\ worker = "rollback"
    /\ worker' = "closing"
    /\ outcome' = IF outcome = "unknown" THEN "unknown" ELSE "cleanup_failed"
    /\ UNCHANGED <<aside, connection>>

\* CloseConnection: an open transaction does not survive its connection.
\* The worker's reference to the database goes with it.
WorkerEnds ==
    /\ worker = "closing"
    /\ worker' = "done"
    /\ tx' = IF tx = "open" THEN "undone" ELSE tx
    /\ strong' = strong \ {"worker"}
    /\ UNCHANGED <<control, caller, supervisor, reply, lifetime, gate, watchdog,
                   outcome, slot, interrupted>>

-----------------------------------------------------------------------------
(* The watchdog. *)

WatchdogWakes ==
    /\ watchdog = "waiting"
    /\ Stopped
    /\ watchdog' = "interrupting"
    /\ UNCHANGED <<control, caller, supervisor, reply, lifetime, gate, worker,
                   outcome, connection, strong>>

\* It tries again every 10 ms, until it is aborted.
WatchdogLoops == UNCHANGED watchdog

\* Under the lock of the slot. An interrupt between two statements is lost.
WatchdogInterrupts ==
    /\ watchdog = "interrupting"
    /\ interrupted' = (slot /\ (interrupted \/ worker \in Statements \cup {"rollback"}))
    /\ WatchdogLoops
    /\ UNCHANGED <<control, caller, supervisor, reply, lifetime, gate, worker,
                   outcome, slot, tx, strong>>

-----------------------------------------------------------------------------

Init ==
    /\ expired = FALSE
    /\ cancelled = FALSE
    /\ caller = "waiting"
    /\ supervisor = "validating"
    /\ reply = "none"
    /\ lifetime = "held"
    /\ started = FALSE
    /\ aborted = FALSE
    /\ worker = "absent"
    /\ outcome = "none"
    /\ slot = FALSE
    /\ watchdog = "off"
    /\ interrupted = FALSE
    /\ tx = "none"
    /\ strong = {"registry", "supervisor"}

SupervisorStep ==
    \/ Prepared \/ Rejected \/ WorkerJoined \/ StopWaiting \/ LeaveQueued \/ Join
    \/ Release

\* Steps the worker takes by itself, whatever the database does.
WorkerStep ==
    \/ WorkerMarks \/ WorkerChecks \/ WorkerConnects \/ WorkerProceeds
    \/ WorkerFails \/ StartCleanup \/ RollbackDone \/ RollbackFails \/ WorkerEnds

StatementStep == StatementDone \/ StatementFails \/ CommitDone \/ CommitFails

Next ==
    \/ Expire \/ Disconnect \/ SupervisorStep \/ RegistryRetires
    \/ WorkerEnters \/ WorkerStep \/ StatementStep
    \/ WatchdogWakes \/ WatchdogInterrupts

Spec == Init /\ [][Next]_vars

\* Tasks are polled and threads run. Nothing makes the pool run a queued job,
\* the deadline come, or a statement end that was not told to.
FairSpec ==
    /\ Spec
    /\ WF_vars(SupervisorStep)
    /\ WF_vars(WorkerStep)
    /\ WF_vars(StatementStep /\ (interrupted \/ expired))
    /\ WF_vars(WatchdogWakes)
    /\ WF_vars(WatchdogInterrupts)

-----------------------------------------------------------------------------
(* The promise of execute_tracked. *)

\* What has become of the transaction.
Effect == IF tx \in {"committed", "undone"} THEN tx ELSE "pending"

Promised == INSTANCE Execution WITH effect <- Effect, Late <- FALSE

\* Every step of caller, supervisor, worker and watchdog is a step of the promise of
\* execute_tracked or invisible to it. Nothing happens to the transaction once
\* run_request has returned, whenever the pool starts the worker.
ImplementsExecution == Promised!Spec

-----------------------------------------------------------------------------
(* Properties. *)

\* The type invariant; the task returns with a result and not before.
TypeOK ==
    /\ expired \in BOOLEAN
    /\ cancelled \in BOOLEAN
    /\ caller \in {"waiting", "gone", "answered"}
    /\ supervisor \in SupervisorSteps
    /\ reply \in IF supervisor \in {"returned", "ended"} THEN Results ELSE {"none"}
    /\ lifetime \in {"held", "released"}
    /\ started \in BOOLEAN
    /\ aborted \in BOOLEAN
    /\ worker \in WorkerSteps
    /\ outcome \in Results \cup {"none"}
    /\ slot \in BOOLEAN
    /\ watchdog \in {"waiting", "interrupting", "off"}
    /\ interrupted \in BOOLEAN
    /\ tx \in {"none", "open", "committed", "undone"}
    /\ strong \subseteq {"registry", "supervisor", "worker"}

\* Once the lifetime is released (and the drain of the registry may end) the
\* request does nothing to the database any more, even if its worker is
\* started by the pool only then.
NoWorkAfterRelease ==
    lifetime = "released" => worker \notin Connected /\ tx # "open"

\* When the registry has given the database up, and with it the claim on the
\* file, nobody keeps it open: the worker holds a weak reference until it runs.
ClaimOutlivesDatabase == "registry" \notin strong => strong = {}

\* A reply tells the truth about the transaction, now and later: "ok" means
\* committed, and any error but "unknown" means not committed.
ReplyIsTruthful ==
    supervisor \in {"returned", "ended"} =>
        /\ reply = "ok" => tx = "committed"
        /\ reply \in {"failed", "cleanup_failed"} => tx \in {"none", "undone"}

\* The watchdog never interrupts the ROLLBACK of the cleanup.
RollbackIsNotInterrupted == ~(worker = "rollback" /\ interrupted)

\* A request that is cancelled or out of time releases its lifetime: a stuck
\* statement is interrupted, and a worker stuck in the queue not waited for.
StoppedRequestsEnd == Stopped ~> lifetime = "released"
=============================================================================
