------------------------------ MODULE Registry ------------------------------
(***************************************************************************)
(* The registry as a whole: its databases, the operations and requests it  *)
(* accepts for them, those who wait for an operation or for the shutdown,  *)
(* and the tokio Notify objects that wake them.  Translated from           *)
(* src/registry.rs.  What a publication does to its database between       *)
(* closing admission and its end is the subject of module Database.        *)
(*                                                                         *)
(* A wait is the loop of the code: make a Notified, look at the state under *)
(* its mutex, await the Notified.  Whoever changes the state calls         *)
(* notify_waiters only after it has given the mutex back; such a call is   *)
(* owed in between.                                                        *)
(***************************************************************************)
EXTENDS Integers, Sequences, FiniteSetsExt

CONSTANTS
    Names,          \* names of databases, ordered as in the BTreeMap
    Clients,        \* callers of wait_operation and shutdown, one call each
    MaxOperations,  \* bound: operations accepted in a behaviour
    MaxActive,      \* bound: requests on one database, in flight or with their
                    \* notify_waiters call still to be made
    Shutdown,       \* the Notify of Shutdown; each name stands for its own
    None

ASSUME NamesAreOrdered == Names \subseteq Nat
ASSUME BoundsAreCounts == MaxOperations \in Nat /\ MaxActive \in Nat

Phases == {"recovery_required", "publishing", "ready", "unregistering",
           "unregistered"}
Kinds == {"publish", "unregister"}
Outcomes == {"succeeded", "failed"}
LastRecord == [id: 1..MaxOperations, outcome: Outcomes]
Notifies == Names \cup {Shutdown}
\* The waiting loops: one drain per task, one loop of the shutdown task.
Waiters == Clients \cup {"drain", "worker"}

ASSUME NoneIsNothing ==
    /\ None \notin 1..MaxOperations
    /\ None \notin LastRecord
    /\ None \notin Outcomes \cup {"running", "not_found", "ok", "error", "wait",
                                  "shutdown"}
ASSUME ShutdownIsNoName == Shutdown \notin Names
ASSUME ClientsAreCallers == Clients \cap {"drain", "worker"} = {}

VARIABLES
    entries,    \* Registry.entries: the names it holds
    closed,     \* Shutdown.closed
    result,     \* Shutdown.result
    \* State of each database, behind its mutex.
    phase, opened, active, current, last,
    task,       \* step of the task that holds the management slot
    previous,   \* its previous_phase
    worker,     \* the task of start_shutdown: step and the databases left
    client,     \* the callers
    armed,      \* waiters whose Notified no notify_waiters call has reached
    owed,       \* notify_waiters calls that are still to be made
    journal     \* history variable: the operations accepted, by id

state == <<phase, opened, active, current, last>>
tasks == <<task, previous>>
notify == <<armed, owed>>
vars == <<entries, closed, result, state, tasks, worker, client, notify, journal>>

Ids == DOMAIN journal

-----------------------------------------------------------------------------
(* Notify. *)

\* Defect: the state is looked at before notified() is called.
LookFirst == [enter |-> "test", arm |-> "await", test |-> "arm"]
\* The order of a waiting loop: notified(), the look at the state, the await.
Loop == [enter |-> "arm", arm |-> "test", test |-> "await"]

\* notified(): it is reached by every notify_waiters call from now on.
Arm(w, n) == armed' = [armed EXCEPT ![n] = @ \cup {w}]
\* The loop is left, and its Notified dropped.
Disarm(w, n) == armed' = [armed EXCEPT ![n] = @ \ {w}]
\* await: the Notified has been reached.
Woken(w, n) == w \notin armed[n]

Owe(n) == owed' = [owed EXCEPT ![n] = @ + 1]

\* notify_waiters(), after the mutex was given back.
NotifyWaiters(n) ==
    /\ owed[n] > 0
    /\ owed' = [owed EXCEPT ![n] = @ - 1]
    /\ armed' = [armed EXCEPT ![n] = {}]
    /\ UNCHANGED <<entries, closed, result, state, tasks, worker, client, journal>>

-----------------------------------------------------------------------------
(* Operations: publish, unregister, and the tasks they spawn. *)

\* Defect: only the requests are refused after a shutdown was started.
CheckNothing == TRUE
CheckOpen == ~closed

\* begin, under the locks of entries and State.
Begin(n, kind) ==
    /\ CheckOpen
    /\ current[n] = None
    /\ Len(journal) < MaxOperations
    /\ current' = [current EXCEPT ![n] = Len(journal) + 1]
    /\ journal' = Append(journal, [name |-> n, kind |-> kind, outcome |-> "running"])

Publish(n) ==
    /\ Begin(n, "publish")
    /\ entries' = entries \cup {n}
    /\ task' = [task EXCEPT ![n] = "work"]
    /\ UNCHANGED <<closed, result, phase, opened, active, last, previous, worker,
                   client, notify>>

\* unregister goes straight to drain.
Unregister(n) ==
    /\ n \in entries
    /\ Begin(n, "unregister")
    /\ phase' = [phase EXCEPT ![n] = "unregistering"]
    /\ task' = [task EXCEPT ![n] = Loop.enter]
    /\ UNCHANGED <<entries, closed, result, opened, active, last, previous, worker,
                   client, notify>>

\* close_admission, for a new target or for migrations. Where run_publish does
\* it twice, the second drain finds nobody: admission has stayed closed.
CloseAdmission(n) ==
    /\ task[n] = "work"
    /\ previous' = [previous EXCEPT ![n] = phase[n]]
    /\ phase' = [phase EXCEPT ![n] = "publishing"]
    /\ task' = [task EXCEPT ![n] = Loop.enter]
    /\ UNCHANGED <<entries, closed, result, opened, active, current, last, worker,
                   client, notify, journal>>

DrainArm(n) ==
    /\ task[n] = "arm"
    /\ Arm("drain", n)
    /\ task' = [task EXCEPT ![n] = Loop.arm]
    /\ UNCHANGED <<entries, closed, result, state, previous, worker, client, owed,
                   journal>>

DrainTest(n) ==
    /\ task[n] = "test"
    /\ IF active[n] = 0
       THEN Disarm("drain", n) /\ task' = [task EXCEPT ![n] = "quiet"]
       ELSE UNCHANGED armed /\ task' = [task EXCEPT ![n] = Loop.test]
    /\ UNCHANGED <<entries, closed, result, state, previous, worker, client, owed,
                   journal>>

DrainWoken(n) ==
    /\ task[n] = "await"
    /\ Woken("drain", n)
    /\ task' = [task EXCEPT ![n] = Loop.enter]
    /\ UNCHANGED <<entries, closed, result, state, previous, worker, client, notify,
                   journal>>

Kind(n) == journal[current[n]].kind

\* run_publish has come to its end: the new interfaces are installed.
Published(n) ==
    /\ task[n] \in {"work", "quiet"}
    /\ Kind(n) = "publish"
    /\ phase' = [phase EXCEPT ![n] = "ready"]
    /\ opened' = [opened EXCEPT ![n] = TRUE]
    /\ task' = [task EXCEPT ![n] = "succeeded"]
    /\ UNCHANGED <<entries, closed, result, active, current, last, previous, worker,
                   client, notify, journal>>

\* It failed, in one of its steps or by a panic, which the outer task reports
\* like an error. It may have opened the database before, gives the old phase back
\* if it had not yet changed anything, and asks for recovery at once if it cannot
\* tell whether the record was written. (Until a restart the next publish is then
\* refused; here it may also be accepted, and fail.)
PublishFailed(n) ==
    /\ task[n] \in {"work", "quiet"}
    /\ Kind(n) = "publish"
    /\ phase' \in {phase, [phase EXCEPT ![n] = "recovery_required"],
                   IF task[n] = "quiet" THEN [phase EXCEPT ![n] = previous[n]] ELSE phase}
    /\ opened' \in {opened, [opened EXCEPT ![n] = TRUE]}
    /\ task' = [task EXCEPT ![n] = "failed"]
    /\ UNCHANGED <<entries, closed, result, active, current, last, previous, worker,
                   client, notify, journal>>

\* The registration is removed and its resources retired.
Removed(n) ==
    /\ task[n] = "quiet"
    /\ Kind(n) = "unregister"
    /\ opened' = [opened EXCEPT ![n] = FALSE]
    /\ task' = [task EXCEPT ![n] = "succeeded"]
    /\ UNCHANGED <<entries, closed, result, phase, active, current, last, previous,
                   worker, client, notify, journal>>

RemoveFailed(n) ==
    /\ task[n] = "quiet"
    /\ Kind(n) = "unregister"
    /\ task' = [task EXCEPT ![n] = "failed"]
    /\ UNCHANGED <<entries, closed, result, state, previous, worker, client, notify,
                   journal>>

\* The phase when an operation ends.
FinalPhase(n) ==
    CASE Kind(n) = "unregister" /\ task[n] = "succeeded" -> "unregistered"
      [] Kind(n) = "unregister" /\ task[n] = "failed" -> "recovery_required"
      [] Kind(n) = "publish" /\ task[n] = "failed" /\ phase[n] = "publishing"
            -> "recovery_required"
      [] OTHER -> phase[n]

\* Defect: nobody is told.
FinishSilently(n) == UNCHANGED owed
OweFinish(n) == Owe(n)

\* finish: the record moves from current to last, then the waiters are woken.
Finish(n) ==
    /\ task[n] \in {"succeeded", "failed"}
    /\ phase' = [phase EXCEPT ![n] = FinalPhase(n)]
    /\ current' = [current EXCEPT ![n] = None]
    /\ last' = [last EXCEPT ![n] = [id |-> current[n], outcome |-> task[n]]]
    /\ journal' = [journal EXCEPT ![current[n]].outcome = task[n]]
    /\ task' = [task EXCEPT ![n] = "none"]
    /\ previous' = [previous EXCEPT ![n] = None]
    /\ OweFinish(n)
    /\ UNCHANGED <<entries, closed, result, opened, active, worker, client, armed>>

-----------------------------------------------------------------------------
(* Requests. *)

\* admit and export_migrations, under the locks of entries and State.
Admit(n) ==
    /\ CheckOpen
    /\ n \in entries
    /\ \/ phase[n] = "ready"
       \/ current[n] = None /\ phase[n] # "unregistered" /\ opened[n]
    /\ active[n] + owed[n] < MaxActive
    /\ active' = [active EXCEPT ![n] = @ + 1]
    /\ UNCHANGED <<entries, closed, result, phase, opened, current, last, tasks,
                   worker, client, notify, journal>>

\* RequestLifetime::drop.
RequestEnds(n) ==
    /\ active[n] > 0
    /\ active' = [active EXCEPT ![n] = @ - 1]
    /\ Owe(n)
    /\ UNCHANGED <<entries, closed, result, phase, opened, current, last, tasks,
                   worker, client, armed, journal>>

-----------------------------------------------------------------------------
(* wait_operation. *)

Calls == [call: {None, "wait", "shutdown"},
          step: {"none", "arm", "test", "await", "answered"},
          on: Notifies \cup {None},
          id: 1..MaxOperations \cup {None},
          answer: {None, "not_found", "ok", "error"} \cup Outcomes]
NoCall == [call |-> None, step |-> "none", on |-> None, id |-> None, answer |-> None]

\* The database is looked up once.
WaitOperation(c, n, id) ==
    /\ client[c] = NoCall
    /\ n \in entries
    /\ client' = [client EXCEPT ![c] =
          [call |-> "wait", step |-> Loop.enter, on |-> n, id |-> id, answer |-> None]]
    /\ UNCHANGED <<entries, closed, result, state, tasks, worker, notify, journal>>

\* Defect: an operation that has ended is no longer found while another runs.
OperationOfCurrent(n, id) ==
    CASE current[n] # None /\ current[n] = id -> "running"
      [] current[n] = None /\ last[n] # None /\ last[n].id = id -> last[n].outcome
      [] OTHER -> "not_found"
\* operation(): the current record or the last one.
Operation(n, id) ==
    CASE current[n] = id -> "running"
      [] current[n] # id /\ last[n] # None /\ last[n].id = id -> last[n].outcome
      [] OTHER -> "not_found"

\* What the caller looks at: None as long as it has to wait.
Look(c) ==
    LET a == client[c] IN
    IF a.call = "shutdown" THEN result
    ELSE LET outcome == Operation(a.on, a.id)
         IN  IF outcome = "running" THEN None ELSE outcome

ClientArm(c) ==
    /\ client[c].step = "arm"
    /\ Arm(c, client[c].on)
    /\ client' = [client EXCEPT ![c].step = Loop.arm]
    /\ UNCHANGED <<entries, closed, result, state, tasks, worker, owed, journal>>

ClientTest(c) ==
    /\ client[c].step = "test"
    /\ IF Look(c) # None
       THEN /\ Disarm(c, client[c].on)
            /\ client' = [client EXCEPT ![c].step = "answered", ![c].answer = Look(c)]
       ELSE /\ UNCHANGED armed
            /\ client' = [client EXCEPT ![c].step = Loop.test]
    /\ UNCHANGED <<entries, closed, result, state, tasks, worker, owed, journal>>

ClientWoken(c) ==
    /\ client[c].step = "await"
    /\ Woken(c, client[c].on)
    /\ client' = [client EXCEPT ![c].step = Loop.enter]
    /\ UNCHANGED <<entries, closed, result, state, tasks, worker, notify, journal>>

-----------------------------------------------------------------------------
(* Shutdown. *)

\* start_shutdown: closed is set, and the databases collected, in one critical
\* section of entries. A second call finds it done.
StartShutdown ==
    IF closed THEN UNCHANGED <<closed, worker>>
              ELSE closed' = TRUE /\ worker' = [step |-> Loop.enter, todo |-> entries]

\* start_shutdown by itself, as http.rs uses it.
BeginShutdown ==
    /\ ~closed
    /\ StartShutdown
    /\ UNCHANGED <<entries, result, state, tasks, client, notify, journal>>

\* shutdown: start it, then wait for its result.
CallShutdown(c) ==
    /\ client[c] = NoCall
    /\ StartShutdown
    /\ client' = [client EXCEPT ![c] =
          [call |-> "shutdown", step |-> Loop.enter, on |-> Shutdown, id |-> None,
           answer |-> None]]
    /\ UNCHANGED <<entries, result, state, tasks, notify, journal>>

\* The databases are retired one after the other.
At == Min(worker.todo)
NothingRuns(n) == current[n] = None /\ active[n] = 0

WorkerArm ==
    /\ worker.step = "arm"
    /\ worker.todo # {}
    /\ Arm("worker", At)
    /\ worker' = [worker EXCEPT !.step = Loop.arm]
    /\ UNCHANGED <<entries, closed, result, state, tasks, client, owed, journal>>

WorkerTest ==
    /\ worker.step = "test"
    /\ worker.todo # {}
    /\ IF NothingRuns(At)
       THEN Disarm("worker", At) /\ worker' = [worker EXCEPT !.step = "retire"]
       ELSE UNCHANGED armed /\ worker' = [worker EXCEPT !.step = Loop.test]
    /\ UNCHANGED <<entries, closed, result, state, tasks, client, owed, journal>>

WorkerWoken ==
    /\ worker.step = "await"
    /\ Woken("worker", At)
    /\ worker' = [worker EXCEPT !.step = Loop.enter]
    /\ UNCHANGED <<entries, closed, result, state, tasks, client, notify, journal>>

\* A critical section of its own: the mutex was given back after the test.
WorkerRetire ==
    /\ worker.step = "retire"
    /\ phase' = [phase EXCEPT ![At] = "unregistered"]
    /\ opened' = [opened EXCEPT ![At] = FALSE]
    /\ worker' = [worker EXCEPT !.step = "drop"]
    /\ UNCHANGED <<entries, closed, result, active, current, last, tasks, client,
                   notify, journal>>

\* The retired resources are dropped on a blocking thread, then the waiters of
\* the database are woken.
WorkerDrop ==
    /\ worker.step = "drop"
    /\ Owe(At)
    /\ worker' = [step |-> Loop.enter, todo |-> worker.todo \ {At}]
    /\ UNCHANGED <<entries, closed, result, state, tasks, client, armed, journal>>

\* The result is stored, then the callers are woken. A drop that panics ends
\* the loop early.
WorkerEnds(r) ==
    /\ \/ r = "ok" /\ worker.step = Loop.enter /\ worker.todo = {}
       \/ r = "error" /\ worker.step = "drop"
    /\ result' = r
    /\ Owe(Shutdown)
    /\ worker' = [worker EXCEPT !.step = "done"]
    /\ UNCHANGED <<entries, closed, state, tasks, client, armed, journal>>

-----------------------------------------------------------------------------

\* The databases that Registry::open has restored, some of them in service.
Init ==
    /\ entries \in SUBSET Names
    /\ closed = FALSE
    /\ result = None
    /\ \E up \in SUBSET entries :
          /\ phase = [n \in Names |-> IF n \in up THEN "ready" ELSE "recovery_required"]
          /\ opened = [n \in Names |-> n \in up]
    /\ active = [n \in Names |-> 0]
    /\ current = [n \in Names |-> None]
    /\ last = [n \in Names |-> None]
    /\ task = [n \in Names |-> "none"]
    /\ previous = [n \in Names |-> None]
    /\ worker = [step |-> "none", todo |-> {}]
    /\ client = [c \in Clients |-> NoCall]
    /\ armed = [n \in Notifies |-> {}]
    /\ owed = [n \in Notifies |-> 0]
    /\ journal = <<>>

TaskStep(n) ==
    \/ CloseAdmission(n) \/ DrainArm(n) \/ DrainTest(n) \/ DrainWoken(n)
    \/ Published(n) \/ PublishFailed(n) \/ Removed(n) \/ RemoveFailed(n)
    \/ Finish(n)

ClientStep(c) == ClientArm(c) \/ ClientTest(c) \/ ClientWoken(c)

WorkerStep ==
    \/ WorkerArm \/ WorkerTest \/ WorkerWoken \/ WorkerRetire \/ WorkerDrop
    \/ \E r \in {"ok", "error"} : WorkerEnds(r)

Next ==
    \/ \E n \in Names : \/ Publish(n) \/ Unregister(n) \/ Admit(n)
                        \/ RequestEnds(n) \/ TaskStep(n)
    \/ \E n \in Notifies : NotifyWaiters(n)
    \/ \E c \in Clients : \/ ClientStep(c)
                          \/ CallShutdown(c)
                          \/ \E n \in Names, id \in Ids : WaitOperation(c, n, id)
    \/ BeginShutdown
    \/ WorkerStep

Spec == Init /\ [][Next]_vars

\* Spawned tasks and polled callers go on, code after a critical section is
\* reached, and a request ends since its time limit is finite.
Fairness ==
    /\ \A n \in Names : WF_vars(TaskStep(n)) /\ WF_vars(RequestEnds(n))
    /\ \A n \in Notifies : WF_vars(NotifyWaiters(n))
    /\ \A c \in Clients : WF_vars(ClientStep(c))
    /\ WF_vars(WorkerStep)

FairSpec == Spec /\ Fairness

-----------------------------------------------------------------------------

\* The type invariant.
TypeOK ==
    /\ entries \subseteq Names
    /\ closed \in BOOLEAN
    /\ result \in {None, "ok", "error"}
    /\ phase \in [Names -> Phases]
    /\ opened \in [Names -> BOOLEAN]
    /\ active \in [Names -> 0..MaxActive]
    /\ current \in [Names -> 1..MaxOperations \cup {None}]
    /\ last \in [Names -> LastRecord \cup {None}]
    /\ task \in [Names -> {"none", "work", "arm", "test", "await", "quiet",
                           "succeeded", "failed"}]
    /\ previous \in [Names -> Phases \cup {None}]
    /\ worker \in [step: {"none", "arm", "test", "await", "retire", "drop", "done"},
                   todo: SUBSET Names]
    /\ client \in [Clients -> Calls]
    /\ armed \in [Notifies -> SUBSET Waiters]
    /\ owed \in [Notifies -> Nat]
    /\ journal \in Seq([name: Names, kind: Kinds,
                        outcome: {"running", "succeeded", "failed"}])

\* No wake-up is lost: somebody who waits for what has already happened, and
\* whom no notify_waiters call has reached, is about to be woken. This is why
\* drain, wait_operation and shutdown make the Notified before they look.
WakeupIsOwed ==
    /\ \A n \in Names : task[n] = "await" /\ "drain" \in armed[n] =>
          active[n] > 0 \/ owed[n] > 0
    /\ worker.step = "await" /\ "worker" \in armed[At] =>
          ~NothingRuns(At) \/ owed[At] > 0
    /\ \A c \in Clients : client[c].step = "await" /\ c \in armed[client[c].on] =>
          Look(c) = None \/ owed[client[c].on] > 0

\* wait_operation tells the outcome its operation had. It says "not found" only
\* of an operation of another database or of one that ended before another
\* operation of its database ended: never of the current or the last one.
AnswersAreTruthful ==
    \A c \in Clients : client[c].call = "wait" /\ client[c].step = "answered" =>
        LET op == journal[client[c].id]
        IN  IF client[c].answer = "not_found"
            THEN \/ op.name # client[c].on
                 \/ /\ op.outcome # "running"
                    /\ \E id \in Ids : /\ id > client[c].id
                                       /\ journal[id].name = op.name
                                       /\ journal[id].outcome # "running"
            ELSE op.name = client[c].on /\ op.outcome = client[c].answer

\* A shutdown that reports success has retired every database the registry
\* holds: none is open, used, changed or left out because it was added late.
ShutdownIsComplete ==
    result = "ok" => \A n \in entries :
        /\ phase[n] = "unregistered"
        /\ ~opened[n]
        /\ active[n] = 0
        /\ current[n] = None

\* Whoever calls wait_operation or shutdown gets an answer, however the
\* notifications of tasks, requests and shutdown fall between its steps.
CallersReturn ==
    \A c \in Clients : client[c].step # "none" ~> client[c].step = "answered"
=============================================================================
