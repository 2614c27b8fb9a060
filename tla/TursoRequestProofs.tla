-------------------------- MODULE TursoRequestProofs --------------------------
(***************************************************************************)
(* The safety properties of one request, as the embedded driver runs it.   *)
(* There is no parameter: the inductive invariant says why the properties  *)
(* hold, step by step of each party.                                       *)
(***************************************************************************)
EXTENDS TursoRequest, TLAPS

-----------------------------------------------------------------------------
(* The inductive invariant. *)

\* run_request has returned.
Away == supervisor \in {"returned", "ended"}

\* The worker is behind the gate once it has marked itself; only then is it
\* waited for.  The token is dropped last.
Gate ==
    /\ started <=> worker \notin {"absent", "queued", "entered"}
    /\ supervisor = "validating" => worker = "absent"
    /\ supervisor = "joining" => started
    /\ lifetime = "released" <=> supervisor = "ended"

\* Before it connects the worker has touched nothing.
Fresh ==
    worker \in {"absent", "queued", "entered", "marked", "checked"} =>
        tx = "none" /\ outcome = "none" /\ ~slot

\* Who keeps the database open, and until when.
Keepers ==
    /\ "supervisor" \in strong <=> ~Away
    /\ "worker" \in strong <=> worker \in Connected
    /\ "registry" \notin strong => lifetime = "released"

\* The transaction and the outcome at each step of the worker.
Transaction ==
    /\ worker \in {"connected", "begin"} => tx = "none" /\ outcome = "none"
    /\ worker \in {"between", "statement", "response", "commit"} =>
           tx = "open" /\ outcome = "none"
    /\ worker \in {"failing", "rollback"} => outcome \in {"failed", "unknown"}
    /\ worker = "rollback" => tx = "open" /\ ~slot
    /\ worker \in {"closing", "done"} => outcome # "none"
    /\ worker = "done" => tx # "open"
    /\ outcome = "ok" => tx = "committed"
    /\ outcome \in {"failed", "cleanup_failed"} => tx # "committed"

\* What run_request leaves behind: a worker that has ended, or one that will
\* find the request stopped before it touches anything.
Abandoned ==
    Away =>
        /\ worker \in {"absent", "queued", "entered", "marked", "done"}
        /\ worker \in {"queued", "entered", "marked"} => Stopped
        /\ reply = IF worker = "done" THEN outcome ELSE "failed"

\* An interrupt is only pending while a statement runs.
Watched == interrupted => worker \in Statements

Inv ==
    /\ TypeOK
    /\ Gate
    /\ Fresh
    /\ Keepers
    /\ Transaction
    /\ Abandoned
    /\ Watched

\* The definitions that every step needs.
USE DEF Statements, Connected, Stopped, control, gate, connection, aside

LEMMA InitHolds == Init => Inv
BY DEF Init, Inv, TypeOK, Gate, Fresh, Keepers, Transaction, Abandoned,
   Watched, Away, SupervisorSteps, WorkerSteps

\* The deadline passes, or the caller goes away: both only stop the request.
LEMMA ControlInductive ==
    ASSUME Inv, Expire \/ Disconnect
    PROVE  Inv'
<1>1. CASE Expire
  BY <1>1 DEF Expire, Inv, TypeOK, Gate, Fresh, Keepers, Transaction,
     Abandoned, Watched, Away
<1>2. CASE Disconnect
  BY <1>2 DEF Disconnect, Inv, TypeOK, Gate, Fresh, Keepers, Transaction,
     Abandoned, Watched, Away
<1> QED
  BY <1>1, <1>2

\* The supervisor returns with a worker that has ended, or one that never marked
\* itself; the registry follows.
LEMMA SupervisorInductive ==
    ASSUME Inv,
           \/ Prepared \/ Rejected \/ WorkerJoined
           \/ StopWaiting \/ LeaveQueued \/ Join \/ Release
           \/ RegistryRetires
    PROVE  Inv'
<1>1. CASE Prepared
  BY <1>1 DEF Prepared, Inv, TypeOK, Gate, Fresh, Keepers, Transaction,
     Abandoned, Watched, Away, SupervisorSteps, WorkerSteps
<1>2. CASE Rejected
  BY <1>2 DEF Rejected, Inv, TypeOK, Gate, Fresh, Keepers, Transaction,
     Abandoned, Watched, Away, SupervisorSteps, Results, Return
<1>3. CASE WorkerJoined
  BY <1>3 DEF WorkerJoined, Inv, TypeOK, Gate, Fresh, Keepers,
     Transaction, Abandoned, Watched, Away, SupervisorSteps, Return, Finished
<1>4. CASE StopWaiting
  BY <1>4 DEF StopWaiting, Inv, TypeOK, Gate, Fresh, Keepers, Transaction,
     Abandoned, Watched, Away, SupervisorSteps
<1>5. CASE LeaveQueued
  BY <1>5 DEF LeaveQueued, Inv, TypeOK, Gate, Fresh, Keepers, Transaction,
     Abandoned, Watched, Away, SupervisorSteps, Results, Return, GateOpen
<1>6. CASE Join
  BY <1>6 DEF Join, Inv, TypeOK, Gate, Fresh, Keepers, Transaction,
     Abandoned, Watched, Away, SupervisorSteps, GateOpen
<1>7. CASE Release
  <2>1. TypeOK'
    <3>1. supervisor' = "ended" /\ lifetime' = "released" /\ supervisor = "returned"
          /\ caller' \in {caller, "answered"} /\ cancelled' \in {cancelled, TRUE}
          /\ UNCHANGED <<expired, reply, started, aborted, worker, outcome, slot,
                        interrupted, tx, watchdog, strong>>
      BY <1>7 DEF Release
    <3>2. supervisor' \in SupervisorSteps
      BY <3>1 DEF SupervisorSteps
    <3>3. (reply \in IF supervisor \in {"returned", "ended"} THEN Results
                                                           ELSE {"none"})'
      BY <3>1 DEF Inv, TypeOK
    <3>4. /\ caller' \in {"waiting", "gone", "answered"}
          /\ lifetime' \in {"held", "released"}
          /\ watchdog' \in {"waiting", "interrupting", "off"}
          /\ tx' \in {"none", "open", "committed", "undone"}
      BY <3>1 DEF Inv, TypeOK
    <3> QED
      BY <3>1, <3>2, <3>3, <3>4 DEF Inv, TypeOK
  <2>2. (Gate /\ Fresh /\ Keepers)'
    BY <1>7 DEF Release, Inv, Gate, Fresh, Keepers, Away
  <2>3. Transaction'
    BY <1>7 DEF Release, Inv, Transaction
  <2>4. (Abandoned /\ Watched)'
    BY <1>7 DEF Release, Inv, Abandoned, Watched, Away
  <2> QED
    BY <2>1, <2>2, <2>3, <2>4 DEF Inv
<1>8. CASE RegistryRetires
  BY <1>8 DEF RegistryRetires, Inv, TypeOK, Gate, Fresh, Keepers,
     Transaction, Abandoned, Watched, Away
<1> QED
  BY <1>1, <1>2, <1>3, <1>4, <1>5, <1>6, <1>7, <1>8

\* The worker passes the gate, connects, works and cleans up.
LEMMA WorkerInductive ==
    ASSUME Inv,
           \/ WorkerEnters \/ WorkerMarks \/ WorkerChecks
           \/ WorkerConnects \/ WorkerProceeds \/ WorkerFails
           \/ StartCleanup \/ RollbackDone \/ RollbackFails
           \/ WorkerEnds
    PROVE  Inv'
<1>1. CASE WorkerEnters
  BY <1>1 DEF WorkerEnters, Inv, TypeOK, Gate, Fresh, Keepers,
     Transaction, Abandoned, Watched, Away, WorkerSteps
<1>2. CASE WorkerMarks
  BY <1>2 DEF WorkerMarks, Inv, TypeOK, Gate, Fresh, Keepers, Transaction,
     Abandoned, Watched, Away, WorkerSteps
<1>3. CASE WorkerChecks
  BY <1>3 DEF WorkerChecks, Inv, TypeOK, Gate, Fresh, Keepers,
     Transaction, Abandoned, Watched, Away, WorkerSteps, Results, MayGoOn
<1>4. CASE WorkerConnects
  <2>1. TypeOK'
    <3>1. /\ \/ worker' = "connected" /\ slot' = TRUE /\ outcome' = outcome
                /\ strong' = strong \cup {"worker"}
             \/ worker' = "done" /\ outcome' = "failed" /\ UNCHANGED <<strong, slot>>
          /\ UNCHANGED <<expired, cancelled, caller, supervisor, reply, lifetime,
                        started, aborted, watchdog, interrupted, tx>>
      BY <1>4 DEF WorkerConnects
    <3>2. worker' \in WorkerSteps /\ outcome' \in Results \cup {outcome}
      BY <3>1 DEF WorkerSteps, Results
    <3>3. (reply \in IF supervisor \in {"returned", "ended"} THEN Results
                                                           ELSE {"none"})'
      BY <3>1 DEF Inv, TypeOK
    <3>4. /\ caller' \in {"waiting", "gone", "answered"}
          /\ lifetime' \in {"held", "released"}
          /\ watchdog' \in {"waiting", "interrupting", "off"}
          /\ tx' \in {"none", "open", "committed", "undone"}
      BY <3>1 DEF Inv, TypeOK
    <3> QED
      BY <3>1, <3>2, <3>3, <3>4 DEF Inv, TypeOK
  <2>2. (Gate /\ Fresh /\ Keepers)'
    BY <1>4 DEF WorkerConnects, Inv, Gate, Fresh, Keepers, Away
  <2>3. Transaction'
    BY <1>4 DEF WorkerConnects, Inv, Fresh, Transaction
  <2>4. (Abandoned /\ Watched)'
    BY <1>4 DEF WorkerConnects, Inv, Abandoned, Watched, Away
  <2> QED
    BY <2>1, <2>2, <2>3, <2>4 DEF Inv
<1>5. CASE WorkerProceeds
  BY <1>5 DEF WorkerProceeds, Inv, TypeOK, Gate, Fresh, Keepers,
     Transaction, Abandoned, Watched, Away, WorkerSteps
<1>6. CASE WorkerFails
  BY <1>6 DEF WorkerFails, Inv, TypeOK, Gate, Fresh, Keepers, Transaction,
     Abandoned, Watched, Away, WorkerSteps, Results
<1>7. CASE StartCleanup
  <2>1. TypeOK'
    <3>1. worker' \in {"rollback", "closing"} /\ slot' = FALSE
          /\ UNCHANGED <<expired, cancelled, caller, supervisor, reply, lifetime,
                        started, aborted, watchdog, strong, outcome, interrupted, tx>>
      BY <1>7 DEF StartCleanup, ClearSlot
    <3>2. worker' \in WorkerSteps
      BY <3>1 DEF WorkerSteps
    <3>3. (reply \in IF supervisor \in {"returned", "ended"} THEN Results
                                                           ELSE {"none"})'
      BY <3>1 DEF Inv, TypeOK
    <3>4. /\ caller' \in {"waiting", "gone", "answered"}
          /\ lifetime' \in {"held", "released"}
          /\ watchdog' \in {"waiting", "interrupting", "off"}
          /\ tx' \in {"none", "open", "committed", "undone"}
      BY <3>1 DEF Inv, TypeOK
    <3> QED
      BY <3>1, <3>2, <3>3, <3>4 DEF Inv, TypeOK
  <2>2. (Gate /\ Fresh /\ Keepers)'
    BY <1>7 DEF StartCleanup, Inv, Gate, Fresh, Keepers, Away
  <2>3. Transaction'
    BY <1>7 DEF StartCleanup, Inv, Transaction, ClearSlot
  <2>4. (Abandoned /\ Watched)'
    BY <1>7 DEF StartCleanup, Inv, Abandoned, Watched, Away
  <2> QED
    BY <2>1, <2>2, <2>3, <2>4 DEF Inv
<1>8. CASE RollbackDone
  BY <1>8 DEF RollbackDone, Inv, TypeOK, Gate, Fresh, Keepers,
     Transaction, Abandoned, Watched, Away, WorkerSteps
<1>9. CASE RollbackFails
  BY <1>9 DEF RollbackFails, Inv, TypeOK, Gate, Fresh, Keepers,
     Transaction, Abandoned, Watched, Away, WorkerSteps, Results
<1>10. CASE WorkerEnds
  BY <1>10 DEF WorkerEnds, Inv, TypeOK, Gate, Fresh, Keepers, Transaction,
     Abandoned, Watched, Away, WorkerSteps
<1> QED
  BY <1>1, <1>2, <1>3, <1>4, <1>5, <1>6, <1>7, <1>8, <1>9, <1>10

\* A statement ends, and with it an interrupt that was pending.
LEMMA StatementInductive ==
    ASSUME Inv,
           \/ StatementDone \/ StatementFails \/ CommitDone
           \/ CommitFails
    PROVE  Inv'
<1>1. CASE StatementDone
  <2>1. TypeOK'
    <3>1. worker' = "between" /\ interrupted' = FALSE /\ tx' = "open"
          /\ UNCHANGED <<expired, cancelled, caller, supervisor, reply, lifetime,
                        started, aborted, watchdog, strong, outcome, slot>>
      BY <1>1 DEF StatementDone
    <3>2. worker' \in WorkerSteps /\ tx' \in {"none", "open", "committed", "undone"}
      BY <3>1 DEF WorkerSteps
    <3>3. (reply \in IF supervisor \in {"returned", "ended"} THEN Results
                                                           ELSE {"none"})'
      BY <3>1 DEF Inv, TypeOK
    <3>4. /\ (expired \in BOOLEAN /\ cancelled \in BOOLEAN /\ started \in BOOLEAN)'
          /\ (aborted \in BOOLEAN /\ slot \in BOOLEAN /\ interrupted \in BOOLEAN)'
      BY <3>1 DEF Inv, TypeOK
    <3> QED
      BY <3>1, <3>2, <3>3, <3>4 DEF Inv, TypeOK
  <2>2. (Gate /\ Fresh /\ Keepers)'
    BY <1>1 DEF StatementDone, Inv, Gate, Fresh, Keepers, Away
  <2>3. Transaction'
    BY <1>1 DEF StatementDone, Inv, Transaction
  <2>4. (Abandoned /\ Watched)'
    BY <1>1 DEF StatementDone, Inv, Abandoned, Watched, Away
  <2> QED
    BY <2>1, <2>2, <2>3, <2>4 DEF Inv
<1>2. CASE StatementFails
  <2>1. TypeOK'
    <3>1. worker' = "failing" /\ outcome' = "failed" /\ interrupted' = FALSE
          /\ tx' \in {tx, "open", "undone"}
          /\ UNCHANGED <<expired, cancelled, caller, supervisor, reply, lifetime,
                        started, aborted, watchdog, strong, slot>>
      BY <1>2 DEF StatementFails
    <3>2. worker' \in WorkerSteps /\ outcome' \in Results
      BY <3>1 DEF WorkerSteps, Results
    <3>3. (reply \in IF supervisor \in {"returned", "ended"} THEN Results
                                                           ELSE {"none"})'
      BY <3>1 DEF Inv, TypeOK
    <3>4. /\ caller' \in {"waiting", "gone", "answered"}
          /\ lifetime' \in {"held", "released"}
          /\ watchdog' \in {"waiting", "interrupting", "off"}
          /\ tx' \in {"none", "open", "committed", "undone"}
      BY <3>1 DEF Inv, TypeOK
    <3> QED
      BY <3>1, <3>2, <3>3, <3>4 DEF Inv, TypeOK
  <2>2. (Gate /\ Fresh /\ Keepers)'
    BY <1>2 DEF StatementFails, Inv, Gate, Fresh, Keepers, Away
  <2>3. Transaction'
    BY <1>2 DEF StatementFails, Inv, Transaction
  <2>4. (Abandoned /\ Watched)'
    BY <1>2 DEF StatementFails, Inv, Abandoned, Watched, Away
  <2> QED
    BY <2>1, <2>2, <2>3, <2>4 DEF Inv
<1>3. CASE CommitDone
  <2>1. TypeOK'
    BY <1>3 DEF CommitDone, Inv, TypeOK, Gate, WorkerSteps, Results
  <2>2. (Gate /\ Fresh /\ Keepers)'
    BY <1>3 DEF CommitDone, Inv, Gate, Fresh, Keepers, Away
  <2>3. Transaction'
    BY <1>3 DEF CommitDone, Transaction
  <2>4. (Abandoned /\ Watched)'
    BY <1>3 DEF CommitDone, Inv, Abandoned, Watched, Away
  <2> QED
    BY <2>1, <2>2, <2>3, <2>4 DEF Inv
<1>4. CASE CommitFails
  <2>1. TypeOK'
    <3>1. worker' = "failing" /\ outcome' = "unknown" /\ interrupted' = FALSE
          /\ tx' \in {"open", "committed", "undone"}
          /\ UNCHANGED <<expired, cancelled, caller, supervisor, reply, lifetime,
                        started, aborted, watchdog, strong, slot>>
      BY <1>4 DEF CommitFails, CommitErrorOutcome
    <3>2. worker' \in WorkerSteps /\ outcome' \in Results
      BY <3>1 DEF WorkerSteps, Results
    <3>3. (reply \in IF supervisor \in {"returned", "ended"} THEN Results
                                                           ELSE {"none"})'
      BY <3>1 DEF Inv, TypeOK
    <3>4. /\ caller' \in {"waiting", "gone", "answered"}
          /\ lifetime' \in {"held", "released"}
          /\ watchdog' \in {"waiting", "interrupting", "off"}
          /\ tx' \in {"none", "open", "committed", "undone"}
      BY <3>1 DEF Inv, TypeOK
    <3> QED
      BY <3>1, <3>2, <3>3, <3>4 DEF Inv, TypeOK
  <2>2. (Gate /\ Fresh /\ Keepers)'
    BY <1>4 DEF CommitFails, Inv, Gate, Fresh, Keepers, Away
  <2>3. Transaction'
    BY <1>4 DEF CommitFails, Transaction, CommitErrorOutcome
  <2>4. (Abandoned /\ Watched)'
    BY <1>4 DEF CommitFails, Inv, Abandoned, Watched, Away
  <2> QED
    BY <2>1, <2>2, <2>3, <2>4 DEF Inv
<1> QED
  BY <1>1, <1>2, <1>3, <1>4

\* The watchdog reaches the connection only while the slot has it.
LEMMA WatchdogInductive ==
    ASSUME Inv, WatchdogWakes \/ WatchdogInterrupts
    PROVE  Inv'
<1>1. CASE WatchdogWakes
  BY <1>1 DEF WatchdogWakes, Inv, TypeOK, Gate, Fresh, Keepers,
     Transaction, Abandoned, Watched, Away
<1>2. CASE WatchdogInterrupts
  BY <1>2 DEF WatchdogInterrupts, Inv, TypeOK, Gate, Fresh, Keepers,
     Transaction, Abandoned, Watched, Away, WatchdogLoops
<1> QED
  BY <1>1, <1>2

\* Every step of the four parties keeps the invariant.
LEMMA NextHolds == ASSUME Inv, [Next]_vars PROVE Inv'
<1>1. CASE UNCHANGED vars
  BY <1>1 DEF vars, Inv, TypeOK, Gate, Fresh, Keepers, Transaction,
     Abandoned, Watched, Away
<1>2. CASE Next
  BY <1>2, ControlInductive, SupervisorInductive, WorkerInductive,
     StatementInductive, WatchdogInductive
     DEF Next, SupervisorStep, WorkerStep, StatementStep
<1> QED
  BY <1>1, <1>2

\* The four parties of a request to the embedded database stay in step.
THEOREM Invariance == Spec => []Inv
<1> QED
  BY InitHolds, NextHolds, PTL DEF Spec

\* After the lifetime is released the request does nothing to the database, even
\* if the pool starts its worker only then.
THEOREM NoLateWork == Spec => []NoWorkAfterRelease
<1>1. Inv => NoWorkAfterRelease
  BY DEF Inv, Gate, Fresh, Transaction, Abandoned, Away,
     NoWorkAfterRelease
<1> QED
  BY <1>1, Invariance, PTL

\* When the registry gives up the claim on the file, nobody has it open any more.
THEOREM ClaimLasts == Spec => []ClaimOutlivesDatabase
<1>1. Inv => ClaimOutlivesDatabase
  BY DEF Inv, TypeOK, Gate, Keepers, Abandoned, Away,
     ClaimOutlivesDatabase
<1> QED
  BY <1>1, Invariance, PTL

\* run_request tells the truth about the transaction, whichever of deadline,
\* cancellation, interrupt and COMMIT came first.
THEOREM Replies == Spec => []ReplyIsTruthful
<1>1. Inv => ReplyIsTruthful
  BY DEF Inv, TypeOK, Fresh, Transaction, Abandoned, Away, ReplyIsTruthful
<1> QED
  BY <1>1, Invariance, PTL

\* The watchdog never interrupts the ROLLBACK of the cleanup.
THEOREM RollbackUndisturbed == Spec => []RollbackIsNotInterrupted
<1>1. Inv => RollbackIsNotInterrupted
  BY DEF Inv, Watched, RollbackIsNotInterrupted
<1> QED
  BY <1>1, Invariance, PTL

-----------------------------------------------------------------------------
(* The promise of execute_tracked. *)

\* A step of one of the four parties, as the caller and the registry see it.
Kept == [Promised!Next]_Promised!vars

\* What leaves transaction, reply and lifetime alone is not seen.
LEMMA Unseen == ASSUME UNCHANGED <<tx, reply, lifetime>> PROVE Kept
BY DEF Kept, Promised!vars, Effect

\* While the worker is connected nobody has been answered.
LEMMA ConnectedIsUnanswered ==
    ASSUME Inv, worker \in Connected
    PROVE  reply = "none"
BY DEF Inv, TypeOK, Abandoned, Away

\* The supervisor answers with what the worker has made of the transaction, or
\* for one that was never begun; then it drops the token.
LEMMA SupervisorKept ==
    ASSUME Inv, SupervisorStep \/ RegistryRetires
    PROVE  Kept
<1>1. CASE Prepared \/ StopWaiting \/ Join \/ RegistryRetires
  BY <1>1, Unseen DEF Prepared, StopWaiting, Join, RegistryRetires
<1>2. CASE Rejected \/ WorkerJoined \/ LeaveQueued
  <2>1. /\ reply = "none" /\ reply' \in Results /\ UNCHANGED <<tx, lifetime>>
        /\ reply' = "ok" => tx = "committed"
        /\ reply' \in {"failed", "cleanup_failed"} => tx # "committed"
    BY <1>2 DEF Rejected, WorkerJoined, LeaveQueued, Return, Finished, GateOpen, Inv, TypeOK,
       Gate, Fresh, Transaction, Results
  <2>2. Promised!Reply
    BY <2>1 DEF Promised!Reply, Effect, Results
  <2> QED
    BY <2>2 DEF Kept, Promised!Next
<1>3. CASE Release
  <2>1. Promised!Release
    BY <1>3 DEF Release, Promised!Release, Effect, Inv, TypeOK, Gate, Results
  <2> QED
    BY <2>1 DEF Kept, Promised!Next
<1> QED
  BY <1>1, <1>2, <1>3 DEF SupervisorStep

\* The transaction is decided by a connected worker, and only once.
LEMMA WorkerKept ==
    ASSUME Inv, WorkerEnters \/ WorkerStep \/ StatementStep
    PROVE  Kept
<1>1. CASE \/ WorkerEnters \/ WorkerMarks \/ WorkerChecks \/ WorkerConnects
           \/ WorkerProceeds \/ WorkerFails \/ StartCleanup \/ RollbackFails
  BY <1>1, Unseen DEF WorkerEnters, WorkerMarks, WorkerChecks, WorkerConnects,
     WorkerProceeds, WorkerFails, StartCleanup, RollbackFails
<1>2. CASE RollbackDone \/ WorkerEnds \/ StatementStep
  <2>1. reply = "none" /\ UNCHANGED <<reply, lifetime>>
    BY <1>2, ConnectedIsUnanswered DEF RollbackDone, WorkerEnds, StatementStep,
       StatementDone, StatementFails, CommitDone, CommitFails
  <2>2. \/ Effect' = Effect
        \/ Effect = "pending" /\ Effect' \in {"committed", "undone"}
    BY <1>2 DEF RollbackDone, WorkerEnds, StatementStep, StatementDone, StatementFails,
       CommitDone, CommitFails, Effect, Inv, Transaction
  <2>3. CASE Effect' = Effect
    BY <2>1, <2>3 DEF Kept, Promised!vars
  <2>4. CASE Effect = "pending" /\ Effect' \in {"committed", "undone"}
    BY <2>1, <2>4 DEF Kept, Promised!Next, Promised!Commit, Promised!Undo, Promised!AtWork
  <2> QED
    BY <2>2, <2>3, <2>4
<1> QED
  BY <1>1, <1>2 DEF WorkerStep

\* The embedded driver keeps the promise of execute_tracked: the transaction is decided
\* once and before the reply, the reply says how, and the lifetime is released last.
THEOREM Implementation == Spec => ImplementsExecution
<1>1. Init => Promised!Init
  BY DEF Init, Promised!Init, Effect
<1>2. Inv /\ [Next]_vars => Kept
  <2>1. ASSUME Inv, Expire \/ Disconnect \/ WatchdogWakes \/ WatchdogInterrupts
        PROVE  Kept
    BY <2>1, Unseen DEF Expire, Disconnect, WatchdogWakes, WatchdogInterrupts
  <2>2. ASSUME Inv, UNCHANGED vars
        PROVE  Kept
    BY <2>2, Unseen DEF vars
  <2> QED
    BY <2>1, <2>2, SupervisorKept, WorkerKept DEF Next
<1> QED
  BY <1>1, <1>2, Invariance, PTL DEF Spec, ImplementsExecution, Promised!Spec, Kept
=============================================================================
