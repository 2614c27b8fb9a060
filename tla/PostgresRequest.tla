--------------------------- MODULE PostgresRequest ---------------------------
(***************************************************************************)
(* One request to PostgreSQL: run_request, execute_transaction and cleanup *)
(* of src/postgres_driver.rs under the Control of src/execution.rs, and    *)
(* the server session they talk to.                                        *)
(*                                                                         *)
(* The client gives up waiting at its deadline, but what it has sent stays *)
(* in the session and is processed in order, now or later.  The session    *)
(* and the network belong to the environment: they may be slow for ever,   *)
(* and the connection may break and lose what was not yet received.        *)
(***************************************************************************)
EXTENDS Naturals, Sequences

VARIABLES
    expired, cancelled,  \* Control
    caller,      \* "waiting", "gone" or "answered"
    client,      \* step of the request's task
    attempted,   \* COMMIT was sent
    reply,       \* the result it returns
    lifetime,    \* RequestLifetime: "held" or "released"
    link,        \* the connection: "none", "up" or "down"
    inbox,       \* what the server has not yet answered
    ack,         \* its answer to the client's last message
    cancelSent,  \* a cancel request is on its way
    tx,          \* "none", "open", "broken", "committed" or "undone"
    confirmed    \* history: the client has seen ROLLBACK succeed

control == <<expired, cancelled>>
server == <<link, inbox, ack, cancelSent, tx>>
vars == <<control, caller, client, attempted, reply, lifetime, server, confirmed>>

Messages == {"begin", "statement", "COMMIT", "ROLLBACK"}
ClientSteps == {"connecting", "working", "commit", "cleanup", "returned", "ended"}

Stopped == cancelled \/ expired

-----------------------------------------------------------------------------
(* The server session. *)

\* The answer reaches the client if it is the one it waits for.
Answer(result) ==
    /\ inbox' = Tail(inbox)
    /\ ack' = IF Len(inbox) = 1 /\ link = "up" THEN result ELSE ack

\* COMMIT of a broken transaction undoes it, and succeeds.
Succeed ==
    /\ inbox # <<>>
    /\ Head(inbox) = "statement" => tx = "open"
    /\ tx' = CASE Head(inbox) = "begin" -> "open"
               [] Head(inbox) = "COMMIT" /\ tx = "open" -> "committed"
               [] Head(inbox) = "COMMIT" /\ tx = "broken" -> "undone"
               [] Head(inbox) = "ROLLBACK" /\ tx \in {"open", "broken"} -> "undone"
               [] OTHER -> tx
    /\ Answer("ok")
    /\ UNCHANGED <<control, caller, client, attempted, reply, lifetime, link,
                   cancelSent, confirmed>>

\* A message that fails, or is hit by a cancel request, breaks an open
\* transaction; a failing COMMIT ends it.
Break(result) ==
    /\ inbox # <<>>
    /\ tx' = CASE Head(inbox) = "COMMIT" -> IF tx \in {"open", "broken"} THEN "undone" ELSE tx
               [] OTHER -> IF tx = "open" THEN "broken" ELSE tx
    /\ Answer(result)
    /\ UNCHANGED <<control, caller, client, attempted, reply, lifetime, link,
                   confirmed>>

Fail == Break("error") /\ UNCHANGED cancelSent
CancelHits == cancelSent /\ Break("cancelled") /\ cancelSent' = FALSE
CancelMisses ==
    /\ cancelSent
    /\ cancelSent' = FALSE
    /\ UNCHANGED <<control, caller, client, attempted, reply, lifetime, link, inbox,
                   ack, tx, confirmed>>

\* The network breaks: a tail of what was sent is not received.
LinkBreaks ==
    /\ link = "up"
    /\ link' = "down"
    /\ \E n \in 0..Len(inbox) : inbox' = SubSeq(inbox, 1, n)
    /\ UNCHANGED <<control, caller, client, attempted, reply, lifetime, ack,
                   cancelSent, tx, confirmed>>

\* The server has read to the end of a closed connection.
SessionEnds ==
    /\ link = "down"
    /\ inbox = <<>>
    /\ tx \in {"open", "broken"}
    /\ tx' = "undone"
    /\ UNCHANGED <<control, caller, client, attempted, reply, lifetime, link, inbox,
                   ack, cancelSent, confirmed>>

-----------------------------------------------------------------------------
(* The task of the request. *)

Expire ==
    /\ ~expired
    /\ expired' = TRUE
    /\ UNCHANGED <<cancelled, caller, client, attempted, reply, lifetime, server,
                   confirmed>>

Disconnect ==
    /\ caller = "waiting"
    /\ caller' = "gone"
    /\ cancelled' = TRUE
    /\ UNCHANGED <<expired, client, attempted, reply, lifetime, server, confirmed>>

\* The client sends a message and waits for its answer.
Send(message) ==
    /\ inbox' = IF link = "up" THEN Append(inbox, message) ELSE inbox
    /\ ack' = "none"

\* config.connect, then BEGIN.
Connect ==
    /\ client = "connecting"
    /\ ~Stopped
    /\ link' = "up"
    /\ inbox' = <<"begin">>
    /\ ack' = "none"
    /\ client' = "working"
    /\ UNCHANGED <<control, caller, attempted, reply, lifetime, cancelSent, tx,
                   confirmed>>

\* run_request returns: the client and its connection task are dropped. What
\* the task had not yet written is lost.
Return(result) ==
    /\ client' = "returned"
    /\ reply' = result
    /\ link' = IF link = "up" THEN "down" ELSE link
    /\ \E n \in 0..Len(inbox) : inbox' = SubSeq(inbox, 1, n)
    /\ UNCHANGED <<ack, cancelSent, tx>>

ConnectFails ==
    /\ client = "connecting"
    /\ Return("failed")
    /\ UNCHANGED <<control, caller, attempted, lifetime, confirmed>>

\* Another statement: the request's own, or the set_config of its deadline.
NextStatement ==
    /\ client = "working"
    /\ ~Stopped
    /\ ack = "ok"
    /\ Send("statement")
    /\ UNCHANGED <<control, caller, client, attempted, reply, lifetime, link,
                   cancelSent, tx, confirmed>>

\* Everything is done and the deadline set: COMMIT is sent in the poll that
\* marks it as attempted.
Commit ==
    /\ client = "working"
    /\ ~Stopped
    /\ ack = "ok"
    /\ attempted' = TRUE
    /\ Send("COMMIT")
    /\ client' = "commit"
    /\ UNCHANGED <<control, caller, reply, lifetime, link, cancelSent, tx, confirmed>>

CommitDone ==
    /\ client = "commit"
    /\ ~Stopped
    /\ ack = "ok"
    /\ Return("ok")
    /\ UNCHANGED <<control, caller, attempted, lifetime, confirmed>>

\* The wait ends with an error: the deadline, a cancellation, an SQL error, a
\* contract, a limit, a broken connection. ROLLBACK is sent behind whatever is
\* still in the session.
StartCleanup ==
    /\ client \in {"working", "commit"}
    /\ \/ Stopped
       \/ ack \in {"error", "cancelled"}
       \/ link = "down"
       \/ client = "working" /\ ack = "ok"
    /\ client' = "cleanup"
    /\ Send("ROLLBACK")
    /\ UNCHANGED <<control, caller, attempted, reply, lifetime, link, cancelSent,
                   tx, confirmed>>

\* Every 25 ms.
SendCancel ==
    /\ client = "cleanup"
    /\ ~cancelSent
    /\ cancelSent' = TRUE
    /\ UNCHANGED <<control, caller, client, attempted, reply, lifetime, link, inbox,
                   ack, tx, confirmed>>

\* Defect: a cancelled ROLLBACK counts as done.
AnyRollbackAnswer == ack \in {"ok", "cancelled"}
RollbackDone == ack = "ok"

\* Defect: COMMIT was attempted, yet the error is reported as definite.
ErrorAfterCleanupDefinite == "failed"
\* The error the caller sees when ROLLBACK succeeded.
ErrorAfterCleanup == IF attempted THEN "unknown" ELSE "failed"

CleanedUp ==
    /\ client = "cleanup"
    /\ RollbackDone
    /\ confirmed' = TRUE
    /\ Return(ErrorAfterCleanup)
    /\ UNCHANGED <<control, caller, attempted, lifetime>>

WasCancelled == ack = "cancelled"

\* A cancel request hit the ROLLBACK: only that is tried again.
RetryRollback ==
    /\ client = "cleanup"
    /\ WasCancelled
    /\ Send("ROLLBACK")
    /\ UNCHANGED <<control, caller, client, attempted, reply, lifetime, link,
                   cancelSent, tx, confirmed>>

\* Defect: the cleanup has no deadline of its own.
OnlyWhenDown == link = "down" \/ ack = "error"
\* The connection is broken, ROLLBACK failed, or the five seconds are over.
GivesUp == TRUE

\* An attempted COMMIT stays unknown. Without one the error of the cleanup is
\* returned, or ignored when control stopped the request just before COMMIT.
CleanupFails ==
    /\ client = "cleanup"
    /\ GivesUp
    /\ \/ attempted /\ Return("unknown")
       \/ ~attempted /\ (Return("cleanup_failed") \/ (Stopped /\ Return("failed")))
    /\ UNCHANGED <<control, caller, attempted, lifetime, confirmed>>

\* The lifetime token is dropped, and the caller gets the reply.
Release ==
    /\ client = "returned"
    /\ client' = "ended"
    /\ lifetime' = "released"
    /\ IF caller = "waiting" THEN caller' = "answered" /\ cancelled' = TRUE
                             ELSE UNCHANGED <<caller, cancelled>>
    /\ UNCHANGED <<expired, attempted, reply, server, confirmed>>

-----------------------------------------------------------------------------

Init ==
    /\ expired = FALSE
    /\ cancelled = FALSE
    /\ caller = "waiting"
    /\ client = "connecting"
    /\ attempted = FALSE
    /\ reply = "none"
    /\ lifetime = "held"
    /\ link = "none"
    /\ inbox = <<>>
    /\ ack = "none"
    /\ cancelSent = FALSE
    /\ tx = "none"
    /\ confirmed = FALSE

ClientStep ==
    \/ Connect \/ ConnectFails \/ NextStatement \/ Commit \/ CommitDone
    \/ StartCleanup \/ CleanedUp \/ RetryRollback \/ Release

ServerStep ==
    Succeed \/ Fail \/ CancelHits \/ CancelMisses \/ LinkBreaks \/ SessionEnds

Next ==
    \/ Expire \/ Disconnect \/ ClientStep \/ CleanupFails \/ SendCancel
    \/ ServerStep

Spec == Init /\ [][Next]_vars

\* The task is polled and its five seconds end; the server owes nothing.
FairSpec ==
    /\ Spec
    /\ WF_vars(ClientStep)
    /\ WF_vars(CleanupFails)

-----------------------------------------------------------------------------
(* The promise of execute_tracked. *)

\* What has become of the transaction.
Effect == IF tx \in {"committed", "undone"} THEN tx ELSE "pending"

Promised == INSTANCE Execution WITH effect <- Effect, Late <- TRUE

\* Every step of the task, the session and the network is a step of the promise
\* of execute_tracked or invisible to it. What the session still does after
\* run_request has returned is no surprise to who reads the reply.
ImplementsExecution == Promised!Spec

-----------------------------------------------------------------------------
(* Properties. *)

\* The type invariant; at most a statement and the ROLLBACK behind it are
\* waiting in the session.
TypeOK ==
    /\ expired \in BOOLEAN /\ cancelled \in BOOLEAN
    /\ caller \in {"waiting", "gone", "answered"}
    /\ client \in ClientSteps
    /\ attempted \in BOOLEAN
    /\ reply \in {"none", "ok", "failed", "unknown", "cleanup_failed"}
    /\ lifetime \in {"held", "released"}
    /\ link \in {"none", "up", "down"}
    /\ inbox \in Seq(Messages) /\ Len(inbox) <= 2
    /\ ack \in {"none", "ok", "error", "cancelled"}
    /\ cancelSent \in BOOLEAN
    /\ tx \in {"none", "open", "broken", "committed", "undone"}
    /\ confirmed \in BOOLEAN

Sent(message) == \E i \in 1..Len(inbox) : inbox[i] = message

\* A reply tells the truth about the transaction, and keeps telling it: "ok"
\* means committed; a definite error, or a failed cleanup, means that no COMMIT
\* has taken effect and none is waiting to (execute_transaction).
ReplyIsTruthful ==
    /\ reply = "ok" => tx = "committed"
    /\ reply \in {"failed", "cleanup_failed"} => tx # "committed" /\ ~Sent("COMMIT")

\* A confirmed cleanup is the end of the request on the server too: nothing of
\* it is left in the session, although earlier statements were abandoned and
\* cancel requests sent at the ROLLBACK.
ConfirmedCleanupIsFinal ==
    confirmed => inbox = <<>> /\ tx \in {"none", "undone", "committed"}

\* A request that is cancelled or out of time releases its lifetime, even if
\* the server never answers again.
StoppedRequestsEnd == Stopped ~> lifetime = "released"

\* "old requests hold their original snapshot/limits until actual execution
\* and cleanup finish": once the lifetime is released, the server executes
\* nothing of the request.
ReleasedIsFinished == lifetime = "released" => inbox = <<>>
=============================================================================
