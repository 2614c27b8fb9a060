----------------------------- MODULE Execution -----------------------------
(***************************************************************************)
(* What Executor::execute_tracked promises for one request, whichever      *)
(* driver runs it: its transaction is decided once, the reply tells how as *)
(* far as it is known, and the lifetime is released after the reply.       *)
(***************************************************************************)
CONSTANT Late   \* whether a server may still work for a request that was answered

VARIABLES
    effect,     \* of the transaction: "pending", "committed" or "undone"
    reply,      \* "none" until the driver returns
    lifetime    \* "held" or "released"

vars == <<effect, reply, lifetime>>

Init ==
    /\ effect = "pending"
    /\ reply = "none"
    /\ lifetime = "held"

AtWork == effect = "pending" /\ (reply = "none" \/ Late)

\* After a reply a COMMIT takes effect only if the caller was warned of it.
Commit ==
    /\ AtWork
    /\ reply \in {"none", "unknown"}
    /\ effect' = "committed"
    /\ UNCHANGED <<reply, lifetime>>

Undo ==
    /\ AtWork
    /\ effect' = "undone"
    /\ UNCHANGED <<reply, lifetime>>

Reply ==
    /\ reply = "none"
    /\ \/ reply' = "ok" /\ effect = "committed"
       \/ reply' \in {"failed", "cleanup_failed"} /\ effect # "committed"
       \/ reply' = "unknown"
    /\ UNCHANGED <<effect, lifetime>>

Release ==
    /\ reply # "none"
    /\ lifetime = "held"
    /\ lifetime' = "released"
    /\ UNCHANGED <<effect, reply>>

Next == Commit \/ Undo \/ Reply \/ Release

Spec == Init /\ [][Next]_vars
=============================================================================
