-------------------------- MODULE DatabaseService --------------------------
(***************************************************************************)
(* A database of the registry, with its records, files, tasks and crashes, *)
(* implements the service that Service describes.                          *)
(***************************************************************************)
EXTENDS DatabaseInvariant

ASSUME NoneIsNoOffer == None \notin [view: Snapshot, limits: Limits]

\* What Registry::admit hands out: nothing unless the phase is ready.
Offered ==
    IF phase = "ready" THEN [view |-> snapshot, limits |-> config.limits] ELSE None

\* The committed versions are the store, the open resources the open target,
\* and the requests in flight the readers.
Promised == INSTANCE Service WITH
    Embedded <- Turso,
    store <- history,
    partial <- unfinished,
    open <- resources,
    offer <- Offered,
    readers <- inflight

\* Every step of the registry, of an operation's task, of a request, of a crash
\* or of a restart is a step of the service or invisible to it.
ImplementsService == Promised!Spec
=============================================================================
