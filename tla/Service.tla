------------------------------- MODULE Service -------------------------------
(***************************************************************************)
(* What one registered database promises to those who use it, without a    *)
(* word about phases, records, files or tasks (docs/registry.md): requests *)
(* are admitted to one target and one schema; targets and schemas change   *)
(* only while nobody is inside; a half applied batch is never offered.     *)
(* Database implements this specification.                                 *)
(***************************************************************************)
EXTENDS Integers

CONSTANTS
    Targets,    \* databases that may stand behind the service
    Embedded,   \* the one of them that is a file and can be lost
    Limits, Versions, Requests,
    None

VARIABLES
    store,    \* the versions committed in each target
    partial,  \* targets whose last batch of migrations was not completed
    open,     \* the target that is open, if any
    offer,    \* what a new request would be admitted to, if any
    readers   \* what each request was admitted to

vars == <<store, partial, open, offer, readers>>

View == [target: Targets, schema: SUBSET Versions]
Current(t) == [target |-> t, schema |-> store[t]]
NoReaders == readers = [r \in Requests |-> None]
Quiet == offer = None /\ NoReaders

Init ==
    /\ store \in [Targets -> SUBSET Versions]
    /\ partial = {}
    /\ open = None
    /\ offer = None
    /\ readers = [r \in Requests |-> None]

\* A data request gets what is offered.
Admit(r) ==
    /\ offer # None
    /\ readers[r] = None
    /\ readers' = [readers EXCEPT ![r] = offer.view]
    /\ UNCHANGED <<store, partial, open, offer>>

\* An export of the migrations reads the open target, offered or not.
Inspect(r) ==
    /\ open # None
    /\ readers[r] = None
    /\ readers' = [readers EXCEPT ![r] = Current(open)]
    /\ UNCHANGED <<store, partial, open, offer>>

Leave(r) ==
    /\ readers[r] # None
    /\ readers' = [readers EXCEPT ![r] = None]
    /\ UNCHANGED <<store, partial, open, offer>>

\* The open target is offered as it is now; requests that are inside stay.
Offer(limits) ==
    /\ open # None
    /\ open \notin partial
    /\ offer' = [view |-> Current(open), limits |-> limits]
    /\ UNCHANGED <<store, partial, open, readers>>

Withdraw ==
    /\ offer' = None
    /\ UNCHANGED <<store, partial, open, readers>>

\* Another target is opened, or the open one closed: only when nobody is
\* inside and nobody can get in.
Switch(t) ==
    /\ Quiet
    /\ open' = t
    /\ UNCHANGED <<store, partial, offer, readers>>

\* One migration is committed in the open target, on top of all before it.
Write(v) ==
    /\ Quiet
    /\ open # None
    /\ \A w \in store[open] : v > w
    /\ store' = [store EXCEPT ![open] = @ \cup {v}]
    /\ partial' \in {partial \cup {open}, partial \ {open}}
    /\ UNCHANGED <<open, offer, readers>>

\* There is nothing left to apply to the open target.
Settle ==
    /\ open # None
    /\ partial' = partial \ {open}
    /\ UNCHANGED <<store, open, offer, readers>>

\* The service ends: after a shutdown, or with its process.
Stop ==
    /\ open' = None
    /\ offer' = None
    /\ readers' = [r \in Requests |-> None]
    /\ UNCHANGED <<store, partial>>

\* The file of the embedded database was lost, and a new, empty one takes its
\* place; it is not the database anybody has open.
Lose ==
    /\ open # Embedded
    /\ store' = [store EXCEPT ![Embedded] = {}]
    /\ partial' = partial \ {Embedded}
    /\ UNCHANGED <<open, offer, readers>>

\* The service starts again with the target it was registered with.
Start(t, limits) ==
    /\ open = None
    /\ Quiet
    /\ t \notin partial
    /\ open' = t
    /\ offer' = [view |-> Current(t), limits |-> limits]
    /\ UNCHANGED <<store, partial, readers>>

Next ==
    \/ \E r \in Requests : Admit(r) \/ Inspect(r) \/ Leave(r)
    \/ \E l \in Limits : Offer(l)
    \/ Withdraw
    \/ \E t \in Targets \cup {None} : Switch(t)
    \/ \E v \in Versions : Write(v)
    \/ Settle \/ Stop \/ Lose
    \/ \E t \in Targets, l \in Limits : Start(t, l)

Spec == Init /\ [][Next]_vars

\* What the promise amounts to: whoever is inside sees the schema of the open
\* target as it is, and so would whoever is let in.
EveryoneSeesTheSchema ==
    /\ \A r \in Requests : readers[r] # None => open # None /\ readers[r] = Current(open)
    /\ offer # None => /\ open # None
                       /\ offer.view = Current(open)
                       /\ open \notin partial
=============================================================================
