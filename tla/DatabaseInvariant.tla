-------------------------- MODULE DatabaseInvariant --------------------------
(***************************************************************************)
(* The inductive invariant behind the safety properties of Database: what  *)
(* holds of the state at each step of the management task.                 *)
(* DatabaseProofs proves it for every instance.                            *)
(***************************************************************************)
EXTENDS Database

\* Steps of a publication, from the first to the last that can fail.
PublishSteps == Opening \cup
                {"accepted", "connected", "drain", "syncData", "rename", "sync",
                 "persisted", "preflight", "planned", "recheck", "apply",
                 "applying", "committed", "load"}
UnregisterSteps == {"drain", "remove", "removeSync", "removed"}
Migrating == {"recheck", "apply", "applying", "committed"}
\* Inside a persist call.
Persisting == {"rename", "sync", "persisted"}

\* The persist call for a place of run_publish is ahead or under way.
Closing(where) ==
    current = "publish" /\ site = where /\ pc \in {"drain", "syncData"} \cup Persisting

\* The management slot is taken exactly while the task runs, the task is at a
\* step of its kind, and its request can be resolved.
Slot ==
    /\ current = None <=> pc = "idle"
    /\ current = "publish" => pc \in PublishSteps \cup {"succeeded", "failed"}
    /\ current = "unregister" => pc \in UnregisterSteps \cup {"succeeded", "failed"}
    /\ current = "publish" => request # None
    /\ current = "publish" /\ request.database = None => record # None
    /\ current # "publish" => served = None /\ site = None
    /\ current = "publish" /\ pc # "failed" => ~invalidRecord

\* A process that does not run has nothing in memory, and neither has an
\* entry that is not listed.
Unlisted ==
    /\ registry = "down" => ~listed
    /\ ~listed => /\ current = None
                  /\ InFlight = {}
                  /\ record = None
                  /\ resources = None
                  /\ phase # "ready"
                  /\ ~invalidRecord
    /\ registry = "open" /\ ~listed => toml = None
    /\ registry = "closed" => current = None /\ InFlight = {} /\ resources = None

\* restore runs before any call: it has read the record and opened nothing yet.
Restored ==
    registry \in Restoring =>
        /\ current = None
        /\ InFlight = {}
        /\ record # None /\ toml = record
        /\ ~invalidRecord
        /\ resources = None
        /\ phase # "ready"

\* The configuration is that of the record, and the open database its target.
Resolved ==
    /\ record = None <=> config = None
    /\ record # None => config = [target |-> record.target, limits |-> record.limits]
    /\ resources # None => record # None /\ resources = record.target

\* active counts the requests in flight.
Counted == active = Cardinality(InFlight)

\* What the task has established when it reaches a step.
Sited ==
    /\ pc \in Persisting \cup {"syncData"} \/ (pc = "drain" /\ current = "publish")
          => site # None /\ (site \in {"adopt", "block"} => previous # None)
    /\ pc = "syncData" => site = "adopt" /\ CandidateTarget = Turso
    /\ pc = "drain" /\ current = "publish" => site \in {"adopt", "block"}
    /\ pc \in Migrating => site = "block"
    /\ pc \in Opening \cup {"connected"} /\ ~adopting => SameTarget
    /\ pc \in Opening => ~ReusesResources
    /\ pc \in {"claimed", "opened"} => CandidateTarget = Turso
    /\ pc \in {"preflight", "planned", "load"} \cup Migrating
          => record # None /\ resources = CandidateTarget
    /\ pc \in Persisting \cup {"drain"} /\ current = "publish" /\ site # "adopt"
          => record # None /\ resources = CandidateTarget
    /\ pc \in Persisting /\ site = "final" =>
          fresh = [target |-> CandidateTarget, schema |-> history[CandidateTarget]]

\* From the moment the requests are drained to the end of the change, the
\* database is closed and nothing is in flight.
Drained ==
    /\ pc \in {"drain", "syncData"} \/ (pc \in Persisting /\ site # "final")
          => phase # "ready"
    /\ pc \in {"remove", "removeSync", "removed"} => phase # "ready"
    /\ pc \in Migrating => phase # "ready"
    /\ pc \in {"syncData", "remove", "removeSync", "removed"} \cup Migrating
          => InFlight = {}
    /\ pc \in Persisting /\ site # "final" => InFlight = {}

\* What a served database needs: everything installed, the snapshot loaded for
\* the schema that is there, and no batch of migrations half applied.
Servable ==
    /\ record # None /\ resources # None /\ snapshot # None
    /\ record.recovery = "none"
    /\ snapshot.target = record.target
    /\ snapshot.schema = history[record.target]
    /\ record.target \notin unfinished
    /\ ~invalidRecord

\* It holds while the phase is "ready", and while restore_admission may still
\* bring that phase back.
Served ==
    /\ phase = "ready" => Servable
    /\ phase = "ready" /\ pc \notin {"sync", "persisted"} => toml = record
    /\ current = "publish" /\ pc \in {"drain", "syncData", "rename"}
          /\ site \in {"adopt", "block"} /\ previous = "ready"
          => Servable /\ toml = record

\* The file on the disk at each step of persist and remove.
OnDisk ==
    /\ toml \in onCrash
    /\ listed /\ ~invalidRecord /\ pc \notin {"sync", "persisted"} =>
          toml \in {record, None}
    /\ pc \in {"sync", "persisted"} => toml = Writing
    /\ pc \in {"removeSync", "removed"} => toml = None
    /\ pc \in {"persisted", "removed", "succeeded"} => onCrash = {toml}
    /\ pc = "succeeded" => toml = record
    /\ current = "publish" /\ pc = "succeeded" => phase = "ready"
    /\ current = "unregister" => phase = "unregistering"
    /\ pc \in Migrating => onCrash = {record} /\ record.recovery = "migration"
    /\ \A c \in onCrash : c # None /\ c.recovery = "none" => c.target \notin unfinished

\* data.db is durable before a record names it, unless it was lost.
DataSafe ==
    /\ DataBeforeRecord
    /\ record # None /\ record.target = Turso => dataFile = "durable" \/ dataLost
    /\ Closing("adopt") /\ pc \in Persisting /\ CandidateTarget = Turso
          => dataFile = "durable" \/ dataLost

\* A file that went away is not the claimed one any more, and one that was
\* created in its place, though registered, is in nobody's hands.
Refused ==
    /\ claimed => dataFile # "absent"
    /\ replaced => /\ resources # Turso
                   /\ registry = "opened" \/ pc \in {"opened", "failed"}
                   /\ ~claimed

\* The migrations planned, applied and left, at each step.
Planned ==
    /\ (pc \in {"planned", "recheck", "apply"} \/ Closing("block")) /\ pending = {}
          => CandidateTarget \notin unfinished
    /\ pc = "committed" /\ pending = {progress.now} => CandidateTarget \notin unfinished
    /\ pc = "load" \/ (pc \in Persisting /\ site \in {"unblock", "final"})
          => CandidateTarget \notin unfinished
    /\ pc \in {"applying", "committed"} =>
          progress.now \in pending /\ \A w \in pending : progress.now <= w
    /\ pc \in {"planned", "recheck", "apply", "applying"} \/ Closing("block") =>
          \A v \in pending, w \in history[CandidateTarget] : v > w
    /\ pc = "committed" =>
          \A v \in pending \ {progress.now}, w \in history[CandidateTarget] : v > w

\* How far the history has got.
Accounted ==
    /\ current = "publish"
          /\ pc \in Opening \cup {"accepted", "connected", "preflight", "planned"}
          => progress = NoProgress
    /\ current = "publish" /\ site = "adopt" => progress = NoProgress
    /\ current = "publish" /\ site = None => progress = NoProgress
    /\ pc = "planned" \/ Closing("block") \/ pc = "recheck" =>
          history[CandidateTarget] = expected /\ progress.applied = {}
    /\ pc \in {"apply", "applying"} =>
          history[CandidateTarget] = expected \cup progress.applied
    /\ pc = "committed" =>
          history[CandidateTarget] = expected \cup progress.applied \cup {progress.now}

\* What a publication found served is still there, or the record has been
\* replaced by one with a recovery marker, or the outcome is uncertain.
Kept ==
    served # None =>
        /\ served.record.recovery = "none"
        /\ \/ pc \in {"sync", "persisted", "succeeded"}
           \/ invalidRecord
           \/ toml # None /\ toml.recovery # "none"
           \/ /\ record = served.record
              /\ snapshot = served.snapshot
              /\ \/ phase = "ready"
                 \/ /\ pc \in {"drain", "syncData", "rename"}
                    /\ site \in {"adopt", "block"}
                    /\ phase = "publishing"
                    /\ previous = "ready"

\* What holds of the state, the task, the disk and the requests.
Core ==
    /\ TypeOK /\ Slot /\ Unlisted /\ Resolved /\ Counted /\ Sited /\ Drained
    /\ Served /\ OnDisk /\ DataSafe /\ Planned /\ Accounted /\ Kept
    /\ ProgressIsTruthful /\ SchemaIsStableForRequests

\* All of it together holds between any two critical sections or file-system
\* calls of registry.rs: each action preserves it by itself, whatever the others
\* have done before.
Inv == Core /\ Restored /\ Refused
=============================================================================
