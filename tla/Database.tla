------------------------------ MODULE Database ------------------------------
(***************************************************************************)
(* One registered database of the registry: the durable database.toml and  *)
(* data.db of its directory, the in-memory State behind its mutex, the one *)
(* management task that may own it, the requests admitted to it, and the   *)
(* life of the process around them.  Translated from src/registry.rs and   *)
(* src/workspace.rs.                                                       *)
(*                                                                         *)
(* Every critical section of State.mutex and every file-system call whose  *)
(* effect survives a crash is one action; the operating system may kill    *)
(* the process, or the machine lose power, between any two of them.        *)
(***************************************************************************)
EXTENDS Integers, FiniteSets

CONSTANTS
    Turso,        \* the embedded database, stored in the directory's data.db
    Connections,  \* PostgreSQL connection strings
    Limits,       \* request limits a publication may ask for
    Versions,     \* numbers of the migration files
    Requests,     \* request slots: bounds the requests in flight
    None          \* Option::None

Targets == Connections \cup {Turso}

\* Recovery marker of database.toml.
Recoveries == {"none", "migration", "reload"}
Record == [target: Targets, recovery: Recoveries, limits: Limits]
Config == [target: Targets, limits: Limits]

\* The publish body: no database means "keep the registered one".
PublishRequest == [database: Targets \cup {None}, limits: Limits]

\* A loaded interface tree. What matters of it is the schema it was loaded
\* for: the migrations committed in its target at that moment.
Snapshot == [target: Targets, schema: SUBSET Versions]

Phases == {"recovery_required", "publishing", "ready", "unregistering",
           "unregistered"}
\* The four places where run_publish persists a record.
Sites == {"adopt", "block", "unblock", "final"}

ASSUME TursoIsNoConnection == Turso \notin Connections
ASSUME VersionsArePositive == Versions \subseteq Nat \ {0}
ASSUME RequestsAreFinite == IsFiniteSet(Requests)
ASSUME NoneIsNothing ==
    /\ None \notin Targets \cup Versions
    /\ None \notin Record \cup Config \cup PublishRequest \cup Snapshot
    /\ None \notin [record: Record, snapshot: Snapshot]
    /\ None \notin Phases \cup Sites \cup {"publish", "unregister"}

VARIABLES
    \* The disk and the databases: they survive the process.
    toml,           \* database.toml as the running system sees it
    onCrash,        \* the contents a power loss may leave in its place
    dataFile,       \* data.db: "absent", "volatile" (not synced) or "durable"
    history,        \* versions committed in each target; for the embedded one,
                    \* in the last data.db there was, gone or not
    \* The process.
    registry,       \* "down", restoring, "open", "closing" or "closed"
    listed,         \* whether Registry.entries holds the name
    \* State, behind its mutex.
    phase, record, config, invalidRecord, resources, snapshot, active, current,
    progress,       \* versions applied, being applied and failed
    \* Locals of the management task.
    pc, request,
    adopting,       \* !same_target || old_record.is_none()
    claimed,        \* data.db is still the file that open_resources claimed
    previous,       \* previous_phase of close_admission
    site,           \* which of the four persist calls is under way
    pending, expected,
    fresh,          \* the snapshot loaded for this publication
    \* Requests in flight: what each one was admitted to.
    inflight,
    \* History variables.
    unfinished,     \* targets whose last migration batch was not completed
    served,         \* what was served when the publication was accepted
    dataLost,       \* data.db was removed behind the program's back
    replaced        \* the opening under way created a data.db that is registered

\* What the steps leave alone is listed by these groups.
disk == <<toml, onCrash, dataFile, history>>
outside == <<registry, listed, active, inflight, current>>
installed == <<record, config, resources, snapshot>>
service == <<phase, invalidRecord, installed>>
order == <<request, adopting, claimed>>
plans == <<pending, expected, fresh>>
task == <<order, previous, site, plans>>
ghosts == <<unfinished, served, dataLost, replaced>>
vars == <<disk, outside, service, progress, pc, task, ghosts>>

\* Where open_resources can be, in a publication.
Opening == {"opening", "claimed", "opened"}
Steps == Opening \cup
         {"idle", "accepted", "connected", "drain", "syncData", "rename", "sync",
          "persisted", "preflight", "planned", "recheck", "apply", "applying",
          "committed", "load", "remove", "removeSync", "removed", "succeeded",
          "failed"}
\* Where restore can be once the record is read.
Restoring == {"restoring", "claimed", "opened"}

NoProgress == [applied |-> {}, now |-> None, failed |-> None]

InFlight == {r \in Requests : inflight[r] # None}

-----------------------------------------------------------------------------
(* Values the publication computes from its request and the state. An       *)
(* operator whose comment says "defect" is not part of the specification:   *)
(* it is a faulty variant of the definition below it, which the properties  *)
(* must tell apart from it.                                                 *)

\* The database of the request, or else the registered one.
CandidateTarget == IF request.database = None THEN record.target
                                              ELSE request.database
Candidate(recovery) == [target |-> CandidateTarget, recovery |-> recovery,
                        limits |-> request.limits]
CandidateConfig == [target |-> CandidateTarget, limits |-> request.limits]

SameTarget == config # None /\ config.target = CandidateTarget
ReusesResources == SameTarget /\ resources # None
\* A registered data.db is required, never created.
MustExist == record # None /\ record.target = Turso /\ CandidateTarget = Turso

\* Defect: the blocker is written as a plain reload marker.
WritingWeakBlocker ==
    CASE site \in {"block", "unblock"} -> [record EXCEPT !.recovery = "reload"]
      [] site = "adopt" -> Candidate("reload")
      [] site = "final" -> Candidate("none")
\* The record that the persist call under way writes. The blocker and its
\* successor keep the effective limits; adoption and the last call take the
\* candidate's.
Writing ==
    CASE site = "adopt" -> Candidate("reload")
      [] site = "block" -> [record EXCEPT !.recovery = "migration"]
      [] site = "unblock" -> [record EXCEPT !.recovery = "reload"]
      [] site = "final" -> Candidate("none")

\* Plan::validate on versions: every committed file is still there and every
\* other file is newer than all of them.
Valid(plan, committed) ==
    /\ committed \subseteq plan
    /\ \A v \in plan \ committed, c \in committed : v > c
\* Plan::into_pending.
Pending(plan, committed) == {v \in plan : \A c \in committed : v > c}

-----------------------------------------------------------------------------
(* Pieces shared by the operations. *)

\* check_open, under the lock of entries.
CheckOpen == registry = "open"

\* begin: the operation takes the management slot and resets its progress.
Begin(kind, step) ==
    /\ CheckOpen
    /\ current = None
    /\ current' = kind
    /\ progress' = NoProgress
    /\ pc' = step

\* finish: the slot is given up; the locals of the task are gone.
Finish ==
    /\ current' = None
    /\ progress' = NoProgress
    /\ pc' = "idle"
    /\ request' = None
    /\ adopting' = FALSE
    /\ claimed' = FALSE
    /\ previous' = None
    /\ site' = None
    /\ pending' = {}
    /\ expected' = {}
    /\ fresh' = None
    /\ served' = None
    /\ replaced' = FALSE

\* Defect: the phase is left as it was.
CloseAdmissionLeavesOpen(where) ==
    previous' = phase /\ UNCHANGED phase /\ site' = where /\ pc' = "drain"
\* close_admission: no request is admitted from here on.
CloseAdmission(where) ==
    previous' = phase /\ phase' = "publishing" /\ site' = where /\ pc' = "drain"

\* Defect: the old phase does not come back.
RestoreAdmissionForgotten == UNCHANGED phase
\* restore_admission: the old service goes on after a definite failure.
RestoreAdmission ==
    phase' = IF ~invalidRecord /\ phase = "publishing" THEN previous ELSE phase

\* Defect: the directory is not synced.
DirectoryNotSynced == UNCHANGED onCrash
\* sync_directory: a crash can only leave what is visible now.
DirectorySynced == onCrash' = {toml}

\* drain: wait until no admitted request is left.
Drain ==
    /\ pc = "drain"
    /\ active = 0
    /\ pc' = CASE current = "unregister" -> "remove"
               [] current = "publish" /\ site = "adopt" /\ CandidateTarget = Turso
                     -> "syncData"
               [] OTHER -> "rename"
    /\ UNCHANGED <<disk, outside, service, progress, task, ghosts>>

-----------------------------------------------------------------------------
(* Registry::publish and the task it spawns, run_publish. *)

\* The accepting half, under the locks of entries and State.
Publish(req) ==
    /\ Begin("publish", "accepted")
    /\ ~invalidRecord
    /\ req.database = None => record # None
    /\ listed' = TRUE
    /\ request' = req
    /\ served' = IF phase = "ready" THEN [record |-> record, snapshot |-> snapshot]
                                    ELSE None
    /\ UNCHANGED <<disk, registry, active, inflight, service, adopting, claimed,
                   previous, site, plans, unfinished, dataLost, replaced>>

\* Workspace::prepare syncs the directory; the open database of the same target
\* is taken over.
Prepare ==
    /\ pc = "accepted"
    /\ MustExist => dataFile # "absent"
    /\ DirectorySynced
    /\ adopting' = (~SameTarget \/ record = None)
    /\ pc' = IF ReusesResources THEN "connected" ELSE "opening"
    /\ UNCHANGED <<toml, dataFile, history, outside, service, progress, request,
                   claimed, previous, site, plans, ghosts>>

\* A missing file, an unusable directory. It may have been synced before.
PrepareFails ==
    /\ pc = "accepted"
    /\ pc' = "failed"
    /\ DirectorySynced \/ UNCHANGED onCrash
    /\ UNCHANGED <<toml, dataFile, history, outside, service, progress, task, ghosts>>

-----------------------------------------------------------------------------
(* open_resources. Between any two of its system calls data.db may go away. *)

Registered == toml # None /\ toml.target = Turso

\* data.db is opened by a call that creates it when it is not there: empty and
\* not synced.
ReachData ==
    IF dataFile = "absent"
    THEN /\ dataFile' = "volatile"
         /\ history' = [history EXCEPT ![Turso] = {}]
         /\ unfinished' = unfinished \ {Turso}
         /\ replaced' = Registered
    ELSE UNCHANGED <<dataFile, history, unfinished, replaced>>

\* claim_file: create_new only where that is allowed.
ClaimData(allowCreate) ==
    /\ dataFile = "absent" => allowCreate
    /\ ReachData
    /\ claimed' = TRUE

\* Defect: the handles are not compared.
AnyFileWillDo == TRUE
\* The path still leads to the file that was claimed.
StillClaimed == claimed

\* PostgreSQL: one connection is tried.
Connect ==
    /\ pc = "opening"
    /\ CandidateTarget # Turso
    /\ pc' = "connected"
    /\ UNCHANGED <<disk, outside, service, progress, task, ghosts>>

ClaimFile ==
    /\ pc = "opening"
    /\ CandidateTarget = Turso
    /\ ClaimData(~MustExist)
    /\ pc' = "claimed"
    /\ UNCHANGED <<toml, onCrash, outside, service, progress, request, adopting,
                   previous, site, plans, served, dataLost>>

\* turso_driver::open has the default flags: it creates what it does not find.
OpenDatabase ==
    /\ pc = "claimed"
    /\ ReachData
    /\ pc' = "opened"
    /\ UNCHANGED <<toml, onCrash, outside, service, progress, task, served, dataLost>>

CheckHandle ==
    /\ pc = "opened"
    /\ StillClaimed
    /\ claimed' = FALSE
    /\ pc' = "connected"
    /\ UNCHANGED <<disk, outside, service, progress, request, adopting, previous,
                   site, plans, ghosts>>

\* A refused connection, a file that is missing, in use or not the claimed one.
\* What the attempt created stays.
OpenFails ==
    /\ pc \in Opening
    /\ pc' = "failed"
    /\ UNCHANGED <<disk, outside, service, progress, task, ghosts>>

\* Same target: the resources are (re)installed and service goes on.
KeepTarget ==
    /\ pc = "connected"
    /\ ~adopting
    /\ resources' = CandidateTarget
    /\ pc' = "preflight"
    /\ UNCHANGED <<disk, outside, phase, record, config, invalidRecord, snapshot,
                   progress, task, ghosts>>

\* New target: admission closes before anything of the old one is given up.
ChangeTarget ==
    /\ pc = "connected"
    /\ adopting
    /\ CloseAdmission("adopt")
    /\ UNCHANGED <<disk, outside, invalidRecord, installed, progress, order, plans,
                   ghosts>>

\* Defect: the file is not synced.
DataNotSynced == UNCHANGED dataFile
DataSynced == dataFile' = "durable"

\* sync_data opens data.db by its path, syncs it, then its directory.
SyncData ==
    /\ pc = "syncData"
    /\ dataFile # "absent"
    /\ pc' = "rename"
    /\ DataSynced
    /\ DirectorySynced
    /\ dataLost' = FALSE
    /\ UNCHANGED <<toml, history, outside, service, progress, task, unfinished,
                   served, replaced>>

SyncDataFails ==
    /\ pc = "syncData"
    /\ pc' = "failed"
    /\ RestoreAdmission
    /\ UNCHANGED <<disk, outside, invalidRecord, installed, progress, task, ghosts>>

-----------------------------------------------------------------------------
(* persist: Workspace::persist writes and syncs a temporary file, renames   *)
(* it over database.toml and syncs the directory.                           *)

PersistRename ==
    /\ pc = "rename"
    /\ toml' = Writing
    /\ onCrash' = onCrash \cup {Writing}
    /\ pc' = "sync"
    /\ UNCHANGED <<dataFile, history, outside, service, progress, task, ghosts>>

\* A definite failure, before the rename. Adoption and the blocker give the
\* old service back; the two later calls leave the phase to the end.
PersistFails ==
    /\ pc = "rename"
    /\ pc' = "failed"
    /\ IF site \in {"adopt", "block"} THEN RestoreAdmission ELSE UNCHANGED phase
    /\ UNCHANGED <<disk, outside, invalidRecord, installed, progress, task, ghosts>>

PersistSync ==
    /\ pc = "sync"
    /\ DirectorySynced
    /\ pc' = "persisted"
    /\ UNCHANGED <<toml, dataFile, history, outside, service, progress, task,
                   ghosts>>

\* Defect: an uncertain commit is treated like a definite failure.
DistrustNothing == UNCHANGED <<phase, invalidRecord>>
\* Which record a crash leaves is unknown: nothing is published until a
\* restart has read the file.
DistrustRecord == phase' = "recovery_required" /\ invalidRecord' = TRUE

\* The rename happened but the directory sync failed.
PersistUncertain ==
    /\ pc = "sync"
    /\ pc' = "failed"
    /\ DistrustRecord
    /\ UNCHANGED <<disk, outside, installed, progress, task, ghosts>>

\* The new target is installed and the old snapshot retired.
Adopted ==
    /\ pc = "persisted" /\ site = "adopt"
    /\ config' = CandidateConfig
    /\ record' = Writing
    /\ resources' = CandidateTarget
    /\ snapshot' = None
    /\ pc' = "preflight"
    /\ UNCHANGED <<disk, outside, phase, invalidRecord, progress, task, ghosts>>

-----------------------------------------------------------------------------
(* The migrations of a publication. *)

RecoveringMigration == record # None /\ record.recovery = "migration"

\* Plan::load reads the files, Migrator::history the table, into_pending
\* compares them. Nothing to apply and no blocker: straight to the interfaces.
Preflight(plan) ==
    /\ pc = "preflight"
    /\ Valid(plan, history[CandidateTarget])
    /\ pending' = Pending(plan, history[CandidateTarget])
    /\ expected' = history[CandidateTarget]
    /\ pc' = IF pending' # {} \/ RecoveringMigration THEN "planned" ELSE "load"
    /\ unfinished' = IF pending' = {} THEN unfinished \ {CandidateTarget}
                                      ELSE unfinished
    /\ UNCHANGED <<disk, outside, service, progress, order, previous, site, fresh,
                   served, dataLost, replaced>>

\* Before the blocker is attempted: a rejected plan, an unreadable history, no
\* time left. After it: the history is unreadable or not the expected one.
\* Before the snapshot exists: the interface tree is rejected.
StepFails ==
    /\ pc \in {"preflight", "planned", "recheck", "load"}
    /\ pc' = "failed"
    /\ UNCHANGED <<disk, outside, service, progress, task, ghosts>>

BeginMigration ==
    /\ pc = "planned"
    /\ CloseAdmission("block")
    /\ UNCHANGED <<disk, outside, invalidRecord, installed, progress, order, plans,
                   ghosts>>

\* Defect: the record in memory is not updated.
MarkOnDiskOnly == UNCHANGED record
MarkRecord == record' = Writing

\* The blocker, or its successor, is on the disk: only now may the schema
\* change, or the interfaces be loaded.
Marked ==
    /\ pc = "persisted" /\ site \in {"block", "unblock"}
    /\ MarkRecord
    /\ pc' = IF site = "block" THEN "recheck" ELSE "load"
    /\ UNCHANGED <<disk, outside, phase, invalidRecord, config, resources, snapshot,
                   progress, task, ghosts>>

\* The history is read again now that nothing else uses the database.
Recheck ==
    /\ pc = "recheck"
    /\ history[CandidateTarget] = expected
    /\ pc' = "apply"
    /\ UNCHANGED <<disk, outside, service, progress, task, ghosts>>

\* Defect: the files are applied in any order.
AnyFile(v) == TRUE
\* The files are applied in the order of their versions.
NextFile(v) == \A w \in pending : v <= w

StartFile ==
    /\ pc = "apply"
    /\ \E v \in pending :
          NextFile(v) /\ progress' = [progress EXCEPT !.now = v]
    /\ pc' = "applying"
    /\ UNCHANGED <<disk, outside, service, task, ghosts>>

\* The transaction of the file, history row included, takes effect.
ApplyCommits ==
    /\ pc = "applying"
    /\ history' = [history EXCEPT ![CandidateTarget] = @ \cup {progress.now}]
    /\ pc' = "committed"
    /\ unfinished' = IF pending = {progress.now}
                     THEN unfinished \ {CandidateTarget}
                     ELSE unfinished \cup {CandidateTarget}
    /\ UNCHANGED <<toml, onCrash, dataFile, outside, service, progress, task,
                   served, dataLost, replaced>>

\* No time left, an SQL error, or a commit whose outcome was lost: from
\* "applying" nothing took effect, from "committed" everything did.
ApplyFails ==
    /\ pc \in {"applying", "committed"}
    /\ progress' = [progress EXCEPT !.failed = progress.now, !.now = None]
    /\ pc' = "failed"
    /\ UNCHANGED <<disk, outside, service, task, ghosts>>

\* Defect: a file counts as applied before its commit is known.
SomeReply == pc \in {"applying", "committed"}
CommitReply == pc = "committed"

FileApplied ==
    /\ CommitReply
    /\ progress' = [progress EXCEPT !.applied = @ \cup {progress.now}, !.now = None]
    /\ pending' = pending \ {progress.now}
    /\ pc' = "apply"
    /\ UNCHANGED <<disk, outside, service, order, previous, site, expected, fresh,
                   ghosts>>

\* Every file is applied: the blocker is to be replaced by a reload marker.
EndMigration ==
    /\ pc = "apply"
    /\ pending = {}
    /\ site' = "unblock"
    /\ pc' = "rename"
    /\ UNCHANGED <<disk, outside, service, progress, order, previous, plans, ghosts>>

-----------------------------------------------------------------------------
(* The end of a publication. *)

\* Snapshot::load, then the record without a recovery marker is persisted.
Load ==
    /\ pc = "load"
    /\ fresh' = [target |-> CandidateTarget, schema |-> history[CandidateTarget]]
    /\ site' = "final"
    /\ pc' = "rename"
    /\ UNCHANGED <<disk, outside, service, progress, order, previous, pending,
                   expected, ghosts>>

\* Defect: an old snapshot is kept.
KeepSnapshot == snapshot' = IF snapshot = None THEN fresh ELSE snapshot
ReplaceSnapshot == snapshot' = fresh

Published ==
    /\ pc = "persisted" /\ site = "final"
    /\ record' = Writing
    /\ config' = CandidateConfig
    /\ resources' = CandidateTarget
    /\ phase' = "ready"
    /\ ReplaceSnapshot
    /\ pc' = "succeeded"
    /\ UNCHANGED <<disk, outside, invalidRecord, progress, task, ghosts>>

\* The spawned task records the result.
FinishPublish ==
    /\ current = "publish"
    /\ pc \in {"succeeded", "failed"}
    /\ phase' = IF pc = "failed" /\ phase = "publishing" THEN "recovery_required"
                                                         ELSE phase
    /\ Finish
    /\ UNCHANGED <<disk, registry, listed, active, inflight, invalidRecord,
                   installed, unfinished, dataLost>>

-----------------------------------------------------------------------------
(* Registry::unregister and its task. Only database.toml is removed. *)

\* It is not refused while the record is invalid.
Unregister ==
    /\ listed
    /\ Begin("unregister", "drain")
    /\ phase' = "unregistering"
    /\ UNCHANGED <<disk, registry, listed, active, inflight, invalidRecord,
                   installed, task, ghosts>>

RemoveFile ==
    /\ pc = "remove"
    /\ toml' = None
    /\ onCrash' = onCrash \cup {None}
    /\ pc' = "removeSync"
    /\ UNCHANGED <<dataFile, history, outside, service, progress, task, ghosts>>

RemoveSync ==
    /\ pc = "removeSync"
    /\ DirectorySynced
    /\ pc' = "removed"
    /\ UNCHANGED <<toml, dataFile, history, outside, service, progress, task,
                   ghosts>>

\* The file cannot be removed, or its removal cannot be made durable.
RemoveFails ==
    /\ pc \in {"remove", "removeSync"}
    /\ pc' = "failed"
    /\ UNCHANGED <<disk, outside, service, progress, task, ghosts>>

Removed ==
    /\ pc = "removed"
    /\ record' = None
    /\ config' = None
    /\ invalidRecord' = FALSE
    /\ resources' = None
    /\ snapshot' = None
    /\ pc' = "succeeded"
    /\ UNCHANGED <<disk, outside, phase, progress, task, ghosts>>

FinishUnregister ==
    /\ current = "unregister"
    /\ pc \in {"succeeded", "failed"}
    /\ phase' = IF pc = "succeeded" THEN "unregistered" ELSE "recovery_required"
    /\ Finish
    /\ UNCHANGED <<disk, registry, listed, active, inflight, invalidRecord,
                   installed, unfinished, dataLost>>

-----------------------------------------------------------------------------
(* Requests: Registry::admit, export_migrations, and the end of either. *)

\* A request is counted in the critical section that lets it in.
Enter(r, schema) ==
    /\ inflight[r] = None
    /\ CheckOpen
    /\ listed
    /\ active' = active + 1
    /\ inflight' = [inflight EXCEPT ![r] = [target |-> resources, schema |-> schema]]
    /\ UNCHANGED <<disk, registry, listed, current, service, progress, pc, task,
                   ghosts>>

\* A data request.
Admit(r) == phase = "ready" /\ Enter(r, snapshot.schema)

\* An export reads the migration table; it also works while recovery is
\* required, and whether or not the record is trusted.
Export(r) ==
    /\ current = None
    /\ phase # "unregistered"
    /\ resources # None
    /\ config # None
    /\ Enter(r, history[resources])

\* Defect: the request is forgotten without being discounted.
FinishRequestCounted(r) ==
    /\ inflight[r] # None
    /\ inflight' = [inflight EXCEPT ![r] = None]
    /\ UNCHANGED <<disk, registry, listed, active, current, service, progress, pc,
                   task, ghosts>>
\* RequestLifetime::drop, once execution is over. PostgresRequest shows when the
\* server may still be at work then.
FinishRequest(r) ==
    /\ inflight[r] # None
    /\ active' = active - 1
    /\ inflight' = [inflight EXCEPT ![r] = None]
    /\ UNCHANGED <<disk, registry, listed, current, service, progress, pc, task,
                   ghosts>>

-----------------------------------------------------------------------------
(* Shutdown, the end of the process, and its start. *)

StartShutdown ==
    /\ registry = "open"
    /\ registry' = "closing"
    /\ UNCHANGED <<disk, listed, active, inflight, current, service, progress, pc,
                   task, ghosts>>

\* Defect: only the requests are waited for.
NoRequests == active = 0
NothingRuns == current = None /\ active = 0

\* The shutdown task retires the database once nothing uses it. The record
\* stays: a shutdown changes no registration.
Retire ==
    /\ registry = "closing"
    /\ listed => NothingRuns
    /\ registry' = "closed"
    /\ IF listed
       THEN phase' = "unregistered" /\ resources' = None /\ snapshot' = None
       ELSE UNCHANGED <<phase, resources, snapshot>>
    /\ UNCHANGED <<disk, listed, active, inflight, current, record, config,
                   invalidRecord, progress, pc, task, ghosts>>

\* Everything in memory is gone.
Forget ==
    /\ registry' = "down"
    /\ listed' = FALSE
    /\ phase' = "recovery_required"
    /\ record' = None
    /\ config' = None
    /\ invalidRecord' = FALSE
    /\ resources' = None
    /\ snapshot' = None
    /\ active' = 0
    /\ inflight' = [r \in Requests |-> None]
    /\ Finish

\* The process ends: after a shutdown, or killed at any moment.
Exit ==
    /\ registry # "down"
    /\ Forget
    /\ UNCHANGED <<disk, unfinished, dataLost>>

\* The machine loses power. Of what was not synced, anything may be left.
PowerLoss ==
    /\ toml' \in onCrash
    /\ onCrash' = {toml'}
    /\ Forget
    /\ dataFile' \in IF dataFile = "volatile" THEN {"absent", "durable"}
                                              ELSE {dataFile}
    /\ UNCHANGED <<history, unfinished, dataLost>>

\* Somebody removes data.db, at any time. A process that has it open works on
\* with the file that has no name any more.
LoseData ==
    /\ dataFile # "absent"
    /\ dataFile' = "absent"
    /\ dataLost' = TRUE
    /\ claimed' = FALSE
    /\ UNCHANGED <<toml, onCrash, history, outside, service, progress, pc, request,
                   adopting, previous, site, plans, unfinished, served, replaced>>

\* Registry::open lists the names that have a database.toml; it returns, and
\* the first call can come, when each of them is restored.
Open(step) ==
    /\ registry = "down"
    /\ registry' = step
    /\ listed' = (toml # None)
    /\ UNCHANGED <<disk, active, inflight, current, progress, pc, task, ghosts>>

OpenEmpty == toml = None /\ Open("open") /\ UNCHANGED service

\* restore fails to read the file.
OpenInvalid ==
    /\ toml # None
    /\ Open("open")
    /\ invalidRecord' = TRUE
    /\ UNCHANGED <<phase, installed>>

ReadRecord ==
    /\ toml # None
    /\ Open("restoring")
    /\ record' = toml
    /\ config' = [target |-> toml.target, limits |-> toml.limits]
    /\ UNCHANGED <<phase, invalidRecord, resources, snapshot>>

Restore(from, to) ==
    /\ registry = from
    /\ registry' = to
    /\ UNCHANGED <<toml, onCrash, listed, active, inflight, current, record, config,
                   invalidRecord, progress, pc, request, adopting, previous, site,
                   plans, served, dataLost>>

\* require_data, then open_resources, which must not create the file.
RestoreClaim ==
    /\ Restore("restoring", "claimed")
    /\ record.target = Turso
    /\ ClaimData(FALSE)
    /\ UNCHANGED <<phase, resources, snapshot>>

RestoreOpen ==
    /\ Restore("claimed", "opened")
    /\ ReachData
    /\ UNCHANGED <<phase, resources, snapshot, claimed>>

\* restore is done, one way or the other.
EndRestore(from) ==
    /\ Restore(from, "open")
    /\ claimed' = FALSE
    /\ replaced' = FALSE
    /\ UNCHANGED <<dataFile, history, unfinished>>

\* The database is missing or cannot be opened.
OpenUnavailable ==
    /\ \E step \in Restoring : EndRestore(step)
    /\ UNCHANGED <<phase, resources, snapshot>>

OpenResources ==
    /\ registry \in Restoring
    /\ IF record.target = Turso THEN EndRestore("opened") /\ StillClaimed
                                ELSE EndRestore("restoring")
    /\ resources' = record.target

\* A recovery marker, or interfaces that do not load, keep the service closed.
OpenRecovering ==
    /\ OpenResources
    /\ UNCHANGED <<phase, snapshot>>

\* Defect: only the reload marker is looked at.
NoReload == record.recovery # "reload"
NoRecovery == record.recovery = "none"

OpenReady ==
    /\ OpenResources
    /\ NoRecovery
    /\ snapshot' = [target |-> record.target, schema |-> history[record.target]]
    /\ phase' = "ready"

-----------------------------------------------------------------------------

Init ==
    /\ toml = None
    /\ onCrash = {None}
    /\ dataFile = "absent"
    /\ history \in [Targets -> SUBSET Versions]
    /\ history[Turso] = {}
    /\ registry = "down"
    /\ listed = FALSE
    /\ phase = "recovery_required"
    /\ record = None
    /\ config = None
    /\ invalidRecord = FALSE
    /\ resources = None
    /\ snapshot = None
    /\ active = 0
    /\ current = None
    /\ progress = NoProgress
    /\ pc = "idle"
    /\ request = None
    /\ adopting = FALSE
    /\ claimed = FALSE
    /\ previous = None
    /\ site = None
    /\ pending = {}
    /\ expected = {}
    /\ fresh = None
    /\ inflight = [r \in Requests |-> None]
    /\ unfinished = {}
    /\ served = None
    /\ dataLost = FALSE
    /\ replaced = FALSE

Persist == PersistRename \/ PersistFails \/ PersistSync \/ PersistUncertain

Migrate ==
    \/ \E plan \in SUBSET Versions : Preflight(plan)
    \/ BeginMigration \/ Marked \/ Recheck \/ StartFile \/ ApplyCommits
    \/ FileApplied \/ ApplyFails \/ EndMigration

\* A step of the management task.
TaskStep ==
    \/ Prepare \/ PrepareFails \/ Connect \/ ClaimFile \/ OpenDatabase
    \/ CheckHandle \/ OpenFails \/ KeepTarget \/ ChangeTarget \/ Drain
    \/ SyncData \/ SyncDataFails \/ Persist \/ Adopted \/ Migrate \/ StepFails
    \/ Load \/ Published \/ FinishPublish
    \/ RemoveFile \/ RemoveSync \/ RemoveFails \/ Removed \/ FinishUnregister

\* A call from outside.
Call ==
    \/ \E req \in PublishRequest : Publish(req)
    \/ Unregister
    \/ \E r \in Requests : Admit(r) \/ Export(r)
    \/ StartShutdown

Process ==
    \/ Exit \/ PowerLoss \/ LoseData
    \/ OpenEmpty \/ OpenInvalid \/ ReadRecord \/ RestoreClaim \/ RestoreOpen
    \/ OpenUnavailable \/ OpenRecovering \/ OpenReady

Next == \/ TaskStep
        \/ Call
        \/ \E r \in Requests : FinishRequest(r)
        \/ Retire
        \/ Process

Spec == Init /\ [][Next]_vars

\* A spawned task is polled until it ends; a request ends because its time
\* limit is positive and finite; the shutdown task is polled like any other.
Fairness ==
    /\ WF_vars(TaskStep)
    /\ \A r \in Requests : WF_vars(FinishRequest(r))
    /\ WF_vars(Retire)

FairSpec == Spec /\ Fairness

-----------------------------------------------------------------------------
(* Safety. *)

\* The type invariant.
TypeOK ==
    /\ toml \in Record \cup {None}
    /\ onCrash \subseteq Record \cup {None}
    /\ dataFile \in {"absent", "volatile", "durable"}
    /\ history \in [Targets -> SUBSET Versions]
    /\ registry \in Restoring \cup {"down", "open", "closing", "closed"}
    /\ listed \in BOOLEAN
    /\ phase \in Phases
    /\ record \in Record \cup {None}
    /\ config \in Config \cup {None}
    /\ invalidRecord \in BOOLEAN
    /\ resources \in Targets \cup {None}
    /\ snapshot \in Snapshot \cup {None}
    /\ active \in Nat
    /\ current \in {None, "publish", "unregister"}
    /\ progress \in [applied: SUBSET Versions, now: Versions \cup {None},
                     failed: Versions \cup {None}]
    /\ pc \in Steps
    /\ request \in PublishRequest \cup {None}
    /\ adopting \in BOOLEAN
    /\ claimed \in BOOLEAN
    /\ previous \in Phases \cup {None}
    /\ site \in Sites \cup {None}
    /\ pending \subseteq Versions
    /\ expected \subseteq Versions
    /\ fresh \in Snapshot \cup {None}
    /\ inflight \in [Requests -> Snapshot \cup {None}]
    /\ unfinished \subseteq Targets
    /\ served \in [record: Record, snapshot: Snapshot] \cup {None}
    /\ dataLost \in BOOLEAN
    /\ replaced \in BOOLEAN

\* While the phase is "ready" the record, the configuration, the resources and
\* the snapshot are all there and agree, database.toml carries no recovery
\* marker, and it is that record (or the one a reload is just replacing it by).
\* Registry::admit unwraps all of them without a check.
ServiceIsCoherent ==
    phase = "ready" =>
        /\ record # None /\ config # None /\ resources # None /\ snapshot # None
        /\ record.recovery = "none"
        /\ config = [target |-> record.target, limits |-> record.limits]
        /\ resources = record.target
        /\ snapshot.target = record.target
        /\ ~invalidRecord
        /\ toml = record \/ (pc \in {"sync", "persisted"} /\ toml = Writing)

\* The schema never changes under a request: from its admission to its end the
\* migrations committed in its target are those its snapshot was loaded for,
\* and the database it works on stays open. Drain and the closed phase of
\* run_publish are there for this.
SchemaIsStableForRequests ==
    \A r \in InFlight :
        /\ inflight[r].schema = history[inflight[r].target]
        /\ resources = inflight[r].target

\* A target on which a batch of migrations was begun and not completed is
\* never served, whatever crashed in between: run_publish persists the blocker
\* before it applies the first file, and restore obeys it.
PartialBatchIsNotServed == phase = "ready" => config.target \notin unfinished

\* While migrations are applied, every record a crash may leave is a blocker
\* for that very target, and no request is in flight.
BlockerCoversMigration ==
    pc \in {"recheck", "apply", "applying", "committed"} =>
        /\ \A c \in onCrash :
              c # None /\ c.recovery = "migration" /\ c.target = CandidateTarget
        /\ InFlight = {}

\* Unless the record is marked invalid, the record in memory is the one on the
\* disk, except inside a persist call and after an unregistration that failed
\* once the file was removed.
RecordMirrorsDisk ==
    listed /\ ~invalidRecord =>
        \/ toml = record
        \/ toml = None
        \/ pc \in {"sync", "persisted"} /\ toml = Writing

\* No crash leaves a registration of the embedded database without its file,
\* unless somebody else removed it: sync_data comes before persist.
DataBeforeRecord ==
    (\E c \in onCrash : c # None /\ c.target = Turso) =>
        dataFile = "durable" \/ dataLost

\* A publication that fails without having replaced the record on the disk
\* gives back the service it found: same record, same snapshot, open for
\* requests (the failure paths of run_publish and restore_admission).
FailureKeepsService ==
    pc = "failed" /\ served # None /\ ~invalidRecord /\ toml = served.record =>
        /\ phase = "ready"
        /\ record = served.record
        /\ snapshot = served.snapshot

\* An operation that is reported as a success has its result on the disk: a
\* crash right after it leaves the published record, or no registration.
SuccessIsDurable ==
    pc = "succeeded" =>
        /\ onCrash = {toml}
        /\ toml = record
        /\ current = "publish" <=> phase = "ready"

\* The progress of a publication tells the truth about its migrations: what it
\* lists as applied is committed, and what it committed is listed as applied
\* or as the one version whose outcome is open.
ProgressIsTruthful ==
    current = "publish" /\ site \in {"block", "unblock"} =>
        /\ progress.applied \subseteq history[CandidateTarget]
        /\ history[CandidateTarget] \subseteq
              expected \cup progress.applied \cup {progress.now, progress.failed}

\* After shutdown nothing of the database is in use any more.
ClosedIsQuiet ==
    registry = "closed" => current = None /\ InFlight = {} /\ resources = None

(* What a step may never do. *)

\* A registered data.db that is lost is reported, not replaced: the only step
\* that creates it is the open of an attempt which had found and claimed it
\* before it went away, and that attempt never takes the empty file into use
\* (require_data, allow_create and the comparison of handles in open_resources).
RecreatedDataIsRefused ==
    [][/\ Registered /\ dataFile = "absent" /\ dataFile' # "absent" =>
             pc = "claimed" \/ registry = "claimed"
       /\ replaced => resources' # Turso /\ pc' # "connected"]_vars

\* Versions are committed in ascending order, across failures, retries and
\* crashes; they are only ever lost when a new data.db takes the place of a
\* missing one.
ForwardOnly ==
    [][\A t \in Targets : history'[t] # history[t] =>
          \/ t = Turso /\ dataFile = "absent"
          \/ /\ history[t] \subseteq history'[t]
             /\ \A v \in history'[t] \ history[t], w \in history[t] : v > w]_vars

(* Liveness, under FairSpec. *)

\* An accepted operation ends, whatever requests it has to wait for.
OperationsEnd == current # None ~> current = None

(* A claim of the documentation that the code does not keep: see the README. *)

\* "A missing local file in a persisted registration is never recreated, even
\* on a publish retry": data.db does not come into being while database.toml
\* registers it.
NeverRecreateData ==
    [][dataFile = "absent" /\ dataFile' # "absent" => ~Registered]_vars

=============================================================================
