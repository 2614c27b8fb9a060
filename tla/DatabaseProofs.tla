--------------------------- MODULE DatabaseProofs ---------------------------
(***************************************************************************)
(* The safety of one database of the registry, for every set of            *)
(* connections, limits and versions and any finite number of requests: the *)
(* invariant of DatabaseInvariant is inductive, the safety properties of   *)
(* Database follow from it, and under it every step is a step of Service,  *)
(* or changes nothing the service knows of.                                *)
(***************************************************************************)
EXTENDS DatabaseService, TLAPS, FiniteSetTheorems

USE DEF disk, outside, installed, service, order, plans, task, ghosts,
        Migrating, Persisting, PublishSteps, UnregisterSteps, Opening,
        Restoring, Core

-----------------------------------------------------------------------------
(* Facts used for several actions. *)

\* active is zero exactly when no request is in flight.
LEMMA NoneInFlight == Counted => (active = 0 <=> InFlight = {})
BY RequestsAreFinite, FS_Subset, FS_EmptySet DEF Counted, InFlight

\* Only a publication persists, at one of its four sites.
LEMMA PersistingIsPublishing ==
    ASSUME Inv, pc \in Persisting
    PROVE  current = "publish" /\ site \in Sites /\ request \in PublishRequest
BY DEF Inv, TypeOK, Slot, Sited, Sites

\* The request of a publication can be resolved to a target.
LEMMA CandidateIsTarget ==
    ASSUME TypeOK, Slot, current = "publish"
    PROVE  CandidateTarget \in Targets
BY NoneIsNothing DEF TypeOK, Slot, CandidateTarget, PublishRequest, Record

\* What persist writes is a record of the candidate target.
LEMMA WritingIsRecord ==
    ASSUME Inv, pc \in Persisting
    PROVE  /\ Writing \in Record
           /\ Writing # None
           /\ Writing.target = CandidateTarget
<1>1. current = "publish" /\ site \in Sites /\ request \in PublishRequest
  BY PersistingIsPublishing
<1>2. CandidateTarget \in Targets
  BY <1>1, CandidateIsTarget DEF Inv
<1>3. \/ site \in {"adopt", "final"}
      \/ /\ site \in {"block", "unblock"}
         /\ record # None /\ resources = CandidateTarget
  BY <1>1 DEF Inv, Sited, Sites
<1>4. CASE site \in {"adopt", "final"}
  BY <1>1, <1>2, <1>4, NoneIsNothing
     DEF Writing, Candidate, Record, Recoveries, PublishRequest
<1>5. CASE /\ site \in {"block", "unblock"}
           /\ record # None /\ resources = CandidateTarget
  <2>1. record \in Record /\ record.target = CandidateTarget
    BY <1>5, <1>2, NoneIsNothing DEF Inv, TypeOK, Resolved
  <2> QED
    BY <1>5, <2>1, NoneIsNothing DEF Writing, Record, Recoveries
<1> QED
  BY <1>3, <1>4, <1>5

\* Adoption and the last call write the limits of the request, the blocker and
\* its successor those of the record; only the last call writes no marker.
LEMMA WritingFields ==
    ASSUME Inv, pc \in Persisting
    PROVE  /\ site \in {"adopt", "final"} => Writing.limits = request.limits
           /\ site \in {"block", "unblock"} =>
                 /\ record # None
                 /\ Writing.limits = record.limits
                 /\ Writing.target = record.target
           /\ site \in {"adopt", "unblock"} => Writing.recovery = "reload"
           /\ site = "block" => Writing.recovery = "migration"
           /\ site = "final" => Writing.recovery = "none"
<1>1. site \in {"block", "unblock"} => record \in Record /\ record # None
  BY DEF Inv, Sited, Slot, TypeOK
<1>2. CASE site \in {"adopt", "final"}
  BY <1>2 DEF Writing, Candidate
<1>3. CASE site \in {"block", "unblock"}
  BY <1>1, <1>3 DEF Writing, Record
<1> QED
  BY <1>2, <1>3

\* The count stays right when a request enters a free slot.
LEMMA EnterCounted ==
    ASSUME Inv, NEW r \in Requests, inflight[r] = None, NEW x, x # None,
           active' = active + 1, inflight' = [inflight EXCEPT ![r] = x]
    PROVE  Counted'
<1>1. InFlight' = InFlight \cup {r} /\ r \notin InFlight
  BY DEF Inv, TypeOK, InFlight
<1>2. IsFiniteSet(InFlight)
  BY RequestsAreFinite, FS_Subset DEF InFlight
<1> QED
  BY <1>1, <1>2, FS_AddElement DEF Inv, Counted

\* The count stays right, and was not zero, when a request ends.
LEMMA LeaveCounted ==
    ASSUME Inv, NEW r \in Requests, inflight[r] # None,
           active' = active - 1, inflight' = [inflight EXCEPT ![r] = None]
    PROVE  Counted' /\ active > 0
<1>1. InFlight' = InFlight \ {r} /\ r \in InFlight
  BY DEF Inv, TypeOK, InFlight
<1>2. IsFiniteSet(InFlight)
  BY RequestsAreFinite, FS_Subset DEF InFlight
<1>3. Counted'
  BY <1>1, <1>2, FS_RemoveElement DEF Inv, Counted
<1>4. active # 0
  BY <1>1, NoneInFlight DEF Inv
<1> QED
  BY <1>3, <1>4 DEF Inv, TypeOK

\* finish leaves the locals of a task that does not exist.
LEMMA FinishTypes ==
    ASSUME Finish
    PROVE  /\ current' = None /\ pc' \in Steps /\ request' = None
           /\ adopting' \in BOOLEAN /\ claimed' \in BOOLEAN
           /\ replaced' \in BOOLEAN /\ previous' = None /\ site' = None
           /\ pending' \subseteq Versions /\ expected' \subseteq Versions
           /\ fresh' = None /\ served' = None
           /\ progress' \in [applied: SUBSET Versions, now: Versions \cup {None},
                             failed: Versions \cup {None}]
BY DEF Finish, NoProgress, Steps

\* Nothing in memory survives the process.
LEMMA ForgetTypes ==
    ASSUME Forget
    PROVE  /\ registry' = "down" /\ listed' \in BOOLEAN /\ phase' \in Phases
           /\ record' = None /\ config' = None /\ invalidRecord' \in BOOLEAN
           /\ resources' = None /\ snapshot' = None /\ active' \in Nat
           /\ inflight' \in [Requests -> Snapshot \cup {None}]
           /\ InFlight' = {}
BY DEF Forget, Phases, InFlight

\* A start that finds a database.toml lists its name.
LEMMA OpenLists == ASSUME NEW step, Open(step), toml # None PROVE listed' = TRUE
BY Zenon DEF Open

\* A publication opens a database only when it is not the open one.
LEMMA OpensAnother ==
    ASSUME Inv, pc \in Opening
    PROVE  /\ current = "publish" /\ CandidateTarget \in Targets
           /\ resources # CandidateTarget /\ ~invalidRecord /\ listed
<1>1. current = "publish" /\ ~invalidRecord /\ listed
  BY DEF Inv, Slot, Unlisted, TypeOK
<1>2. CandidateTarget \in Targets
  BY <1>1, CandidateIsTarget DEF Inv
<1>3. resources # CandidateTarget
  BY <1>2, NoneIsNothing
     DEF Inv, Sited, ReusesResources, SameTarget, Resolved, TypeOK, Config
<1> QED
  BY <1>1, <1>2, <1>3

-----------------------------------------------------------------------------
(* Each action preserves the invariant. *)

\* The directory is synced and the database to open is another one.
LEMMA PrepareInv == ASSUME Inv, Prepare PROVE Core'
<1>1. /\ TypeOK' /\ Slot' /\ Unlisted' /\ Resolved' /\ Counted' /\ Drained'
      /\ OnDisk' /\ Planned' /\ Accounted' /\ Kept'
  BY DEF Inv, Prepare, DirectorySynced, TypeOK, Steps, Slot,
     Unlisted, InFlight, Resolved, Counted, Drained, OnDisk, Planned,
     Closing, Accounted, Kept
<1>2. Served' /\ ProgressIsTruthful' /\ SchemaIsStableForRequests'
  BY DEF Inv, Prepare, Served, Servable, ProgressIsTruthful, CandidateTarget,
     SchemaIsStableForRequests, InFlight
<1>3. Sited' /\ DataSafe'
  BY DEF Inv, Prepare, DirectorySynced, ReusesResources, Sited,
     CandidateTarget, SameTarget, Slot, OnDisk, DataSafe, DataBeforeRecord,
     Closing
<1> QED
  BY <1>1, <1>2, <1>3 DEF Inv

\* Nothing but the step has changed, and perhaps the directory been synced.
LEMMA PrepareFailsInv == ASSUME Inv, PrepareFails PROVE Core'
<1>1. /\ TypeOK' /\ Slot' /\ Unlisted' /\ Resolved' /\ Counted' /\ Sited'
      /\ Drained' /\ OnDisk' /\ Planned' /\ Accounted' /\ Kept'
  BY DEF Inv, PrepareFails, DirectorySynced, TypeOK, Steps, Slot,
     Unlisted, InFlight, Resolved, Counted, Sited, Drained, OnDisk, Planned,
     Closing, Accounted, Kept
<1>2. /\ Served' /\ DataSafe' /\ ProgressIsTruthful'
      /\ SchemaIsStableForRequests'
  BY DEF Inv, PrepareFails, DirectorySynced, Served, Servable, DataSafe,
     DataBeforeRecord, Closing, CandidateTarget, OnDisk,
     ProgressIsTruthful, SchemaIsStableForRequests, InFlight
<1> QED
  BY <1>1, <1>2 DEF Inv

\* A connection or a compared handle moves the task on and changes nothing else
\* the invariant speaks of; neither does a failed attempt.
LEMMA ConnectInv == ASSUME Inv, Connect \/ CheckHandle \/ OpenFails PROVE Core'
<1>1. /\ pc \in Opening /\ pc' \in {"connected", "failed"}
      /\ UNCHANGED <<disk, outside, service, progress, request, adopting, previous,
                     site, plans, ghosts>>
      /\ claimed' \in BOOLEAN
  BY DEF Inv, TypeOK, Connect, CheckHandle, OpenFails
<1>2. TypeOK'
  BY <1>1 DEF Inv, TypeOK, Steps
<1>3. /\ Slot' /\ Unlisted' /\ Resolved' /\ Counted' /\ Sited' /\ Drained'
  BY <1>1 DEF Inv, Slot, Unlisted, InFlight, Resolved, Counted, Sited,
     CandidateTarget, SameTarget, Drained
<1>4. /\ OnDisk' /\ Planned' /\ Accounted' /\ Kept' /\ Served'
  BY <1>1 DEF Inv, OnDisk, Planned, Closing, Accounted, Kept, Served, Servable
<1>5. /\ DataSafe' /\ ProgressIsTruthful' /\ SchemaIsStableForRequests'
  BY <1>1 DEF Inv, DataSafe, DataBeforeRecord, Closing, CandidateTarget,
     ProgressIsTruthful, SchemaIsStableForRequests, InFlight
<1> QED
  BY <1>2, <1>3, <1>4, <1>5 DEF Inv

\* data.db may come into being: its history is new, but it is not the database
\* that is open, and a registered one was lost.
LEMMA ReachDataInv == ASSUME Inv, ClaimFile \/ OpenDatabase PROVE Core'
<1>1. /\ pc \in Opening /\ pc' \in Opening /\ pc' # "opening"
      /\ ReachData /\ CandidateTarget = Turso
      /\ UNCHANGED <<toml, onCrash, outside, service, progress, request, adopting,
                     previous, site, plans, served, dataLost>>
      /\ claimed' \in BOOLEAN
  BY DEF Inv, TypeOK, Sited, ClaimFile, ClaimData, OpenDatabase
<1>2. resources # Turso /\ current = "publish" /\ listed /\ ~invalidRecord
  BY <1>1, OpensAnother
<1>3. /\ dataFile' \in {"absent", "volatile", "durable"}
      /\ history' \in [Targets -> SUBSET Versions]
      /\ \A t \in Targets \ {Turso} : history'[t] = history[t]
      /\ history'[Turso] \in {history[Turso], {}}
      /\ unfinished' \subseteq unfinished
      /\ replaced' \in BOOLEAN
      /\ dataFile = "durable" => dataFile' = "durable"
  BY <1>1 DEF Inv, TypeOK, ReachData, Registered, Targets
<1>4. TypeOK'
  BY <1>1, <1>3 DEF Inv, TypeOK, Steps
<1>5. Slot' /\ Unlisted' /\ Resolved' /\ Counted' /\ Drained'
  BY <1>1 DEF Inv, Slot, Unlisted, InFlight, Resolved, Counted, Drained
<1>6. Sited'
  BY <1>1 DEF Inv, Sited, CandidateTarget, SameTarget, ReusesResources
<1>7. OnDisk' /\ Planned' /\ Accounted' /\ Kept'
  BY <1>1, <1>2, <1>3 DEF Inv, OnDisk, Planned, Closing, Accounted, Kept
<1>8. Served'
  <2>1. phase = "ready" => record.target \in Targets \ {Turso}
    BY <1>2 DEF Inv, Served, Servable, Resolved, TypeOK, Record
  <2> QED
    BY <1>1, <1>3, <2>1 DEF Inv, Served, Servable
<1>9. DataSafe'
  BY <1>1, <1>3 DEF Inv, DataSafe, DataBeforeRecord, Closing
<1>10. ProgressIsTruthful'
  <2>1. CandidateTarget' = Turso /\ progress' = progress /\ progress.applied = {}
    BY <1>1, <1>2 DEF Inv, Accounted, CandidateTarget, NoProgress
  <2> QED
    BY <1>1, <1>3, <2>1 DEF Inv, ProgressIsTruthful
<1>11. SchemaIsStableForRequests'
  BY <1>1, <1>2, <1>3 DEF Inv, SchemaIsStableForRequests, InFlight, TypeOK, Snapshot
<1> QED
  BY <1>4, <1>5, <1>6, <1>7, <1>8, <1>9, <1>10, <1>11 DEF Inv

\* The resources of the same target are installed again: the service is
\* unchanged.
LEMMA KeepTargetInv == ASSUME Inv, KeepTarget PROVE Core'
<1>1. /\ Slot' /\ Counted' /\ Drained' /\ OnDisk' /\ DataSafe' /\ Planned'
      /\ Accounted' /\ Kept' /\ ProgressIsTruthful'
  BY DEF Inv, KeepTarget, Slot, Counted, InFlight, Drained, OnDisk,
     CandidateTarget, DataSafe, DataBeforeRecord, Closing, Planned,
     Accounted, Kept, ProgressIsTruthful
<1>2. TypeOK' /\ Unlisted' /\ Resolved' /\ Served'
  BY DEF Inv, KeepTarget, TypeOK, Config, Steps, Slot, Sited, SameTarget,
     Unlisted, Resolved, Served, Servable
<1>3. Sited' /\ SchemaIsStableForRequests'
  BY NoneIsNothing
     DEF Inv, KeepTarget, Sited, CandidateTarget, SameTarget, InFlight,
        Resolved, SchemaIsStableForRequests, TypeOK, Snapshot
<1> QED
  BY <1>1, <1>2, <1>3 DEF Inv

\* Admission closes; what restore_admission would bring back is remembered.
LEMMA ChangeTargetInv == ASSUME Inv, ChangeTarget PROVE Core'
<1>1. /\ TypeOK' /\ Unlisted' /\ Resolved' /\ Counted' /\ Drained'
      /\ Served' /\ DataSafe' /\ Planned' /\ Accounted' /\ Kept'
      /\ ProgressIsTruthful' /\ SchemaIsStableForRequests'
  BY DEF Inv, ChangeTarget, CloseAdmission, TypeOK, Phases, Sites, Steps,
     Unlisted, InFlight, Resolved, Counted, Drained, Served, Servable,
     DataSafe, DataBeforeRecord, Closing, CandidateTarget, Planned,
     Accounted, Kept, ProgressIsTruthful, SchemaIsStableForRequests
<1>2. Slot' /\ Sited' /\ OnDisk'
  BY NoneIsNothing
     DEF Inv, ChangeTarget, CloseAdmission, Slot, Sited, TypeOK, Sites,
        OnDisk
<1> QED
  BY <1>1, <1>2 DEF Inv

\* The wait ends with no request in flight, which every later step relies on.
LEMMA DrainInv == ASSUME Inv, Drain PROVE Core'
<1>1. InFlight' = {}
  BY NoneInFlight DEF Inv, Drain, InFlight
<1>2. /\ TypeOK' /\ Slot' /\ Unlisted' /\ Resolved' /\ Counted' /\ Served'
      /\ OnDisk' /\ DataSafe' /\ Accounted' /\ ProgressIsTruthful'
      /\ SchemaIsStableForRequests'
  BY DEF Inv, Drain, TypeOK, Steps, Slot, Unlisted, InFlight, Resolved,
     Counted, Served, Servable, OnDisk, CandidateTarget, DataSafe,
     DataBeforeRecord, Closing, Accounted, ProgressIsTruthful,
     SchemaIsStableForRequests
<1>3. Sited' /\ Planned' /\ Kept'
  BY DEF Inv, Drain, Sited, CandidateTarget, Slot, TypeOK, Planned, Closing,
     Kept
<1>4. Drained'
  BY <1>1 DEF Inv, Drain, Drained, Slot, Sited
<1> QED
  BY <1>2, <1>3, <1>4 DEF Inv

\* data.db is durable before the record that names it is written.
LEMMA SyncDataInv == ASSUME Inv, SyncData PROVE Core'
<1>1. /\ pc' \in Steps /\ dataFile' \in {"absent", "volatile", "durable"}
      /\ dataLost' \in BOOLEAN /\ onCrash' \subseteq Record \cup {None}
  BY DEF Inv, TypeOK, SyncData, DataSynced, DirectorySynced, Steps
<1>2. /\ Slot' /\ Unlisted' /\ Resolved' /\ Counted' /\ Sited' /\ Drained'
      /\ Served' /\ OnDisk' /\ DataSafe' /\ Accounted' /\ Kept'
      /\ ProgressIsTruthful' /\ SchemaIsStableForRequests'
  BY DEF Inv, SyncData, DataSynced, DirectorySynced, Slot, Unlisted,
     InFlight, Resolved, Counted, Sited, Drained, Served, Servable, OnDisk,
     DataSafe, DataBeforeRecord, Closing, Accounted, Kept,
     ProgressIsTruthful, SchemaIsStableForRequests
<1>3. Planned'
  BY DEF Inv, SyncData, Planned, Closing, Sited
<1>4. TypeOK'
  BY <1>1 DEF Inv, TypeOK, SyncData
<1> QED
  BY <1>2, <1>3, <1>4 DEF Inv

\* The old phase comes back: nothing but the phase had changed.
LEMMA SyncDataFailsInv == ASSUME Inv, SyncDataFails PROVE Core'
<1>1. /\ Slot' /\ Resolved' /\ Counted' /\ Sited' /\ Drained' /\ OnDisk'
      /\ DataSafe' /\ Planned' /\ Accounted' /\ Kept'
      /\ ProgressIsTruthful' /\ SchemaIsStableForRequests'
  BY DEF Inv, SyncDataFails, RestoreAdmission, Slot, Resolved, Counted,
     InFlight, Sited, Drained, OnDisk, DataSafe, DataBeforeRecord, Closing,
     Planned, Accounted, Kept, ProgressIsTruthful, SchemaIsStableForRequests
<1>2. TypeOK' /\ Unlisted' /\ Served'
  BY DEF Inv, SyncDataFails, RestoreAdmission, TypeOK, Steps, Slot, Sited,
     Unlisted, Served, Servable
<1> QED
  BY <1>1, <1>2 DEF Inv

\* The new record is visible, and a crash may leave it or the old one; both are
\* true of the migrations.
LEMMA PersistRenameInv == ASSUME Inv, PersistRename PROVE Core'
<1>1. Writing \in Record
  BY WritingIsRecord DEF PersistRename
<1>2. /\ Slot' /\ Resolved' /\ Counted' /\ Sited' /\ Drained' /\ Served'
      /\ Planned' /\ Accounted' /\ Kept' /\ ProgressIsTruthful'
      /\ SchemaIsStableForRequests'
  BY DEF Inv, PersistRename, Slot, Resolved, Counted, InFlight, Sited,
     CandidateTarget, Drained, Served, Servable, Planned, Closing, Accounted,
     Kept, ProgressIsTruthful, SchemaIsStableForRequests
<1>3. Unlisted'
  BY DEF Inv, PersistRename, Unlisted, Slot
<1>4. OnDisk' /\ DataSafe'
  BY DEF Inv, PersistRename, OnDisk, Writing, Candidate, CandidateTarget,
     Slot, Sited, DataSafe, DataBeforeRecord, Closing, Planned, TypeOK,
     Record, Sites, Resolved
<1>5. TypeOK'
  BY <1>1 DEF Inv, TypeOK, PersistRename, Steps
<1> QED
  BY <1>2, <1>3, <1>4, <1>5 DEF Inv

\* A definite failure leaves the disk alone; adoption and the blocker give the
\* old service back.
LEMMA PersistFailsInv == ASSUME Inv, PersistFails PROVE Core'
<1>1. /\ Slot' /\ Resolved' /\ Counted' /\ Sited' /\ Drained' /\ OnDisk'
      /\ DataSafe' /\ Planned' /\ Accounted' /\ Kept'
      /\ ProgressIsTruthful' /\ SchemaIsStableForRequests'
  BY DEF Inv, PersistFails, RestoreAdmission, Slot, Resolved, Counted,
     InFlight, Sited, CandidateTarget, Drained, OnDisk, DataSafe,
     DataBeforeRecord, Closing, Planned, Accounted, Kept, ProgressIsTruthful,
     SchemaIsStableForRequests
<1>2. TypeOK' /\ Unlisted' /\ Served'
  BY DEF Inv, PersistFails, RestoreAdmission, TypeOK, Steps, Slot, Sited,
     Unlisted, Served, Servable
<1> QED
  BY <1>1, <1>2 DEF Inv

\* From here on a crash can only leave the new record.
LEMMA PersistSyncInv == ASSUME Inv, PersistSync PROVE Core'
<1>1. /\ TypeOK' /\ Slot' /\ Unlisted' /\ Resolved' /\ Counted' /\ Sited'
      /\ Drained' /\ Served' /\ Planned' /\ Accounted' /\ Kept'
      /\ ProgressIsTruthful' /\ SchemaIsStableForRequests'
  BY DEF Inv, PersistSync, DirectorySynced, TypeOK, Steps, Slot, Unlisted,
     InFlight, Resolved, Counted, Sited, CandidateTarget, Drained, Served,
     Servable, Planned, Closing, Accounted, Kept, ProgressIsTruthful,
     SchemaIsStableForRequests
<1>2. OnDisk'
  BY DEF Inv, PersistSync, DirectorySynced, OnDisk, Writing, Candidate,
     CandidateTarget, Sited, TypeOK, Sites
<1>3. DataSafe'
  BY DEF Inv, PersistSync, DirectorySynced, DataSafe, DataBeforeRecord,
     Closing, CandidateTarget, OnDisk
<1> QED
  BY <1>1, <1>2, <1>3 DEF Inv

\* The service is closed, so nothing is claimed of the record in memory.
LEMMA PersistUncertainInv == ASSUME Inv, PersistUncertain PROVE Core'
<1>1. /\ TypeOK' /\ Slot' /\ Resolved' /\ Counted' /\ Sited' /\ Drained'
      /\ Served' /\ DataSafe' /\ Planned' /\ Accounted' /\ Kept'
      /\ ProgressIsTruthful' /\ SchemaIsStableForRequests'
  BY DEF Inv, PersistUncertain, DistrustRecord, TypeOK, Phases, Steps, Slot,
     Resolved, Counted, InFlight, Sited, CandidateTarget, Drained, Served,
     DataSafe, DataBeforeRecord, Closing, Planned, Accounted, Kept,
     ProgressIsTruthful, SchemaIsStableForRequests
<1>2. Unlisted' /\ OnDisk'
  BY DEF Inv, PersistUncertain, DistrustRecord, Unlisted, Slot, OnDisk
<1> QED
  BY <1>1, <1>2 DEF Inv

\* The adopted record carries a reload marker, so nothing is served from it.
LEMMA AdoptedInv == ASSUME Inv, Adopted PROVE Core'
<1>1. /\ Writing \in Record /\ Writing # None /\ Writing.target = CandidateTarget
      /\ Writing.limits = request.limits /\ Writing.recovery = "reload"
  BY WritingIsRecord, WritingFields DEF Adopted
<1>2. CandidateConfig # None /\ CandidateTarget \in Targets
  BY <1>1, NoneIsNothing, PersistingIsPublishing
     DEF CandidateConfig, Config, Adopted, PublishRequest, Record
<1>3. /\ Counted' /\ Drained' /\ OnDisk' /\ Planned' /\ Accounted'
      /\ ProgressIsTruthful'
  BY DEF Inv, Adopted, Counted, InFlight, Drained, OnDisk, Planned, Closing,
     Accounted, ProgressIsTruthful
<1>4. Unlisted'
  BY DEF Inv, Adopted, Unlisted, Slot
<1>5. Served' /\ DataSafe' /\ SchemaIsStableForRequests'
  BY DEF Inv, Adopted, Served, Slot, Sited, InFlight, Drained, DataSafe,
     DataBeforeRecord, Closing, Writing, Candidate, SchemaIsStableForRequests
<1>6. TypeOK'
  BY <1>1, NoneIsNothing
     DEF Inv, Adopted, CandidateConfig, TypeOK, Slot, CandidateTarget, Record,
        Config, PublishRequest, Steps
<1>7. Slot'
  BY <1>1 DEF Inv, Adopted, Slot
<1>8. Resolved'
  BY <1>1, <1>2 DEF Adopted, CandidateConfig, Resolved
<1>9. Sited'
  BY <1>1 DEF Inv, Adopted, CandidateConfig, Sited, CandidateTarget,
     SameTarget, Slot, TypeOK
<1>10. Kept'
  BY <1>1 DEF Adopted, Kept, Inv, OnDisk
<1> QED
  BY <1>3, <1>4, <1>5, <1>6, <1>7, <1>8, <1>9, <1>10 DEF Inv

\* What is pending is newer than all that is committed, and an empty plan means
\* that no batch is unfinished.
LEMMA PreflightInv ==
    ASSUME Inv, NEW plan \in SUBSET Versions, Preflight(plan) PROVE Core'
<1>1. /\ TypeOK' /\ Slot' /\ Unlisted' /\ Resolved' /\ Counted' /\ Sited'
      /\ Planned'
  <2>1. TypeOK' /\ Slot' /\ Unlisted'
    BY DEF Inv, Preflight, Valid, Pending, TypeOK, Steps, Slot, Unlisted, InFlight
  <2>2. Resolved' /\ Counted' /\ Sited'
    BY DEF Inv, Preflight, TypeOK, Slot, InFlight, Resolved, Counted, Sited,
       CandidateTarget
  <2>3. Planned'
    BY DEF Inv, Preflight, Valid, Pending, TypeOK, Slot, CandidateTarget, Planned
  <2> QED
    BY <2>1, <2>2, <2>3
<1>2. Drained' /\ Served' /\ OnDisk' /\ DataSafe' /\ Kept'
  BY DEF Inv, Preflight, Valid, Pending, TypeOK, Slot, InFlight, Sited,
     CandidateTarget, Drained, Served, Servable, OnDisk, DataSafe,
     DataBeforeRecord, Kept
<1>3. ProgressIsTruthful' /\ SchemaIsStableForRequests'
  BY DEF Inv, Preflight, Valid, Pending, TypeOK, Slot, InFlight, Drained,
     CandidateTarget, ProgressIsTruthful, SchemaIsStableForRequests
<1>4. Accounted'
  BY DEF Inv, Preflight, Accounted, Closing, CandidateTarget, Slot, Sited,
     NoProgress, Unlisted, TypeOK
<1> QED
  BY <1>1, <1>2, <1>3, <1>4 DEF Inv

\* Admission closes before the blocker is written.
LEMMA BeginMigrationInv == ASSUME Inv, BeginMigration PROVE Core'
<1>1. /\ TypeOK' /\ Unlisted' /\ Resolved' /\ Counted' /\ Drained'
      /\ Served' /\ DataSafe' /\ Planned' /\ Accounted' /\ Kept'
      /\ SchemaIsStableForRequests'
  BY DEF Inv, BeginMigration, CloseAdmission, TypeOK, Phases, Sites, Steps,
     Unlisted, InFlight, Resolved, Counted, Drained, Served, Servable,
     DataSafe, DataBeforeRecord, Closing, CandidateTarget, Planned,
     Accounted, Kept, SchemaIsStableForRequests
<1>2. Slot' /\ Sited' /\ OnDisk'
  BY NoneIsNothing
     DEF Inv, BeginMigration, CloseAdmission, Slot, Sited,
        CandidateTarget, TypeOK, Sites, OnDisk
<1>3. ProgressIsTruthful'
  BY DEF Inv, BeginMigration, ProgressIsTruthful, CandidateTarget, Accounted
<1> QED
  BY <1>1, <1>2, <1>3 DEF Inv

\* The record in memory follows the disk: with the blocker, or with the reload
\* marker once the batch is complete.
LEMMA MarkedInv == ASSUME Inv, Marked PROVE Core'
<1>1. /\ Writing \in Record /\ Writing # None /\ Writing.target = CandidateTarget
      /\ record # None /\ Writing.target = record.target
      /\ Writing.limits = record.limits /\ Writing.recovery # "none"
  BY WritingIsRecord, WritingFields DEF Marked
<1>2. Counted' /\ Drained' /\ OnDisk' /\ SchemaIsStableForRequests'
  BY DEF Inv, Marked, MarkRecord, Counted, InFlight, Drained, OnDisk,
     Writing, SchemaIsStableForRequests
<1>3. Unlisted'
  BY DEF Inv, Marked, Unlisted, Slot
<1>4. Served' /\ DataSafe' /\ Planned' /\ Accounted' /\ ProgressIsTruthful'
  BY DEF Inv, Marked, MarkRecord, Served, Slot, Sited, CandidateTarget,
     Drained, DataSafe, DataBeforeRecord, Closing, Writing, Planned,
     Accounted, ProgressIsTruthful
<1>5. TypeOK'
  BY <1>1, NoneIsNothing
     DEF Inv, Marked, MarkRecord, TypeOK, Slot, CandidateTarget, Record,
        Config, PublishRequest, Steps
<1>6. Slot'
  BY <1>1 DEF Inv, Marked, MarkRecord, Slot
<1>7. Resolved'
  BY <1>1 DEF Marked, MarkRecord, Resolved, Inv
<1>8. Sited'
  BY <1>1 DEF Inv, Marked, MarkRecord, Sited, CandidateTarget,
     SameTarget, Slot, TypeOK
<1>9. Kept'
  BY <1>1 DEF Marked, MarkRecord, Kept, Inv, OnDisk
<1> QED
  BY <1>2, <1>3, <1>4, <1>5, <1>6, <1>7, <1>8, <1>9 DEF Inv

\* The history is still the expected one.
LEMMA RecheckInv == ASSUME Inv, Recheck PROVE Core'
BY DEF Inv, Recheck, TypeOK, Steps, Slot, Unlisted, InFlight, Resolved,
   Counted, Sited, CandidateTarget, Drained, Served, OnDisk, DataSafe,
   DataBeforeRecord, Planned, Accounted, Kept, ProgressIsTruthful,
   SchemaIsStableForRequests

\* The smallest pending version is begun.
LEMMA StartFileInv == ASSUME Inv, StartFile PROVE Core'
<1>1. /\ TypeOK' /\ Slot' /\ Unlisted' /\ Resolved' /\ Counted' /\ Sited'
      /\ Drained' /\ Served' /\ OnDisk' /\ DataSafe' /\ Planned' /\ Kept'
      /\ SchemaIsStableForRequests'
  BY DEF Inv, StartFile, NextFile, TypeOK, Steps, Slot, Unlisted, InFlight,
     Resolved, Counted, Sited, CandidateTarget, Drained, Served, OnDisk,
     DataSafe, DataBeforeRecord, Planned, Kept, SchemaIsStableForRequests
<1>2. Accounted'
  BY NoneIsNothing
     DEF Inv, StartFile, Accounted, Closing, CandidateTarget, Sited, Sites
<1>3. ProgressIsTruthful'
  BY DEF Inv, StartFile, ProgressIsTruthful, CandidateTarget, Accounted
<1> QED
  BY <1>1, <1>2, <1>3 DEF Inv

\* The one step that changes a schema: no request is in flight, and a crash
\* leaves the blocker.
LEMMA ApplyCommitsInv == ASSUME Inv, ApplyCommits PROVE Core'
<1>1. /\ Slot' /\ Unlisted' /\ Resolved' /\ Counted' /\ Sited' /\ Drained'
      /\ OnDisk' /\ Kept' /\ ProgressIsTruthful'
  BY DEF Inv, ApplyCommits, Slot, Unlisted, InFlight, Resolved, Counted,
     Sited, CandidateTarget, Drained, OnDisk, Kept, ProgressIsTruthful
<1>2. DataSafe'
  BY DEF Inv, ApplyCommits, DataSafe, DataBeforeRecord, Closing, CandidateTarget,
     Sited, TypeOK
<1>3. Planned'
  BY VersionsArePositive
     DEF Inv, ApplyCommits, Planned, Closing, CandidateTarget, Sited, TypeOK
<1>4. Accounted'
  BY NoneIsNothing
     DEF Inv, ApplyCommits, Accounted, Closing, CandidateTarget, Sited, TypeOK,
        Record
<1>5. TypeOK' /\ Served' /\ SchemaIsStableForRequests'
  BY DEF Inv, ApplyCommits, TypeOK, Record, Steps, Sited, CandidateTarget,
     Planned, Served, InFlight, Drained, SchemaIsStableForRequests
<1> QED
  BY <1>1, <1>2, <1>3, <1>4, <1>5 DEF Inv

\* A committed version moves from the pending to the applied ones.
LEMMA FileAppliedInv == ASSUME Inv, FileApplied PROVE Core'
<1>1. progress.now \in Versions /\ progress.applied \subseteq Versions
  BY DEF Inv, TypeOK, FileApplied, CommitReply, Planned
<1>2. progress' \in [applied: SUBSET Versions, now: Versions \cup {None},
                     failed: Versions \cup {None}]
  BY <1>1 DEF Inv, TypeOK, FileApplied
<1>3. pc' \in Steps
  BY DEF FileApplied, Steps
<1>4. /\ Slot' /\ Unlisted' /\ Resolved' /\ Counted' /\ Sited' /\ Drained'
      /\ Served' /\ OnDisk' /\ DataSafe' /\ Planned' /\ Kept'
      /\ SchemaIsStableForRequests'
  BY DEF Inv, FileApplied, CommitReply, Slot, Unlisted, InFlight, Resolved,
     Counted, Sited, CandidateTarget, Drained, Served, OnDisk, DataSafe,
     DataBeforeRecord, Planned, Kept, SchemaIsStableForRequests
<1>5. Accounted'
  BY NoneIsNothing
     DEF Inv, FileApplied, CommitReply, Accounted, Closing,
        CandidateTarget, Sited, Sites
<1>6. ProgressIsTruthful'
  BY DEF Inv, FileApplied, CommitReply, ProgressIsTruthful, CandidateTarget,
     Accounted
<1>7. TypeOK'
  BY <1>2, <1>3 DEF Inv, TypeOK, FileApplied
<1> QED
  BY <1>4, <1>5, <1>6, <1>7 DEF Inv

\* The version whose outcome is open is reported as failed.
LEMMA ApplyFailsInv == ASSUME Inv, ApplyFails PROVE Core'
<1>1. progress' \in [applied: SUBSET Versions, now: Versions \cup {None},
                     failed: Versions \cup {None}]
  BY DEF Inv, TypeOK, ApplyFails
<1>2. pc' \in Steps
  BY DEF ApplyFails, Steps
<1>3. /\ Slot' /\ Unlisted' /\ Resolved' /\ Counted' /\ Sited' /\ Drained'
      /\ Served' /\ OnDisk' /\ DataSafe' /\ Planned' /\ Kept'
      /\ SchemaIsStableForRequests'
  BY DEF Inv, ApplyFails, Slot, Unlisted, InFlight, Resolved, Counted, Sited,
     Drained, Served, OnDisk, DataSafe, DataBeforeRecord, Closing, Planned,
     Kept, SchemaIsStableForRequests
<1>4. Accounted'
  BY NoneIsNothing DEF Inv, ApplyFails, Accounted, Closing, Sited, Sites
<1>5. ProgressIsTruthful'
  BY DEF Inv, ApplyFails, ProgressIsTruthful, CandidateTarget, Accounted
<1>6. TypeOK'
  BY <1>1, <1>2 DEF Inv, TypeOK, ApplyFails
<1> QED
  BY <1>3, <1>4, <1>5, <1>6 DEF Inv

\* The batch is complete when the blocker is given up.
LEMMA EndMigrationInv == ASSUME Inv, EndMigration PROVE Core'
<1>1. /\ TypeOK' /\ Unlisted' /\ Resolved' /\ Counted' /\ Drained'
      /\ Served' /\ OnDisk' /\ DataSafe' /\ Planned' /\ Kept'
      /\ SchemaIsStableForRequests'
  BY DEF Inv, EndMigration, TypeOK, Sites, Steps, Unlisted, InFlight,
     Resolved, Counted, Drained, Served, OnDisk, CandidateTarget, DataSafe,
     DataBeforeRecord, Closing, Planned, Kept, SchemaIsStableForRequests
<1>2. Slot' /\ Sited' /\ Accounted' /\ ProgressIsTruthful'
  BY NoneIsNothing
     DEF Inv, EndMigration, Slot, Sited, CandidateTarget, Sites,
        Accounted, Closing, ProgressIsTruthful
<1> QED
  BY <1>1, <1>2 DEF Inv

\* A failure between the persist calls changes nothing but the step.
LEMMA StepFailsInv == ASSUME Inv, StepFails PROVE Core'
<1>1. TypeOK' /\ Slot' /\ Unlisted' /\ Resolved' /\ Counted' /\ Sited' /\ Drained'
  BY DEF Inv, StepFails, TypeOK, Steps, Slot, Unlisted, InFlight, Resolved,
     Counted, Sited, CandidateTarget, Drained
<1>2. /\ Served' /\ OnDisk' /\ DataSafe' /\ Kept' /\ SchemaIsStableForRequests'
  BY DEF Inv, StepFails, TypeOK, Slot, InFlight, Sited, CandidateTarget, Served,
     Servable, OnDisk, DataSafe, DataBeforeRecord, Closing, Kept,
     SchemaIsStableForRequests
<1>3. Planned' /\ Accounted' /\ ProgressIsTruthful'
  BY DEF Inv, StepFails, TypeOK, Slot, Sited, CandidateTarget, Closing, Planned,
     Accounted, ProgressIsTruthful
<1> QED
  BY <1>1, <1>2, <1>3 DEF Inv

\* The snapshot is loaded for the schema that is there.
LEMMA LoadInv == ASSUME Inv, Load PROVE Core'
<1>1. /\ Unlisted' /\ Resolved' /\ Counted' /\ Drained' /\ Served'
      /\ OnDisk' /\ DataSafe' /\ Planned' /\ Kept' /\ ProgressIsTruthful'
      /\ SchemaIsStableForRequests'
  BY DEF Inv, Load, Unlisted, InFlight, Resolved, Counted, Drained, Served,
     Servable, OnDisk, CandidateTarget, DataSafe, DataBeforeRecord, Closing,
     Planned, Kept, ProgressIsTruthful, SchemaIsStableForRequests
<1>2. TypeOK' /\ Slot' /\ Sited' /\ Accounted'
  BY NoneIsNothing
     DEF Inv, Load, TypeOK, Record, Snapshot, Sites, Steps, Slot, Sited,
        CandidateTarget, Accounted, Closing
<1> QED
  BY <1>1, <1>2 DEF Inv

\* The service opens with the record that is durable, the snapshot just loaded
\* and no unfinished batch.
LEMMA PublishedInv == ASSUME Inv, Published PROVE Core'
<1>1. /\ Writing \in Record /\ Writing # None /\ Writing.target = CandidateTarget
      /\ Writing.limits = request.limits /\ Writing.recovery = "none"
  BY WritingIsRecord, WritingFields DEF Published
<1>2. /\ CandidateTarget \in Targets /\ CandidateTarget # None
      /\ CandidateConfig # None
  BY <1>1, NoneIsNothing, PersistingIsPublishing
     DEF CandidateConfig, Config, Published, PublishRequest, Record
<1>3. /\ fresh = [target |-> CandidateTarget, schema |-> history[CandidateTarget]]
      /\ fresh # None
  BY <1>2, NoneIsNothing DEF Published, Inv, Sited, TypeOK, Snapshot
<1>4. CandidateTarget \notin unfinished /\ ~invalidRecord /\ toml = Writing
  BY DEF Published, Inv, Planned, Slot, OnDisk, Sited
<1>5. Servable'
  BY <1>1, <1>2, <1>3, <1>4 DEF Published, ReplaceSnapshot, Servable
<1>6. /\ Counted' /\ Drained' /\ Planned' /\ Accounted' /\ Kept'
      /\ ProgressIsTruthful'
  BY DEF Inv, Published, Counted, InFlight, Drained, Planned, Closing,
     Accounted, Kept, ProgressIsTruthful
<1>7. Unlisted' /\ OnDisk' /\ SchemaIsStableForRequests'
  BY DEF Inv, Published, Unlisted, InFlight, Slot, OnDisk,
     SchemaIsStableForRequests, Sited
<1>8. TypeOK' /\ DataSafe'
  BY DEF Inv, Published, ReplaceSnapshot, CandidateConfig, TypeOK, Record,
     Config, PublishRequest, Phases, Steps, Slot, Sited, CandidateTarget,
     OnDisk, DataSafe, DataBeforeRecord, Closing
<1>9. Slot'
  BY <1>1 DEF Inv, Published, Slot
<1>10. Resolved'
  BY <1>1, <1>2 DEF Published, CandidateConfig, Resolved
<1>11. Sited'
  BY <1>1 DEF Inv, Published, CandidateConfig, Sited, CandidateTarget, SameTarget,
     Slot, TypeOK
<1>12. Served'
  BY <1>4, <1>5 DEF Published, Served
<1> QED
  BY <1>6, <1>7, <1>8, <1>9, <1>10, <1>11, <1>12 DEF Inv

\* A phase left at publishing becomes recovery_required; a service given back
\* stays.
LEMMA FinishPublishInv == ASSUME Inv, FinishPublish PROVE Core'
<1>1. Finish /\ phase' \in Phases
  BY DEF Inv, TypeOK, FinishPublish, Phases
<1>2. /\ Unlisted' /\ Resolved' /\ Counted' /\ Sited' /\ Drained'
      /\ Served' /\ DataSafe' /\ Planned' /\ Accounted' /\ Kept'
      /\ ProgressIsTruthful' /\ SchemaIsStableForRequests'
  BY DEF Inv, FinishPublish, Finish, Unlisted, InFlight, Resolved, Counted,
     Sited, Drained, Served, Servable, DataSafe, DataBeforeRecord, Closing,
     Planned, Accounted, Kept, ProgressIsTruthful, SchemaIsStableForRequests
<1>3. Slot' /\ OnDisk'
  BY NoneIsNothing DEF Inv, FinishPublish, Finish, Slot, OnDisk
<1>4. TypeOK'
  BY <1>1, FinishTypes DEF Inv, TypeOK, FinishPublish
<1> QED
  BY <1>2, <1>3, <1>4 DEF Inv

\* The file is gone, and a crash may leave it or not.
LEMMA RemoveFileInv == ASSUME Inv, RemoveFile PROVE Core'
<1>1. /\ TypeOK' /\ Slot' /\ Unlisted' /\ Resolved' /\ Counted' /\ Sited'
      /\ Drained' /\ OnDisk' /\ DataSafe' /\ Planned' /\ Accounted'
      /\ ProgressIsTruthful' /\ SchemaIsStableForRequests'
  BY DEF Inv, RemoveFile, TypeOK, Steps, Slot, Unlisted, InFlight, Resolved,
     Counted, Sited, Drained, OnDisk, DataSafe, DataBeforeRecord, Closing,
     Planned, Accounted, ProgressIsTruthful, SchemaIsStableForRequests
<1>2. Kept'
  BY DEF Inv, RemoveFile, Kept, Slot
<1>3. Served'
  BY DEF Inv, RemoveFile, Served, Drained
<1> QED
  BY <1>1, <1>2, <1>3 DEF Inv

\* From here on a crash leaves no registration.
LEMMA RemoveSyncInv == ASSUME Inv, RemoveSync PROVE Core'
<1>1. /\ TypeOK' /\ Slot' /\ Unlisted' /\ Resolved' /\ Counted' /\ Sited'
      /\ Drained' /\ Served' /\ OnDisk' /\ Planned' /\ Accounted' /\ Kept'
      /\ ProgressIsTruthful' /\ SchemaIsStableForRequests'
  BY DEF Inv, RemoveSync, DirectorySynced, TypeOK, Steps, Slot, Unlisted,
     InFlight, Resolved, Counted, Sited, Drained, Served, OnDisk, Planned,
     Closing, Accounted, Kept, ProgressIsTruthful, SchemaIsStableForRequests
<1>2. DataSafe'
  BY DEF Inv, RemoveSync, DirectorySynced, DataSafe, DataBeforeRecord,
     Closing, OnDisk
<1> QED
  BY <1>1, <1>2 DEF Inv

\* The record in memory outlives a file that may be gone.
LEMMA RemoveFailsInv == ASSUME Inv, RemoveFails PROVE Core'
BY DEF Inv, RemoveFails, TypeOK, Steps, Slot, Unlisted, InFlight, Resolved,
   Counted, Sited, Drained, Served, OnDisk, DataSafe, DataBeforeRecord,
   Closing, Planned, Accounted, Kept, ProgressIsTruthful,
   SchemaIsStableForRequests

\* Nothing of the registration is left in memory.
LEMMA RemovedInv == ASSUME Inv, Removed PROVE Core'
<1>1. pc' \in Steps /\ invalidRecord' \in BOOLEAN
  BY DEF Removed, Steps
<1>2. /\ Slot' /\ Unlisted' /\ Resolved' /\ Counted' /\ Sited' /\ Drained'
      /\ Planned' /\ Accounted' /\ Kept'
  BY DEF Inv, Removed, Slot, Unlisted, InFlight, Resolved, Counted, Sited,
     Drained, Planned, Closing, Accounted, Kept
<1>3. OnDisk' /\ DataSafe' /\ ProgressIsTruthful'
  BY NoneIsNothing
     DEF Inv, Removed, OnDisk, Slot, DataSafe, DataBeforeRecord, Closing,
        Targets, ProgressIsTruthful
<1>4. Served' /\ SchemaIsStableForRequests'
  BY DEF Inv, Removed, Served, InFlight, Drained, SchemaIsStableForRequests
<1>5. TypeOK'
  BY <1>1 DEF Inv, TypeOK, Removed
<1> QED
  BY <1>2, <1>3, <1>4, <1>5 DEF Inv

\* The slot is given up and nothing is served.
LEMMA FinishUnregisterInv == ASSUME Inv, FinishUnregister PROVE Core'
<1>1. Finish /\ phase' \in Phases
  BY DEF Inv, TypeOK, FinishUnregister, Phases
<1>2. /\ Unlisted' /\ Resolved' /\ Counted' /\ Sited' /\ Drained'
      /\ Served' /\ DataSafe' /\ Planned' /\ Accounted' /\ Kept'
      /\ ProgressIsTruthful' /\ SchemaIsStableForRequests'
  BY DEF Inv, FinishUnregister, Finish, Unlisted, InFlight, Resolved,
     Counted, Sited, Drained, Served, DataSafe, DataBeforeRecord, Closing,
     Planned, Accounted, Kept, ProgressIsTruthful, SchemaIsStableForRequests
<1>3. Slot' /\ OnDisk'
  BY NoneIsNothing DEF Inv, FinishUnregister, Finish, Slot, OnDisk
<1>4. TypeOK'
  BY <1>1, FinishTypes DEF Inv, TypeOK, FinishUnregister
<1> QED
  BY <1>2, <1>3, <1>4 DEF Inv

\* An operation is accepted only while none is running and the record is
\* trusted.
LEMMA PublishInv ==
    ASSUME Inv, NEW req \in PublishRequest, Publish(req) PROVE Core'
<1>1. /\ Unlisted' /\ Resolved' /\ Counted' /\ Sited' /\ Drained'
      /\ DataSafe' /\ Planned' /\ Accounted' /\ SchemaIsStableForRequests'
  BY DEF Inv, Publish, Begin, CheckOpen, Unlisted, InFlight, Resolved,
     Counted, Sited, Drained, DataSafe, DataBeforeRecord, Closing, Planned,
     Accounted, SchemaIsStableForRequests
<1>2. Slot' /\ Served'
  BY NoneIsNothing DEF Inv, Publish, Begin, Slot, Served, Servable
<1>3. TypeOK' /\ OnDisk' /\ Kept'
  BY DEF Inv, Publish, Begin, CheckOpen, NoProgress, TypeOK, Steps, Slot,
     OnDisk, Served, Servable, Unlisted, Kept
<1>4. ProgressIsTruthful'
  BY NoneIsNothing DEF Inv, Publish, Begin, Slot, Sites, ProgressIsTruthful
<1> QED
  BY <1>1, <1>2, <1>3, <1>4 DEF Inv

\* An unregistration closes admission in the step that accepts it.
LEMMA UnregisterInv == ASSUME Inv, Unregister PROVE Core'
<1>1. /\ TypeOK' /\ Slot' /\ Unlisted' /\ Resolved' /\ Counted' /\ Sited'
      /\ Drained' /\ Served' /\ DataSafe' /\ Planned' /\ Accounted'
      /\ ProgressIsTruthful' /\ SchemaIsStableForRequests'
  BY DEF Inv, Unregister, Begin, CheckOpen, NoProgress, TypeOK, Phases,
     Steps, Slot, Unlisted, InFlight, Resolved, Counted, Sited, Drained,
     Served, DataSafe, DataBeforeRecord, Closing, Planned, Accounted,
     ProgressIsTruthful, SchemaIsStableForRequests
<1>2. OnDisk' /\ Kept'
  BY DEF Inv, Unregister, Begin, OnDisk, Slot, Kept
<1> QED
  BY <1>1, <1>2 DEF Inv

\* A request is admitted to the schema its snapshot was loaded for.
LEMMA AdmitInv == ASSUME Inv, NEW r \in Requests, Admit(r) PROVE Core'
<1>1. [target |-> resources, schema |-> snapshot.schema] # None
  BY NoneIsNothing DEF Inv, TypeOK, Admit, Served, Servable, Snapshot
<1>2. /\ Slot' /\ Unlisted' /\ Resolved' /\ Sited' /\ Drained' /\ Served'
      /\ DataSafe' /\ Planned' /\ Accounted' /\ Kept'
      /\ ProgressIsTruthful'
  BY DEF Inv, Admit, Enter, Slot, Unlisted, Resolved, Sited, CandidateTarget,
     SameTarget, ReusesResources, Drained, Served, Servable, DataSafe,
     DataBeforeRecord, Closing, Planned, Accounted, Kept, ProgressIsTruthful
<1>3. OnDisk'
  BY DEF Inv, Admit, Enter, OnDisk, Writing, Candidate, CandidateTarget,
     Sited, TypeOK, Sites
<1>4. TypeOK' /\ SchemaIsStableForRequests'
  BY DEF Inv, Admit, Enter, TypeOK, Snapshot, Resolved, InFlight, Served,
     Servable, SchemaIsStableForRequests
<1>5. Counted'
  BY <1>1, EnterCounted DEF Admit, Enter
<1> QED
  BY <1>2, <1>3, <1>4, <1>5 DEF Inv

\* An export is admitted to the open database while no operation runs.
LEMMA ExportInv == ASSUME Inv, NEW r \in Requests, Export(r) PROVE Core'
<1>1. [target |-> resources, schema |-> history[resources]] # None
  BY NoneIsNothing DEF Inv, TypeOK, Export, Snapshot
<1>2. /\ TypeOK' /\ Slot' /\ Unlisted' /\ Resolved' /\ Sited' /\ Served'
      /\ DataSafe' /\ Planned' /\ Accounted' /\ Kept'
      /\ ProgressIsTruthful' /\ SchemaIsStableForRequests'
  <2>1. TypeOK' /\ Unlisted' /\ SchemaIsStableForRequests'
    BY DEF Inv, Export, Enter, TypeOK, Snapshot, Unlisted, InFlight,
       SchemaIsStableForRequests
  <2>2. Slot' /\ Resolved' /\ Sited' /\ Served'
    BY DEF Inv, Export, Enter, TypeOK, Slot, Unlisted, Resolved, Sited, Served,
       Servable
  <2>3. DataSafe' /\ Planned' /\ Accounted' /\ Kept' /\ ProgressIsTruthful'
    BY DEF Inv, Export, Enter, TypeOK, Slot, Unlisted, DataSafe, DataBeforeRecord,
       Closing, Planned, Accounted, Kept, ProgressIsTruthful
  <2> QED
    BY <2>1, <2>2, <2>3
<1>3. Drained' /\ OnDisk'
  BY DEF Inv, Export, Enter, Drained, Slot, OnDisk
<1>4. Counted'
  BY <1>1, EnterCounted DEF Export, Enter
<1> QED
  BY <1>2, <1>3, <1>4 DEF Inv

\* Only new calls are refused.
LEMMA StartShutdownInv == ASSUME Inv, StartShutdown PROVE Core'
<1>1. /\ TypeOK' /\ Slot' /\ Unlisted' /\ Resolved' /\ Counted' /\ Sited'
      /\ Drained' /\ Served' /\ DataSafe' /\ Planned' /\ Accounted'
      /\ Kept' /\ ProgressIsTruthful' /\ SchemaIsStableForRequests'
  <2>1. TypeOK' /\ Slot' /\ Unlisted' /\ Resolved' /\ Counted' /\ Sited'
    BY DEF Inv, StartShutdown, TypeOK, Slot, Unlisted, InFlight, Resolved,
       Counted, Sited, CandidateTarget, SameTarget, ReusesResources
  <2>2. Drained' /\ Served' /\ DataSafe' /\ SchemaIsStableForRequests'
    BY DEF Inv, StartShutdown, TypeOK, Slot, Unlisted, InFlight, Sited,
       CandidateTarget, SameTarget, Drained, Served, Servable, DataSafe,
       DataBeforeRecord, Closing, SchemaIsStableForRequests
  <2>3. Planned' /\ Accounted' /\ Kept' /\ ProgressIsTruthful'
    BY DEF Inv, StartShutdown, TypeOK, Slot, Unlisted, CandidateTarget, SameTarget,
       Closing, Planned, Accounted, Kept, ProgressIsTruthful
  <2> QED
    BY <2>1, <2>2, <2>3
<1>2. OnDisk'
  BY DEF Inv, StartShutdown, OnDisk, Writing, Candidate, CandidateTarget,
     Sited, TypeOK, Sites
<1> QED
  BY <1>1, <1>2 DEF Inv

\* The end of a request changes the count and its slot only.
LEMMA FinishRequestInv ==
    ASSUME Inv, NEW r \in Requests, FinishRequest(r) PROVE Core'
<1>1. active > 0 /\ Counted'
  BY LeaveCounted DEF FinishRequest
<1>2. /\ Slot' /\ Unlisted' /\ Resolved' /\ Sited' /\ Drained' /\ Served'
      /\ DataSafe' /\ Planned' /\ Accounted' /\ Kept'
      /\ ProgressIsTruthful' /\ SchemaIsStableForRequests'
  <2>1. Slot' /\ Unlisted' /\ Resolved' /\ Sited' /\ Drained' /\ Served'
    BY DEF Inv, FinishRequest, Slot, Unlisted, InFlight, Resolved, Sited,
       CandidateTarget, SameTarget, ReusesResources, Drained, Served, Servable
  <2>2. /\ DataSafe' /\ Planned' /\ Accounted' /\ Kept' /\ ProgressIsTruthful'
        /\ SchemaIsStableForRequests'
    BY DEF Inv, FinishRequest, InFlight, CandidateTarget, SameTarget, DataSafe,
       DataBeforeRecord, Closing, Planned, Accounted, Kept, ProgressIsTruthful,
       SchemaIsStableForRequests
  <2> QED
    BY <2>1, <2>2
<1>3. OnDisk'
  BY DEF Inv, FinishRequest, OnDisk, Writing, Candidate, CandidateTarget,
     Sited, TypeOK, Sites
<1>4. TypeOK'
  BY <1>1 DEF Inv, FinishRequest, TypeOK
<1>5. Counted'
  BY <1>1
<1> QED
  BY <1>2, <1>3, <1>4, <1>5 DEF Inv

\* The database is closed when nothing uses it any more.
LEMMA RetireInv == ASSUME Inv, Retire PROVE Core'
<1>1. InFlight = {} /\ InFlight' = {}
  BY NoneInFlight DEF Inv, Retire, Unlisted, NothingRuns, InFlight
<1>2. /\ TypeOK' /\ Slot' /\ Resolved' /\ Counted' /\ Drained' /\ Planned'
      /\ Accounted' /\ ProgressIsTruthful'
  BY DEF Inv, Retire, TypeOK, Phases, Slot, Resolved, Counted, InFlight,
     Drained, Planned, Closing, CandidateTarget, Accounted,
     ProgressIsTruthful
<1>3. Sited' /\ Served' /\ OnDisk' /\ DataSafe' /\ Kept'
  BY NoneIsNothing
     DEF Inv, Retire, NothingRuns, Sited, CandidateTarget, SameTarget,
        ReusesResources, Slot, Served, Servable, OnDisk, Writing, Candidate, TypeOK,
        Targets, Sites, DataSafe, DataBeforeRecord, Closing, Kept
<1>4. Unlisted'
  BY <1>1 DEF Inv, Retire, Unlisted, NothingRuns
<1>5. SchemaIsStableForRequests'
  BY <1>1 DEF SchemaIsStableForRequests
<1> QED
  BY <1>2, <1>3, <1>4, <1>5 DEF Inv

\* A killed process leaves the disk as it is seen.
LEMMA ExitInv == ASSUME Inv, Exit PROVE Core'
<1>1. Forget
  BY DEF Exit
<1>2. InFlight' = {}
  BY <1>1, ForgetTypes
<1>3. /\ Unlisted' /\ Resolved' /\ Sited' /\ Drained' /\ Served'
      /\ Planned' /\ Accounted' /\ Kept' /\ ProgressIsTruthful'
      /\ SchemaIsStableForRequests'
  BY DEF Inv, Exit, Forget, Finish, Unlisted, InFlight, Resolved, Sited,
     Drained, Served, Planned, Closing, Accounted, Kept, ProgressIsTruthful,
     SchemaIsStableForRequests
<1>4. Slot' /\ OnDisk' /\ DataSafe'
  BY NoneIsNothing
     DEF Inv, Exit, Forget, Finish, Slot, OnDisk, DataSafe,
        DataBeforeRecord, Closing, Targets
<1>5. TypeOK'
  BY <1>1, ForgetTypes, FinishTypes DEF Inv, TypeOK, Exit, Forget
<1>6. Counted'
  BY <1>1, <1>2, FS_EmptySet DEF Forget, Counted
<1> QED
  BY <1>3, <1>4, <1>5, <1>6 DEF Inv

\* Each content that may be left is true of the migrations and of data.db.
LEMMA PowerLossInv == ASSUME Inv, PowerLoss PROVE Core'
<1>1. Forget
  BY DEF PowerLoss
<1>2. InFlight' = {}
  BY <1>1, ForgetTypes
<1>3. /\ toml' \in Record \cup {None} /\ onCrash' \subseteq Record \cup {None}
      /\ dataFile' \in {"absent", "volatile", "durable"}
  BY DEF PowerLoss, Inv, TypeOK
<1>4. history' \in [Targets -> SUBSET Versions] /\ unfinished' \subseteq Targets
  BY DEF PowerLoss, Inv, TypeOK, Targets
<1>5. /\ Unlisted' /\ Resolved' /\ Sited' /\ Drained' /\ Served'
      /\ Planned' /\ Accounted' /\ Kept' /\ ProgressIsTruthful'
      /\ SchemaIsStableForRequests'
  BY DEF Inv, PowerLoss, Forget, Finish, Unlisted, InFlight, Resolved, Sited,
     Drained, Served, Planned, Closing, Accounted, Kept, ProgressIsTruthful,
     SchemaIsStableForRequests
<1>6. Slot' /\ OnDisk' /\ DataSafe'
  BY NoneIsNothing
     DEF Inv, PowerLoss, Forget, Finish, Slot, OnDisk, DataSafe,
        DataBeforeRecord, Closing, TypeOK, Targets
<1>7. TypeOK'
  BY <1>1, <1>3, <1>4, ForgetTypes, FinishTypes DEF Inv, TypeOK, PowerLoss, Forget
<1>8. Counted'
  BY <1>1, <1>2, FS_EmptySet DEF Forget, Counted
<1> QED
  BY <1>5, <1>6, <1>7, <1>8 DEF Inv

\* Wherever the program is, a loss of data.db changes nothing it has in hand.
LEMMA LoseDataInv == ASSUME Inv, LoseData PROVE Core'
<1>1. UNCHANGED <<toml, onCrash, history, outside, service, progress, pc, request,
                  adopting, previous, site, plans, unfinished, served, replaced>>
      /\ dataFile' = "absent" /\ dataLost' = TRUE /\ claimed' \in BOOLEAN
  BY DEF LoseData
<1>2. /\ TypeOK' /\ Slot' /\ Unlisted' /\ Resolved' /\ Counted' /\ Drained'
  BY <1>1 DEF Inv, TypeOK, Slot, Unlisted, InFlight, Resolved, Counted, Drained
<1>3. OnDisk'
  BY <1>1 DEF Inv, OnDisk, Writing, Candidate, CandidateTarget
<1>4. Sited' /\ Served' /\ DataSafe'
  BY <1>1 DEF Inv, Sited, CandidateTarget, SameTarget, ReusesResources, Served,
     Servable, DataSafe, DataBeforeRecord, Closing
<1>5. /\ Planned' /\ Accounted' /\ Kept' /\ ProgressIsTruthful'
      /\ SchemaIsStableForRequests'
  BY <1>1 DEF Inv, Planned, Closing, Accounted, Kept, CandidateTarget,
     ProgressIsTruthful, SchemaIsStableForRequests, InFlight
<1> QED
  BY <1>2, <1>3, <1>4, <1>5 DEF Inv

\* Without a file there is no entry.
LEMMA OpenEmptyInv == ASSUME Inv, OpenEmpty PROVE Core'
<1>1. /\ TypeOK' /\ Slot' /\ Unlisted' /\ Resolved' /\ Counted' /\ Sited'
      /\ Drained' /\ Served' /\ DataSafe' /\ Planned' /\ Accounted'
      /\ Kept' /\ ProgressIsTruthful' /\ SchemaIsStableForRequests'
  BY DEF Inv, OpenEmpty, Open, TypeOK, Slot, Unlisted, InFlight, Resolved,
     Counted, Sited, Drained, Served, DataSafe, DataBeforeRecord, Closing,
     Planned, Accounted, Kept, ProgressIsTruthful, SchemaIsStableForRequests
<1>2. OnDisk'
  BY DEF Inv, OpenEmpty, Open, OnDisk, Writing, Candidate, CandidateTarget,
     Sited, TypeOK, Sites
<1> QED
  BY <1>1, <1>2 DEF Inv

\* An unreadable file gives an entry that is not trusted.
LEMMA OpenInvalidInv == ASSUME Inv, OpenInvalid PROVE Core'
<1>1. listed' = TRUE
  BY Zenon DEF OpenInvalid, Open
<1>2. /\ TypeOK' /\ Resolved' /\ Counted' /\ Sited' /\ Drained'
      /\ DataSafe' /\ Planned' /\ Accounted' /\ Kept'
      /\ ProgressIsTruthful' /\ SchemaIsStableForRequests'
  <2>1. TypeOK' /\ Resolved' /\ Counted'
    BY DEF Inv, OpenInvalid, Open, TypeOK, Resolved, Counted, InFlight
  <2>2. Sited' /\ Drained' /\ DataSafe'
    BY DEF Inv, OpenInvalid, Open, TypeOK, Sited, CandidateTarget, SameTarget,
       ReusesResources, InFlight, Drained, DataSafe, DataBeforeRecord, Closing
  <2>3. Planned' /\ Accounted' /\ Kept'
    BY DEF Inv, OpenInvalid, Open, TypeOK, Slot, Unlisted, CandidateTarget, Closing,
       Planned, Accounted, Kept
  <2>4. ProgressIsTruthful' /\ SchemaIsStableForRequests'
    BY DEF Inv, OpenInvalid, Open, TypeOK, CandidateTarget, InFlight,
       ProgressIsTruthful, SchemaIsStableForRequests
  <2> QED
    BY <2>1, <2>2, <2>3, <2>4
<1>3. OnDisk'
  BY DEF Inv, OpenInvalid, Open, OnDisk, Writing, Candidate, CandidateTarget,
     Sited, TypeOK, Sites
<1>4. Slot' /\ Served'
  BY DEF Inv, OpenInvalid, Open, Slot, Unlisted, Served
<1>5. Unlisted'
  BY <1>1 DEF Inv, OpenInvalid, Open, Unlisted
<1> QED
  BY <1>2, <1>3, <1>4, <1>5 DEF Inv

\* The record is read, its database still closed.
LEMMA ReadRecordInv == ASSUME Inv, ReadRecord PROVE Core'
<1>1. listed' = TRUE
  BY OpenLists DEF ReadRecord
<1>2. TypeOK' /\ Slot' /\ Counted' /\ Drained' /\ SchemaIsStableForRequests'
  BY DEF Inv, ReadRecord, Open, TypeOK, Record, Config,
     Slot, Counted, InFlight, Drained, SchemaIsStableForRequests
<1>3. OnDisk'
  BY DEF Inv, ReadRecord, Open, OnDisk, Writing, Candidate,
     CandidateTarget, Sited, TypeOK, Sites
<1>4. /\ Resolved' /\ Sited' /\ Served' /\ DataSafe' /\ Planned'
      /\ Accounted' /\ Kept' /\ ProgressIsTruthful'
  BY NoneIsNothing
     DEF Inv, ReadRecord, Open, Resolved, TypeOK, Record,
        Config, Slot, Unlisted, Sited, Served, OnDisk, DataSafe,
        DataBeforeRecord, Closing, Planned, Accounted, ProgressIsTruthful,
        Kept
<1>5. Unlisted'
  BY <1>1 DEF Inv, ReadRecord, Open, Unlisted
<1> QED
  BY <1>2, <1>3, <1>4, <1>5 DEF Inv

\* restore works alone, on a record that is the one on the disk.
LEMMA RestoringAlone ==
    ASSUME Inv, registry \in Restoring
    PROVE  /\ listed /\ current = None /\ pc = "idle" /\ site = None
           /\ served = None /\ InFlight = {} /\ resources = None
           /\ phase # "ready" /\ ~invalidRecord
           /\ record # None /\ record \in Record /\ toml = record
           /\ config = [target |-> record.target, limits |-> record.limits]
BY DEF Inv, Restored, Unlisted, Slot, TypeOK, Resolved

\* What restore leaves alone in each of its steps.
RestoreFrame ==
    UNCHANGED <<toml, onCrash, listed, active, inflight, current, record, config,
                invalidRecord, progress, pc, request, adopting, previous, site,
                plans, served, dataLost>>

\* Without a task, the parts of the invariant that speak of one hold.
LEMMA RestoreParts ==
    ASSUME Inv, registry \in Restoring, RestoreFrame
    PROVE  Slot' /\ Sited' /\ Planned' /\ Accounted' /\ Kept' /\ ProgressIsTruthful'
           /\ Counted' /\ InFlight' = {}
<1>1. /\ current' = None /\ pc' = "idle" /\ site' = None /\ served' = None
      /\ InFlight' = {} /\ invalidRecord' = invalidRecord /\ active' = active
  BY RestoringAlone DEF RestoreFrame, InFlight
<1>2. Slot' /\ Planned' /\ Accounted' /\ Kept' /\ ProgressIsTruthful'
  BY <1>1, NoneIsNothing
     DEF Slot, Planned, Closing, Accounted, Kept, ProgressIsTruthful
<1>3. Sited'
  BY <1>1, NoneIsNothing DEF Sited
<1>4. Counted'
  BY <1>1, RestoringAlone DEF Inv, Counted
<1> QED
  BY <1>1, <1>2, <1>3, <1>4

\* restore claims and opens data.db, or gives it up: nothing is installed.
LEMMA RestoreInv ==
    ASSUME Inv, RestoreClaim \/ RestoreOpen \/ OpenUnavailable PROVE Core'
<1>1. /\ registry \in Restoring /\ registry' \in Restoring \cup {"open"}
      /\ RestoreFrame /\ UNCHANGED <<phase, resources, snapshot>>
      /\ ReachData \/ UNCHANGED <<dataFile, history, unfinished>>
      /\ claimed' \in BOOLEAN /\ replaced' \in BOOLEAN
  BY DEF Inv, TypeOK, RestoreClaim, RestoreOpen, OpenUnavailable, EndRestore,
     Restore, ClaimData, ReachData, Registered, RestoreFrame
<1>2. /\ dataFile' \in {"absent", "volatile", "durable"}
      /\ history' \in [Targets -> SUBSET Versions]
      /\ unfinished' \subseteq unfinished
      /\ dataFile = "durable" => dataFile' = "durable"
  BY <1>1 DEF Inv, TypeOK, ReachData
<1>3. TypeOK'
  BY <1>1, <1>2 DEF Inv, TypeOK, RestoreFrame
<1>4. Unlisted' /\ Resolved' /\ Drained' /\ Served'
  BY <1>1, RestoringAlone
     DEF Inv, Unlisted, Resolved, Drained, Served, RestoreFrame
<1>5. OnDisk' /\ DataSafe'
  BY <1>1, <1>2, RestoringAlone
     DEF Inv, OnDisk, DataSafe, DataBeforeRecord, Closing, RestoreFrame
<1>6. SchemaIsStableForRequests'
  BY <1>1, RestoreParts DEF SchemaIsStableForRequests
<1> QED
  BY <1>1, <1>3, <1>4, <1>5, <1>6, RestoreParts DEF Inv

\* The database is open for recovery, or served: a record without a marker
\* names a completely migrated target.
LEMMA OpenInv == ASSUME Inv, OpenRecovering \/ OpenReady PROVE Core'
<1>1. /\ registry \in Restoring /\ registry' = "open"
      /\ RestoreFrame /\ UNCHANGED <<dataFile, history, unfinished>>
      /\ claimed' \in BOOLEAN /\ replaced' \in BOOLEAN
      /\ resources' = record.target
  BY DEF OpenRecovering, OpenReady, OpenResources, EndRestore, Restore, RestoreFrame
<1>2. \/ UNCHANGED <<phase, snapshot>>
      \/ /\ record.recovery = "none" /\ phase' = "ready"
         /\ snapshot' = [target |-> record.target, schema |-> history[record.target]]
  BY DEF OpenRecovering, OpenReady, NoRecovery
<1>3. record.target \in Targets /\ record.target # None
  BY <1>1, RestoringAlone, NoneIsNothing DEF Record
<1>4. [target |-> record.target, schema |-> history[record.target]] \in Snapshot
  BY <1>3 DEF Inv, TypeOK, Snapshot
<1>5. TypeOK'
  <2>1. snapshot' \in Snapshot \cup {None} /\ phase' \in Phases
    BY <1>2, <1>4 DEF Inv, TypeOK, Phases
  <2> QED
    BY <1>1, <1>3, <2>1 DEF Inv, TypeOK, RestoreFrame
<1>6. Unlisted' /\ Resolved' /\ Drained'
  BY <1>1, RestoringAlone
     DEF Inv, Unlisted, Resolved, Drained, RestoreFrame
<1>7. OnDisk' /\ DataSafe'
  BY <1>1, RestoringAlone, NoneIsNothing
     DEF Inv, OnDisk, DataSafe, DataBeforeRecord, Closing, RestoreFrame
<1>8. SchemaIsStableForRequests'
  BY <1>1, RestoreParts DEF SchemaIsStableForRequests
<1>9. Served'
  <2>1. record.recovery = "none" => record.target \notin unfinished
    BY <1>1, RestoringAlone DEF Inv, OnDisk
  <2>2. snapshot' # None \/ phase' # "ready"
    BY <1>1, <1>2, <1>4, RestoringAlone, NoneIsNothing
  <2> QED
    BY <1>1, <1>2, <1>3, <2>1, <2>2, RestoringAlone
       DEF Served, Servable, RestoreFrame
<1> QED
  BY <1>1, <1>5, <1>6, <1>7, <1>8, <1>9, RestoreParts DEF Inv

-----------------------------------------------------------------------------
(* The opening of data.db: what restore and the attempts rely on. *)

\* The steps of a task are taken outside restore; before the attempt has opened
\* data.db, and after it, nothing was created in place of a registered file.
LEMMA TaskAlone ==
    ASSUME Inv, current # None
    PROVE  /\ registry \notin Restoring
           /\ replaced => pc \in {"opened", "failed"}
BY DEF Inv, Restored, Refused

\* A task at a step has the slot.
LEMMA TaskHasSlot ==
    ASSUME Inv, TaskStep
    PROVE  current # None /\ registry' = registry
<1>1. registry' = registry
  BY DEF TaskStep, Persist, Migrate, Prepare, PrepareFails, Connect, ClaimFile,
     OpenDatabase, CheckHandle, OpenFails, KeepTarget, ChangeTarget, Drain, SyncData,
     SyncDataFails, PersistRename, PersistFails, PersistSync, PersistUncertain,
     Adopted, Preflight, BeginMigration, Marked, Recheck, StartFile, ApplyCommits,
     FileApplied, ApplyFails, EndMigration, StepFails, Load, Published,
     FinishPublish, RemoveFile, RemoveSync, RemoveFails, Removed, FinishUnregister
<1>2. pc # "idle"
  BY DEF TaskStep, Persist, Migrate, Prepare, PrepareFails, Connect, ClaimFile,
     OpenDatabase, CheckHandle, OpenFails, KeepTarget, ChangeTarget, Drain, SyncData,
     SyncDataFails, PersistRename, PersistFails, PersistSync, PersistUncertain,
     Adopted, Preflight, BeginMigration, Marked, Recheck, StartFile, ApplyCommits,
     FileApplied, CommitReply, ApplyFails, EndMigration, StepFails, Load, Published,
     FinishPublish, RemoveFile, RemoveSync, RemoveFails, Removed, FinishUnregister
<1> QED
  BY <1>1, <1>2 DEF Inv, Slot

\* claim_file creates data.db only where no registration names it; the open
\* that follows may create it again, but then it is not the claimed file.
LEMMA OpeningRefused ==
    ASSUME Inv, ClaimFile \/ OpenDatabase \/ CheckHandle \/ OpenFails
    PROVE  Refused'
<1>1. pc \in Opening /\ UNCHANGED <<resources, registry>>
  BY DEF ClaimFile, OpenDatabase, CheckHandle, OpenFails
<1>2. /\ current = "publish" /\ registry \notin Restoring
      /\ resources # CandidateTarget /\ ~invalidRecord /\ listed
  BY <1>1, OpensAnother, TaskAlone, NoneIsNothing
<1>3. CASE ClaimFile
  <2>1. CandidateTarget = Turso /\ ClaimData(~MustExist) /\ pc = "opening"
    BY <1>3 DEF ClaimFile
  <2>2. ~replaced
    BY <1>2, <2>1, TaskAlone, NoneIsNothing
  <2>3. Registered => MustExist
    BY <1>2, <2>1 DEF Registered, MustExist, Inv, OnDisk
  <2>4. dataFile' # "absent" /\ ~replaced'
    BY <2>1, <2>2, <2>3 DEF ClaimData, ReachData, Inv, TypeOK
  <2> QED
    BY <2>4 DEF Refused
<1>4. CASE OpenDatabase
  <2>1. /\ CandidateTarget = Turso /\ ReachData /\ pc' = "opened"
        /\ claimed' = claimed /\ ~replaced
    BY <1>2, <1>4, TaskAlone, NoneIsNothing DEF OpenDatabase, Inv, Sited
  <2>2. dataFile' # "absent" /\ (replaced' => dataFile = "absent")
    BY <2>1 DEF ReachData, Inv, TypeOK
  <2> QED
    BY <1>1, <1>2, <2>1, <2>2 DEF Refused, Inv
<1>5. CASE CheckHandle \/ OpenFails
  BY <1>1, <1>5 DEF CheckHandle, StillClaimed, OpenFails, Refused, Inv
<1> QED
  BY <1>3, <1>4, <1>5

\* No other step of a task has to do with the opening.
LEMMA TaskRefused == ASSUME Inv, TaskStep PROVE Refused'
<1>1. CASE FinishPublish \/ FinishUnregister
  BY <1>1 DEF FinishPublish, FinishUnregister, Finish, Refused
<1>2. CASE ClaimFile \/ OpenDatabase \/ CheckHandle \/ OpenFails
  BY <1>2, OpeningRefused
<1>3. CASE ~(FinishPublish \/ FinishUnregister)
           /\ ~(ClaimFile \/ OpenDatabase \/ CheckHandle \/ OpenFails)
  <2>1. /\ UNCHANGED <<claimed, replaced>>
        /\ dataFile' = dataFile \/ dataFile' = "durable"
    BY <1>3
       DEF TaskStep, Persist, Migrate, Prepare, PrepareFails, Connect, KeepTarget,
       ChangeTarget, Drain, SyncData, DataSynced,
       SyncDataFails, PersistRename, PersistFails, PersistSync, PersistUncertain,
       Adopted, Preflight, BeginMigration, Marked, Recheck, StartFile, ApplyCommits,
       FileApplied, ApplyFails, EndMigration, StepFails, Load, Published,
       RemoveFile, RemoveSync, RemoveFails, Removed
  <2>2. pc \notin {"opened", "failed"}
    BY <1>3
       DEF TaskStep, Persist, Migrate, Prepare, PrepareFails, Connect, KeepTarget,
       ChangeTarget, Drain, SyncData,
       SyncDataFails, PersistRename, PersistFails, PersistSync, PersistUncertain,
       Adopted, Preflight, BeginMigration, Marked, Recheck, StartFile, ApplyCommits,
       FileApplied, CommitReply, ApplyFails, EndMigration, StepFails, Load,
       Published, RemoveFile, RemoveSync, RemoveFails, Removed
  <2>3. ~replaced
    BY <2>2, TaskHasSlot, TaskAlone
  <2> QED
    BY <2>1, <2>3 DEF Refused, Inv
<1> QED
  BY <1>1, <1>2, <1>3

\* The opening parts of the invariant are kept by every step.
LEMMA OpeningInv == ASSUME Inv, [Next]_vars PROVE Restored' /\ Refused'
<1>1. CASE TaskStep
  BY <1>1, TaskHasSlot, TaskAlone, TaskRefused DEF Restored
<1>2. CASE Call
  <2>1. registry = "open" /\ registry' \in {"open", "closing"}
    BY <1>2 DEF Call, Publish, Unregister, Begin, CheckOpen, Admit, Export, Enter,
       StartShutdown
  <2>2. CASE \E req \in PublishRequest : Publish(req)
    BY <2>1, <2>2 DEF Publish, Begin, Restored, Refused, Inv, Slot
  <2>3. CASE Unregister
    BY <2>1, <2>3 DEF Unregister, Begin, Restored, Refused, Inv, Slot
  <2>4. CASE StartShutdown \/ \E r \in Requests : Admit(r) \/ Export(r)
    BY <2>1, <2>4 DEF StartShutdown, Admit, Export, Enter, Restored, Refused, Inv
  <2> QED
    BY <1>2, <2>2, <2>3, <2>4 DEF Call
<1>3. CASE \E r \in Requests : FinishRequest(r)
  <2>1. PICK r \in Requests : FinishRequest(r)
    BY <1>3
  <2>2. registry \notin Restoring
    BY <2>1, RestoringAlone DEF FinishRequest, InFlight
  <2> QED
    BY <2>1, <2>2 DEF FinishRequest, Restored, Refused, Inv
<1>4. CASE Retire
  <2>1. registry' = "closed" /\ pc = "idle" /\ registry = "closing"
    BY <1>4 DEF Retire, NothingRuns, Inv, Unlisted, Slot
  <2> QED
    BY <1>4, <2>1 DEF Retire, Restored, Refused, Inv
<1>5. CASE Exit \/ PowerLoss
  BY <1>5 DEF Exit, PowerLoss, Forget, Finish, Restored, Refused
<1>6. CASE LoseData
  BY <1>6 DEF LoseData, Restored, Refused, Inv, InFlight
<1>7. CASE OpenEmpty \/ OpenInvalid
  BY <1>7 DEF OpenEmpty, OpenInvalid, Open, Restored, Refused, Inv
<1>8. CASE ReadRecord
  BY <1>8 DEF ReadRecord, Open, Restored, Refused, Inv, Unlisted, InFlight
<1>9. CASE RestoreClaim
  <2>1. ~replaced
    BY <1>9, RestoringAlone DEF RestoreClaim, Restore, Inv, Refused
  <2> QED
    BY <1>9, <2>1 DEF RestoreClaim, Restore, ClaimData, ReachData, Restored, Refused,
       Inv, InFlight
<1>10. CASE RestoreOpen
  <2>1. ~replaced
    BY <1>10, RestoringAlone DEF RestoreOpen, Restore, Inv, Refused
  <2>2. resources' = None
    BY <1>10, RestoringAlone DEF RestoreOpen, Restore
  <2>3. Restored'
    BY <1>10 DEF RestoreOpen, Restore, Restored, Inv, InFlight
  <2>4. /\ dataFile' # "absent" /\ claimed' = claimed /\ registry' = "opened"
        /\ replaced' => dataFile = "absent"
    BY <1>10, <2>1 DEF RestoreOpen, Restore, ReachData, Inv, TypeOK
  <2> QED
    BY <2>2, <2>3, <2>4, NoneIsNothing DEF Refused, Inv, Targets
<1>11. CASE OpenUnavailable \/ OpenRecovering \/ OpenReady
  BY <1>11 DEF OpenUnavailable, OpenRecovering, OpenReady, OpenResources, EndRestore,
     Restore, Restored, Refused
<1>12. CASE UNCHANGED vars
  BY <1>12 DEF vars, Restored, Refused, Inv, InFlight
<1> QED
  BY <1>1, <1>2, <1>3, <1>4, <1>5, <1>6, <1>7, <1>8, <1>9, <1>10, <1>11, <1>12
     DEF Next, Process

-----------------------------------------------------------------------------
(* The invariant, and what follows from it. *)

\* The invariant holds when the program is first started.
LEMMA InitInv == ASSUME Init PROVE Inv
<1>1. InFlight = {}
  BY DEF Init, InFlight
<1>2. TypeOK
  <2>1. inflight \in [Requests -> Snapshot \cup {None}]
    BY DEF Init
  <2>2. progress \in [applied: SUBSET Versions, now: Versions \cup {None},
                     failed: Versions \cup {None}]
    BY DEF Init, NoProgress
  <2> QED
    BY <2>1, <2>2 DEF Init, TypeOK, Phases, Steps
<1>3. Counted
  BY <1>1, FS_EmptySet DEF Init, Counted
<1>4. /\ Slot /\ Unlisted /\ Resolved /\ Sited /\ Drained /\ Served /\ OnDisk
      /\ Planned /\ Accounted /\ Kept
  BY <1>1, NoneIsNothing
     DEF Init, Slot, Unlisted, Resolved, Sited, Drained, Served, OnDisk, Planned,
         Accounted, Kept, Closing, NoProgress
<1>5. DataSafe /\ ProgressIsTruthful /\ SchemaIsStableForRequests
  BY <1>1, NoneIsNothing
     DEF Init, DataSafe, DataBeforeRecord, Closing, ProgressIsTruthful,
         SchemaIsStableForRequests, Targets
<1>6. Restored /\ Refused
  BY DEF Init, Restored, Refused
<1> QED
  BY <1>2, <1>3, <1>4, <1>5, <1>6 DEF Inv

\* A step that changes nothing preserves it.
LEMMA StutterInv == ASSUME Inv, UNCHANGED vars PROVE Core'
<1>1. TypeOK' /\ Counted' /\ SchemaIsStableForRequests' /\ Unlisted' /\ Drained'
  BY DEF Inv, vars, TypeOK, Counted, SchemaIsStableForRequests, Unlisted, Drained,
         InFlight
<1>2. Slot' /\ Resolved' /\ Sited' /\ Served' /\ Kept'
  BY DEF Inv, vars, Slot, Resolved, Sited, Served, Servable, Kept, CandidateTarget,
         SameTarget, ReusesResources
<1>3. OnDisk' /\ DataSafe'
  <2>1. Writing' = Writing
    BY DEF vars, Writing, Candidate, CandidateTarget
  <2> QED
    BY <2>1 DEF Inv, vars, OnDisk, DataSafe, DataBeforeRecord, Closing,
                CandidateTarget
<1>4. Planned' /\ Accounted' /\ ProgressIsTruthful'
  BY DEF Inv, vars, Planned, Accounted, ProgressIsTruthful, Closing, CandidateTarget
<1> QED
  BY <1>1, <1>2, <1>3, <1>4 DEF Inv

\* Every step of the system preserves it.
LEMMA NextInv == ASSUME Inv, [Next]_vars PROVE Core'
<1>1. CASE TaskStep
  <2>1. CASE Persist
    BY <2>1, PersistRenameInv, PersistFailsInv, PersistSyncInv, PersistUncertainInv
       DEF Persist
  <2>2. CASE Migrate
    BY <2>2, PreflightInv, BeginMigrationInv, MarkedInv, RecheckInv, StartFileInv,
       ApplyCommitsInv, FileAppliedInv, ApplyFailsInv, EndMigrationInv DEF Migrate
  <2> QED
    BY <1>1, <2>1, <2>2, PrepareInv, PrepareFailsInv, ConnectInv, ReachDataInv,
       KeepTargetInv, ChangeTargetInv, DrainInv, SyncDataInv, SyncDataFailsInv, AdoptedInv,
       StepFailsInv, LoadInv, PublishedInv, FinishPublishInv, RemoveFileInv,
       RemoveSyncInv, RemoveFailsInv, RemovedInv, FinishUnregisterInv DEF TaskStep
<1>2. CASE Call
  BY <1>2, PublishInv, UnregisterInv, AdmitInv, ExportInv, StartShutdownInv DEF Call
<1>3. CASE \E r \in Requests : FinishRequest(r)
  BY <1>3, FinishRequestInv
<1>4. CASE Retire
  BY <1>4, RetireInv
<1>5. CASE Process
  BY <1>5, ExitInv, PowerLossInv, LoseDataInv, OpenEmptyInv, OpenInvalidInv,
     ReadRecordInv, RestoreInv, OpenInv DEF Process
<1>6. CASE UNCHANGED vars
  BY <1>6, StutterInv
<1> QED
  BY <1>1, <1>2, <1>3, <1>4, <1>5, <1>6 DEF Next

\* Whatever the registry, its clients and the machine do, the inductive
\* invariant holds.
THEOREM Invariance == Spec => []Inv
<1>1. Init => Inv
  BY InitInv
<1>2. Inv /\ [Next]_vars => Inv'
  BY NextInv, OpeningInv DEF Inv
<1> QED
  BY <1>1, <1>2, PTL DEF Spec

\* Every variable keeps its type.
THEOREM TypeCorrectness == Spec => []TypeOK
<1>1. Inv => TypeOK
  BY DEF Inv
<1> QED
  BY <1>1, Invariance, PTL

\* A database is only served when everything admit unwraps is there and agrees.
THEOREM Coherence == Spec => []ServiceIsCoherent
<1>1. Inv => ServiceIsCoherent
  BY DEF Inv, ServiceIsCoherent, Served, Servable, Resolved, OnDisk
<1> QED
  BY <1>1, Invariance, PTL

\* No migration changes the schema under a request that was admitted.
THEOREM SchemaStability == Spec => []SchemaIsStableForRequests
<1>1. Inv => SchemaIsStableForRequests
  BY DEF Inv
<1> QED
  BY <1>1, Invariance, PTL

\* A half applied batch of migrations is never served, whatever crashed.
THEOREM NoPartialBatch == Spec => []PartialBatchIsNotServed
<1>1. Inv => PartialBatchIsNotServed
  BY DEF Inv, PartialBatchIsNotServed, Served, Servable, Resolved
<1> QED
  BY <1>1, Invariance, PTL

\* While migrations are applied, a crash leaves nothing but the blocker.
THEOREM Blocker == Spec => []BlockerCoversMigration
<1>1. Inv => BlockerCoversMigration
  <2> SUFFICES ASSUME Inv, pc \in Migrating
               PROVE  /\ onCrash = {record} /\ record # None
                      /\ record.recovery = "migration"
                      /\ record.target = CandidateTarget
                      /\ InFlight = {}
    BY DEF BlockerCoversMigration
  <2>1. record # None /\ resources = CandidateTarget /\ current = "publish"
    BY DEF Inv, Sited, Slot, TypeOK
  <2>2. resources # None
    BY <2>1, CandidateIsTarget, NoneIsNothing DEF Inv
  <2> QED
    BY <2>1, <2>2 DEF Inv, Resolved, OnDisk, Drained
<1> QED
  BY <1>1, Invariance, PTL

\* The record in memory is the one on the disk, unless it is marked invalid, a
\* persist call is under way or the file was just removed.
THEOREM Mirror == Spec => []RecordMirrorsDisk
<1>1. Inv => RecordMirrorsDisk
  BY DEF Inv, RecordMirrorsDisk, OnDisk
<1> QED
  BY <1>1, Invariance, PTL

\* A crash never leaves a registration of an embedded database that is not on
\* the disk.
THEOREM DataFirst == Spec => []DataBeforeRecord
<1>1. Inv => DataBeforeRecord
  BY DEF Inv, DataSafe
<1> QED
  BY <1>1, Invariance, PTL

\* A publication that fails before it replaced the record gives back the
\* service it found.
THEOREM ServiceKept == Spec => []FailureKeepsService
<1>1. Inv => FailureKeepsService
  BY DEF Inv, FailureKeepsService, Kept
<1> QED
  BY <1>1, Invariance, PTL

\* A reported success survives a crash.
THEOREM Durability == Spec => []SuccessIsDurable
<1>1. Inv => SuccessIsDurable
  BY DEF Inv, SuccessIsDurable, OnDisk, Slot, TypeOK
<1> QED
  BY <1>1, Invariance, PTL

\* The progress of a publication is true of its migrations.
THEOREM Progress == Spec => []ProgressIsTruthful
<1>1. Inv => ProgressIsTruthful
  BY DEF Inv
<1> QED
  BY <1>1, Invariance, PTL

\* After a shutdown nothing of the database is in use.
THEOREM Quiet == Spec => []ClosedIsQuiet
<1>1. Inv => ClosedIsQuiet
  BY DEF Inv, ClosedIsQuiet, Unlisted
<1> QED
  BY <1>1, Invariance, PTL

-----------------------------------------------------------------------------
(* What a step may never do. *)

\* The steps that touch data.db or a history.
LEMMA DataSteps ==
    ASSUME [Next]_vars
    PROVE  \/ UNCHANGED <<dataFile, history>>
           \/ ClaimFile \/ OpenDatabase \/ SyncData \/ ApplyCommits \/ PowerLoss
           \/ LoseData \/ RestoreClaim \/ RestoreOpen
<1>1. CASE TaskStep
  BY <1>1 DEF TaskStep, Persist, Migrate, Prepare, PrepareFails, Connect,
     CheckHandle, OpenFails, KeepTarget, ChangeTarget, Drain,
     SyncDataFails, PersistRename, PersistFails, PersistSync, PersistUncertain,
     Adopted, Preflight, BeginMigration, Marked, Recheck, StartFile, FileApplied,
     ApplyFails, EndMigration, StepFails, Load, Published, FinishPublish,
     RemoveFile, RemoveSync, RemoveFails, Removed, FinishUnregister
<1>2. CASE Call \/ Retire \/ (\E r \in Requests : FinishRequest(r))
  BY <1>2 DEF Call, Publish, Unregister, Admit, Export, Enter, StartShutdown,
     Retire, FinishRequest
<1>3. CASE Process
  BY <1>3 DEF Process, Exit, OpenEmpty, OpenInvalid, OpenUnavailable,
     OpenRecovering, OpenReady, OpenResources, EndRestore, ReadRecord, Open
<1> QED
  BY <1>1, <1>2, <1>3 DEF Next, vars

\* A lost data.db is only ever created again by the open of an attempt that had
\* claimed it before, and that attempt, of a publication or of a restart, comes
\* to nothing.
THEOREM DataKept == Spec => RecreatedDataIsRefused
<1>1. ASSUME Inv, [Next]_vars, Registered, dataFile = "absent", dataFile' # "absent"
      PROVE  pc = "claimed" \/ registry = "claimed"
  <2>1. CASE ClaimFile
    <3>1. /\ current = "publish" /\ ~invalidRecord /\ listed
          /\ CandidateTarget = Turso /\ pc = "opening" /\ ~MustExist
      BY <1>1, <2>1, OpensAnother DEF ClaimFile, ClaimData
    <3> QED
      BY <1>1, <3>1 DEF Registered, MustExist, Inv, OnDisk
  <2>2. CASE RestoreClaim
    BY <1>1, <2>2 DEF RestoreClaim, ClaimData
  <2> QED
    BY <1>1, <2>1, <2>2, DataSteps
       DEF OpenDatabase, RestoreOpen, Restore, SyncData, ApplyCommits, PowerLoss,
           LoseData
<1>2. ASSUME Inv, Inv', [Next]_vars, replaced
      PROVE  resources' # Turso /\ pc' # "connected"
  <2>1. resources # Turso /\ ~claimed
        /\ (registry = "opened" \/ pc \in {"opened", "failed"})
    BY <1>2 DEF Inv, Refused
  <2>2. CASE replaced'
    BY <1>2, <2>2 DEF Inv, Refused, Restored, Slot
  <2>3. CASE ~replaced'
    <3>1. CASE TaskStep
      <4>1. pc \in {"opened", "failed"}
        BY <1>2, <3>1, TaskHasSlot, TaskAlone
      <4>2. FinishPublish \/ FinishUnregister \/ OpenFails
        BY <2>1, <3>1, <4>1
           DEF TaskStep, Persist, Migrate, Prepare, PrepareFails, Connect,
           ClaimFile, OpenDatabase, CheckHandle, StillClaimed, KeepTarget,
           ChangeTarget, Drain, SyncData,
           SyncDataFails, PersistRename, PersistFails, PersistSync, PersistUncertain,
           Adopted, Preflight, BeginMigration, Marked, Recheck, StartFile,
           ApplyCommits, FileApplied, CommitReply, ApplyFails, EndMigration,
           StepFails, Load, Published, RemoveFile, RemoveSync, RemoveFails, Removed
      <4> QED
        BY <2>1, <4>2 DEF FinishPublish, FinishUnregister, Finish, OpenFails
    <3>2. CASE Process
      <4>1. CASE Exit \/ PowerLoss
        BY <4>1, NoneIsNothing DEF Exit, PowerLoss, Forget, Finish, Targets
      <4>2. CASE OpenUnavailable
        BY <1>2, <2>1, <4>2, RestoringAlone
           DEF OpenUnavailable, EndRestore, Restore
      <4>3. CASE OpenRecovering \/ OpenReady
        <5>1. registry \in Restoring /\ (record.target = Turso => claimed)
              /\ resources' = record.target /\ pc' = pc
          BY <4>3 DEF OpenRecovering, OpenReady, OpenResources, StillClaimed,
             EndRestore, Restore
        <5> QED
          BY <1>2, <2>1, <5>1, RestoringAlone
      <4>4. CASE LoseData \/ OpenEmpty \/ OpenInvalid \/ ReadRecord
        BY <1>2, <2>3, <4>4 DEF LoseData, OpenEmpty, OpenInvalid, ReadRecord, Open
      <4>5. CASE RestoreClaim \/ RestoreOpen
        BY <2>1, <4>5, <1>2, RestoringAlone DEF RestoreClaim, RestoreOpen, Restore
      <4> QED
        BY <3>2, <4>1, <4>2, <4>3, <4>4, <4>5 DEF Process
    <3>3. CASE Call \/ Retire \/ (\E r \in Requests : FinishRequest(r))
               \/ UNCHANGED vars
      BY <1>2, <2>3, <3>3
         DEF Call, Publish, Unregister, Admit, Export, Enter, StartShutdown,
             Retire, FinishRequest, vars
    <3> QED
      BY <1>2, <3>1, <3>2, <3>3 DEF Next
  <2> QED
    BY <2>2, <2>3
<1> QED
  BY <1>1, <1>2, Invariance, PTL DEF Spec, RecreatedDataIsRefused

\* Versions are committed in ascending order and only ever lost when a new
\* data.db takes the place of a missing one.
THEOREM HistoryGrows == Spec => ForwardOnly
<1> DEFINE Forward(t) ==
              \/ t = Turso /\ dataFile = "absent"
              \/ /\ history[t] \subseteq history'[t]
                 /\ \A v \in history'[t] \ history[t], w \in history[t] : v > w
<1>1. ASSUME Inv, [Next]_vars, NEW t \in Targets, history'[t] # history[t]
      PROVE  Forward(t)
  <2>1. CASE ClaimFile \/ OpenDatabase
    BY <1>1, <2>1 DEF ClaimFile, ClaimData, OpenDatabase, ReachData, Inv, TypeOK
  <2>2. CASE RestoreClaim \/ RestoreOpen
    BY <1>1, <2>2 DEF RestoreClaim, RestoreOpen, ClaimData, ReachData, Inv, TypeOK
  <2>3. CASE ApplyCommits
    <3>1. /\ t = CandidateTarget
          /\ history'[t] = history[t] \cup {progress.now}
      BY <1>1, <2>3 DEF ApplyCommits, Inv, TypeOK
    <3>2. /\ progress.now \in pending
          /\ \A v \in pending, w \in history[CandidateTarget] : v > w
      BY <1>1, <2>3 DEF ApplyCommits, Inv, Planned
    <3> QED
      BY <3>1, <3>2
  <2> QED
    BY <1>1, <2>1, <2>2, <2>3, DataSteps DEF SyncData, PowerLoss, LoseData
<1>2. Inv /\ [Next]_vars =>
        [\A t \in Targets : history'[t] # history[t] => Forward(t)]_vars
  BY <1>1
<1> QED
  BY <1>2, Invariance, PTL DEF Spec, ForwardOnly

-----------------------------------------------------------------------------
(* A database implements the service. *)

\* What the step lemmas conclude.
ServiceStep == [Promised!Next]_Promised!vars

-----------------------------------------------------------------------------
(* Facts used for several actions. *)

\* What can be served is the open target with its schema, completely migrated.
LEMMA ServableIsOpen ==
    ASSUME Inv, Servable
    PROVE  /\ snapshot = [target |-> resources, schema |-> history[resources]]
           /\ resources \in Targets
           /\ resources # None
           /\ resources \notin unfinished
           /\ config.limits \in Limits
<1>1. /\ record \in Record /\ snapshot \in Snapshot
      /\ resources = record.target
      /\ snapshot.target = record.target
      /\ snapshot.schema = history[record.target]
      /\ record.target \notin unfinished
      /\ config = [target |-> record.target, limits |-> record.limits]
  BY DEF Inv, TypeOK, Servable, Resolved
<1>2. snapshot = [target |-> resources, schema |-> history[resources]]
  BY <1>1 DEF Snapshot
<1>3. config.limits \in Limits /\ resources \in Targets /\ resources # None
  BY <1>1, NoneIsNothing DEF Record
<1> QED
  BY <1>1, <1>2, <1>3

\* It is offered exactly while the phase is ready.
LEMMA OfferOfReady ==
    ASSUME Inv
    PROVE  /\ phase # "ready" => Offered = None
           /\ phase = "ready" =>
                 /\ Offered # None
                 /\ Offered = [view |-> snapshot, limits |-> config.limits]
                 /\ Servable
<1>1. phase # "ready" => Offered = None
  BY DEF Offered
<1>2. ASSUME phase = "ready"
      PROVE  /\ Servable
             /\ Offered = [view |-> snapshot, limits |-> config.limits]
  BY <1>2 DEF Inv, Served, Offered
<1>3. ASSUME phase = "ready" PROVE Offered # None
  <2>1. snapshot \in Snapshot /\ config.limits \in Limits
    BY <1>2, <1>3, ServableIsOpen DEF Inv, TypeOK, Servable
  <2> QED
    BY <1>2, <1>3, <2>1, NoneIsNoOffer
<1> QED
  BY <1>1, <1>2, <1>3

\* No requests in flight are no readers.
LEMMA NoReaders ==
    ASSUME Inv, InFlight = {}
    PROVE  inflight = [r \in Requests |-> None]
BY DEF Inv, TypeOK, InFlight

\* Whoever is in flight holds an open database.
LEMMA ClosedHasNoReaders ==
    ASSUME Inv, resources = None
    PROVE  InFlight = {} /\ phase # "ready"
<1>1. InFlight = {}
  BY NoneIsNothing DEF Inv, TypeOK, SchemaIsStableForRequests, InFlight, Snapshot
<1> QED
  BY <1>1 DEF Inv, Served, Servable

\* A step that changes neither the databases nor what is open, offered or read.
LEMMA Invisible ==
    ASSUME UNCHANGED <<history, unfinished, resources, inflight>>,
           Offered' = Offered
    PROVE  ServiceStep
BY DEF ServiceStep, Promised!vars

\* The offer is withdrawn, or there was none.
LEMMA Withdrawn ==
    ASSUME UNCHANGED <<history, unfinished, resources, inflight>>,
           Offered' = None
    PROVE  ServiceStep
BY DEF ServiceStep, Promised!Next, Promised!Withdraw

-----------------------------------------------------------------------------
(* The steps of an operation's task. *)

\* Steps of the task that leave the state behind the mutex and the databases
\* alone, or change of it only the record.
LEMMA QuietSteps ==
    ASSUME \/ Drain \/ SyncData \/ PersistRename \/ PersistSync \/ Marked
           \/ Recheck \/ StartFile \/ FileApplied \/ ApplyFails \/ EndMigration
           \/ StepFails \/ Load \/ RemoveFile \/ RemoveSync \/ RemoveFails
           \/ Prepare \/ PrepareFails \/ Connect \/ CheckHandle \/ OpenFails
           \/ LoseData
    PROVE  ServiceStep
<1>1. UNCHANGED <<history, unfinished, resources, inflight, phase, snapshot, config>>
  BY DEF Drain, SyncData, PersistRename, PersistSync, Marked, Recheck, StartFile,
     FileApplied, ApplyFails, EndMigration, StepFails, Load, RemoveFile,
     RemoveSync, RemoveFails, Prepare, PrepareFails, Connect, CheckHandle, OpenFails,
     LoseData
<1> QED
  BY <1>1, Invisible DEF Offered

\* data.db may come into being, empty, while another database is open or none.
LEMMA ReachDataStep ==
    ASSUME Inv, ClaimFile \/ OpenDatabase \/ RestoreClaim \/ RestoreOpen
    PROVE  ServiceStep
<1>1. /\ UNCHANGED <<resources, inflight, phase, snapshot, config>>
      /\ ReachData
  BY DEF ClaimFile, ClaimData, OpenDatabase, RestoreClaim, RestoreOpen, Restore
<1>2. Offered' = Offered
  BY <1>1 DEF Offered
<1>3. CASE UNCHANGED <<history, unfinished>>
  BY <1>1, <1>2, <1>3, Invisible
<1>4. CASE dataFile = "absent"
  <2>1. resources # Turso
    <3>1. CASE ClaimFile \/ OpenDatabase
      BY <3>1, OpensAnother DEF ClaimFile, OpenDatabase, Inv, Sited
    <3>2. CASE RestoreClaim \/ RestoreOpen
      BY <3>2, RestoringAlone, NoneIsNothing
         DEF RestoreClaim, RestoreOpen, Restore, Targets
    <3> QED
      BY <3>1, <3>2
  <2>2. Promised!Lose
    BY <1>1, <1>2, <1>4, <2>1 DEF ReachData, Promised!Lose
  <2> QED
    BY <2>2 DEF ServiceStep, Promised!Next
<1> QED
  BY <1>1, <1>3, <1>4 DEF ReachData

\* The registered target is opened if it was not.
LEMMA KeepTargetStep == ASSUME Inv, KeepTarget PROVE ServiceStep
<1>1. UNCHANGED <<history, unfinished, inflight, phase, snapshot, config>>
      /\ resources' = CandidateTarget /\ SameTarget /\ CandidateTarget \in Targets
  BY CandidateIsTarget, NoneIsNothing DEF KeepTarget, Inv, Sited, Slot, TypeOK
<1>2. Offered' = Offered
  BY <1>1 DEF Offered
<1>3. CASE resources # None
  <2>1. resources' = resources
    BY <1>1, <1>3 DEF SameTarget, Inv, Resolved
  <2> QED
    BY <1>1, <1>2, <2>1, Invisible
<1>4. CASE resources = None
  <2>1. Offered = None /\ inflight = [r \in Requests |-> None]
    BY <1>4, ClosedHasNoReaders, OfferOfReady, NoReaders
  <2>2. Promised!Switch(CandidateTarget)
    BY <1>1, <1>2, <2>1 DEF Promised!Switch, Promised!Quiet, Promised!NoReaders
  <2> QED
    BY <1>1, <2>2 DEF ServiceStep, Promised!Next
<1> QED
  BY <1>3, <1>4

\* Admission closes, or an uncertain commit ends the service.
LEMMA ClosingSteps ==
    ASSUME ChangeTarget \/ BeginMigration \/ PersistUncertain \/ Unregister
    PROVE  ServiceStep
<1>1. /\ UNCHANGED <<history, unfinished, resources, inflight>>
      /\ phase' # "ready"
  BY DEF ChangeTarget, BeginMigration, PersistUncertain, Unregister,
     CloseAdmission, DistrustRecord
<1> QED
  BY <1>1, Withdrawn DEF Offered

\* restore_admission offers again what was offered before.
LEMMA RestoringSteps == ASSUME Inv, SyncDataFails \/ PersistFails PROVE ServiceStep
<1>1. /\ UNCHANGED <<history, unfinished, inflight, invalidRecord, installed>>
      /\ phase' = phase \/ RestoreAdmission
  BY DEF SyncDataFails, PersistFails
<1>2. CASE phase' = phase
  BY <1>1, <1>2, Invisible DEF Offered
<1>3. CASE phase' # phase
  <2>1. CASE phase' # "ready"
    BY <1>1, <2>1, Withdrawn DEF Offered
  <2>2. CASE phase' = "ready"
    <3>1. Servable
      BY <1>1, <1>3, <2>2
         DEF SyncDataFails, PersistFails, RestoreAdmission, Inv, Served, Slot, Sited,
             TypeOK
    <3>2. /\ snapshot = [target |-> resources, schema |-> history[resources]]
          /\ resources # None
          /\ resources \notin unfinished
          /\ config.limits \in Limits
      BY <3>1, ServableIsOpen
    <3>3. Offered' = [view |-> snapshot, limits |-> config.limits]
      BY <1>1, <2>2 DEF Offered
    <3>4. Promised!Offer(config.limits)
      BY <1>1, <3>2, <3>3 DEF Promised!Offer, Promised!Current
    <3> QED
      BY <1>1, <3>2, <3>4 DEF ServiceStep, Promised!Next
  <2> QED
    BY <2>1, <2>2
<1> QED
  BY <1>2, <1>3

\* Another target is opened, or the last one closed, while the service is quiet.
LEMMA SwitchingSteps == ASSUME Inv, Adopted \/ Removed PROVE ServiceStep
<1>1. /\ UNCHANGED <<history, unfinished, inflight, phase>>
      /\ resources' \in {CandidateTarget, None}
      /\ phase # "ready" /\ InFlight = {}
  BY DEF Adopted, Removed, Inv, Drained
<1>2. resources' \in Targets \cup {None}
  BY PersistingIsPublishing, CandidateIsTarget DEF Adopted, Removed, Inv
<1>3. Offered = None /\ Offered' = None /\ inflight = [r \in Requests |-> None]
  BY <1>1, NoReaders DEF Offered
<1>4. Promised!Switch(resources')
  BY <1>1, <1>3 DEF Promised!Switch, Promised!Quiet, Promised!NoReaders
<1> QED
  BY <1>2, <1>4 DEF ServiceStep, Promised!Next

\* A directory with nothing left to apply completes the batch before it.
LEMMA PreflightStep ==
    ASSUME Inv, NEW plan \in SUBSET Versions, Preflight(plan)
    PROVE  ServiceStep
<1>1. /\ UNCHANGED <<history, resources, inflight, phase, snapshot, config>>
      /\ unfinished' \in {unfinished, unfinished \ {CandidateTarget}}
      /\ resources = CandidateTarget /\ CandidateTarget \in Targets
  BY CandidateIsTarget DEF Preflight, Inv, Sited, Slot, TypeOK
<1>2. Offered' = Offered
  BY <1>1 DEF Offered
<1>3. CASE unfinished' = unfinished
  BY <1>1, <1>2, <1>3, Invisible
<1>4. CASE unfinished' = unfinished \ {CandidateTarget}
  <2>1. Promised!Settle
    BY <1>1, <1>2, <1>4, NoneIsNothing DEF Promised!Settle
  <2> QED
    BY <2>1 DEF ServiceStep, Promised!Next
<1> QED
  BY <1>1, <1>3, <1>4

\* A file is committed while the service is quiet, on top of the history.
LEMMA ApplyCommitsStep == ASSUME Inv, ApplyCommits PROVE ServiceStep
<1>1. /\ UNCHANGED <<resources, inflight, phase>>
      /\ history' = [history EXCEPT ![resources] = @ \cup {progress.now}]
      /\ unfinished' \in {unfinished \cup {resources}, unfinished \ {resources}}
      /\ resources = CandidateTarget /\ CandidateTarget \in Targets
      /\ phase # "ready" /\ InFlight = {}
  BY CandidateIsTarget DEF ApplyCommits, Inv, Sited, Slot, Drained, TypeOK
<1>2. /\ progress.now \in Versions
      /\ \A w \in history[resources] : progress.now > w
  BY <1>1 DEF ApplyCommits, Inv, Planned, TypeOK
<1>3. Offered = None /\ Offered' = None /\ inflight = [r \in Requests |-> None]
  BY <1>1, NoReaders DEF Offered
<1>4. Promised!Write(progress.now)
  BY <1>1, <1>2, <1>3, NoneIsNothing
     DEF Promised!Write, Promised!Quiet, Promised!NoReaders
<1> QED
  BY <1>2, <1>4 DEF ServiceStep, Promised!Next

\* The new interfaces are offered; requests that were admitted to the old ones
\* go on.
LEMMA PublishedStep == ASSUME Inv, Published PROVE ServiceStep
<1>1. /\ current = "publish" /\ site = "final" /\ request \in PublishRequest
      /\ record # None /\ resources = CandidateTarget
      /\ CandidateTarget \in Targets /\ CandidateTarget \notin unfinished
      /\ fresh = [target |-> CandidateTarget, schema |-> history[CandidateTarget]]
  BY PersistingIsPublishing, CandidateIsTarget DEF Published, Inv, Sited, Planned
<1>2. /\ UNCHANGED <<history, unfinished, inflight>>
      /\ resources' = resources
      /\ Offered' = [view |-> fresh, limits |-> request.limits]
  BY <1>1 DEF Published, ReplaceSnapshot, CandidateConfig, Offered
<1>3. Promised!Offer(request.limits)
  BY <1>1, <1>2, NoneIsNothing DEF Promised!Offer, Promised!Current
<1>4. request.limits \in Limits
  BY <1>1 DEF PublishRequest
<1> QED
  BY <1>3, <1>4 DEF ServiceStep, Promised!Next

\* The end of an operation offers nothing new.
LEMMA FinishingSteps ==
    ASSUME Inv, FinishPublish \/ FinishUnregister
    PROVE  ServiceStep
<1>1. /\ UNCHANGED <<history, unfinished, resources, inflight, snapshot, config>>
      /\ phase' = phase \/ (phase # "ready" /\ phase' # "ready")
  BY DEF FinishPublish, FinishUnregister, Inv, OnDisk
<1> QED
  BY <1>1, Invisible DEF Offered

-----------------------------------------------------------------------------
(* Calls, requests, and the life of the process. *)

\* Accepting a publication, or asking for a shutdown, changes nothing that is
\* offered.
LEMMA AcceptSteps ==
    ASSUME StartShutdown \/ (\E req \in PublishRequest : Publish(req))
    PROVE  ServiceStep
<1>1. UNCHANGED <<history, unfinished, resources, inflight, phase, snapshot, config>>
  BY DEF Publish, StartShutdown, disk, service, installed, ghosts, outside
<1> QED
  BY <1>1, Invisible DEF Offered

\* A data request is admitted to what is offered.
LEMMA AdmitStep == ASSUME Inv, NEW r \in Requests, Admit(r) PROVE ServiceStep
<1>1. /\ UNCHANGED <<history, unfinished, resources, phase, snapshot, config>>
      /\ phase = "ready" /\ inflight[r] = None
      /\ inflight' = [inflight EXCEPT ![r] =
                         [target |-> resources, schema |-> snapshot.schema]]
  BY DEF Admit, Enter
<1>2. /\ Offered # None
      /\ Offered = [view |-> snapshot, limits |-> config.limits]
      /\ snapshot = [target |-> resources, schema |-> history[resources]]
  BY <1>1, OfferOfReady, ServableIsOpen
<1>3. [target |-> resources, schema |-> snapshot.schema] = Offered.view
  BY <1>2
<1>4. Offered' = Offered
  BY <1>1 DEF Offered
<1>5. Promised!Admit(r)
  BY <1>1, <1>2, <1>3, <1>4 DEF Promised!Admit
<1> QED
  BY <1>5 DEF ServiceStep, Promised!Next

\* An export is admitted to the open target.
LEMMA ExportStep == ASSUME Inv, NEW r \in Requests, Export(r) PROVE ServiceStep
<1>1. /\ UNCHANGED <<history, unfinished, resources, phase, snapshot, config>>
      /\ resources # None /\ inflight[r] = None
      /\ inflight' = [inflight EXCEPT ![r] =
                         [target |-> resources, schema |-> history[resources]]]
  BY DEF Export, Enter
<1>2. Offered' = Offered
  BY <1>1 DEF Offered
<1>3. Promised!Inspect(r)
  BY <1>1, <1>2 DEF Promised!Inspect, Promised!Current
<1> QED
  BY <1>3 DEF ServiceStep, Promised!Next

\* A request that ends is no longer inside.
LEMMA FinishRequestStep ==
    ASSUME NEW r \in Requests, FinishRequest(r)
    PROVE  ServiceStep
<1>1. /\ UNCHANGED <<history, unfinished, resources, phase, snapshot, config>>
      /\ inflight[r] # None
      /\ inflight' = [inflight EXCEPT ![r] = None]
  BY DEF FinishRequest
<1>2. Offered' = Offered
  BY <1>1 DEF Offered
<1>3. Promised!Leave(r)
  BY <1>1, <1>2 DEF Promised!Leave
<1> QED
  BY <1>3 DEF ServiceStep, Promised!Next

\* A shutdown stops the service; an entry that is not listed has none.
LEMMA RetireStep == ASSUME Inv, Retire PROVE ServiceStep
<1>1. CASE listed
  <2>1. /\ UNCHANGED <<history, unfinished, inflight>>
        /\ resources' = None /\ Offered' = None /\ InFlight = {}
    BY <1>1, NoneInFlight DEF Retire, NothingRuns, Offered, Inv
  <2>2. Promised!Stop
    BY <2>1, NoReaders DEF Promised!Stop
  <2> QED
    BY <2>2 DEF ServiceStep, Promised!Next
<1>2. CASE ~listed
  <2>1. UNCHANGED <<history, unfinished, resources, inflight, phase, snapshot, config>>
    BY <1>2 DEF Retire
  <2> QED
    BY <2>1, Invisible DEF Offered
<1> QED
  BY <1>1, <1>2

\* The service ends with its process.
LEMMA CrashSteps == ASSUME Inv, Exit \/ PowerLoss PROVE ServiceStep
<1>1. /\ resources' = None /\ Offered' = None
      /\ inflight' = [r \in Requests |-> None]
  BY DEF Exit, PowerLoss, Forget, Offered
<1>2. Promised!Stop
  BY <1>1 DEF Exit, PowerLoss, Promised!Stop
<1> QED
  BY <1>2 DEF ServiceStep, Promised!Next

\* While the process does not run, or restores, there is no service.
LEMMA DownIsQuiet ==
    ASSUME Inv, registry \in Restoring \cup {"down"}
    PROVE  /\ resources = None /\ phase # "ready" /\ Offered = None
           /\ inflight = [r \in Requests |-> None]
<1>1. resources = None /\ phase # "ready" /\ InFlight = {}
  BY RestoringAlone DEF Inv, Unlisted
<1> QED
  BY <1>1, NoReaders DEF Offered

\* A start without service, or with a target that is open but not offered.
LEMMA ClosedStarts ==
    ASSUME Inv,
           OpenEmpty \/ OpenInvalid \/ ReadRecord \/ OpenUnavailable \/ OpenRecovering
    PROVE  ServiceStep
<1>1. /\ UNCHANGED <<history, unfinished, inflight, phase>>
      /\ registry \in Restoring \cup {"down"}
  BY DEF OpenEmpty, OpenInvalid, OpenUnavailable, OpenRecovering, ReadRecord, Open,
     OpenResources, EndRestore, Restore
<1>2. Offered = None /\ Offered' = None
  BY <1>1, DownIsQuiet DEF Offered
<1>3. CASE resources' = resources
  BY <1>1, <1>2, <1>3, Invisible
<1>4. CASE OpenRecovering
  <2>1. resources' \in Targets
    BY <1>4, RestoringAlone DEF OpenRecovering, OpenResources, Record
  <2>2. Promised!Switch(resources')
    BY <1>1, <1>2, DownIsQuiet
       DEF Promised!Switch, Promised!Quiet, Promised!NoReaders
  <2> QED
    BY <2>1, <2>2 DEF ServiceStep, Promised!Next
<1> QED
  BY <1>3, <1>4 DEF OpenEmpty, OpenInvalid, ReadRecord, OpenUnavailable

\* A start with service: the record carries no marker, so its target has no
\* batch to complete.
LEMMA OpenReadyStep == ASSUME Inv, OpenReady PROVE ServiceStep
<1>1. /\ UNCHANGED <<history, unfinished, inflight, config>>
      /\ registry \in Restoring /\ phase' = "ready"
      /\ resources' = record.target
      /\ snapshot' = [target |-> record.target, schema |-> history[record.target]]
      /\ record.recovery = "none"
  BY DEF OpenReady, OpenResources, NoRecovery, EndRestore, Restore
<1>2. /\ record.target \in Targets /\ record.limits \in Limits
      /\ record.target \notin unfinished
      /\ config = [target |-> record.target, limits |-> record.limits]
  BY <1>1, RestoringAlone DEF Inv, Record, OnDisk
<1>3. Offered' = [view |-> [target |-> record.target,
                            schema |-> history[record.target]],
                  limits |-> record.limits]
  BY <1>1, <1>2 DEF Offered
<1>4. Promised!Start(record.target, record.limits)
  BY <1>1, <1>2, <1>3, DownIsQuiet
     DEF Promised!Start, Promised!Quiet, Promised!NoReaders, Promised!Current
<1> QED
  BY <1>2, <1>4 DEF ServiceStep, Promised!Next

-----------------------------------------------------------------------------

\* Every step of the database is a step of the service or a stutter.
LEMMA EveryStep == ASSUME Inv, [Next]_vars PROVE ServiceStep
<1>1. CASE TaskStep
  BY <1>1, QuietSteps, ReachDataStep, KeepTargetStep, ClosingSteps, RestoringSteps,
     SwitchingSteps, PreflightStep, ApplyCommitsStep, PublishedStep, FinishingSteps
     DEF TaskStep, Persist, Migrate
<1>2. CASE Call
  BY <1>2, AcceptSteps, ClosingSteps, AdmitStep, ExportStep DEF Call
<1>3. CASE Retire \/ (\E r \in Requests : FinishRequest(r))
  BY <1>3, RetireStep, FinishRequestStep
<1>4. CASE Process
  BY <1>4, CrashSteps, QuietSteps, ReachDataStep, ClosedStarts, OpenReadyStep
     DEF Process
<1>5. CASE UNCHANGED vars
  <2>1. UNCHANGED <<history, unfinished, resources, inflight, phase, snapshot, config>>
    BY <1>5 DEF vars
  <2> QED
    BY <2>1, Invisible DEF Offered
<1> QED
  BY <1>1, <1>2, <1>3, <1>4, <1>5 DEF Next

\* Every behaviour of a database, with its publications, requests, failures,
\* crashes and restarts, is a behaviour of the service.
THEOREM Implementation == Spec => ImplementsService
<1>1. Init => Promised!Init
  BY DEF Init, Promised!Init, Offered
<1>2. Inv /\ [Next]_vars => [Promised!Next]_Promised!vars
  BY EveryStep DEF ServiceStep
<1> QED
  BY <1>1, <1>2, Invariance, PTL DEF Spec, ImplementsService, Promised!Spec

-----------------------------------------------------------------------------
(* What the steps of the service guarantee together. *)

\* EveryoneSeesTheSchema is inductive with the types.
SeesInv ==
    /\ history \in [Targets -> SUBSET Versions]
    /\ inflight \in [Requests -> Promised!View \cup {None}]
    /\ resources \in Targets \cup {None}
    /\ Promised!EveryoneSeesTheSchema

\* What a request is let in to is never the value that stands for "outside".
LEMMA CurrentIsView ==
    ASSUME history \in [Targets -> SUBSET Versions], NEW t \in Targets
    PROVE  Promised!Current(t) \in Promised!View
BY DEF Promised!Current, Promised!View

\* The steps of those inside, and those that change only what is offered.
LEMMA ReaderSteps ==
    ASSUME SeesInv,
           \/ \E r \in Requests : Promised!Admit(r) \/ Promised!Inspect(r) \/ Promised!Leave(r)
           \/ \E l \in Limits : Promised!Offer(l)
           \/ Promised!Withdraw
           \/ Promised!Settle
    PROVE  SeesInv'
<1>1. CASE \E r \in Requests : Promised!Admit(r)
  BY <1>1, CurrentIsView DEF SeesInv, Promised!EveryoneSeesTheSchema, Promised!Admit,
     Promised!Current
<1>2. CASE \E r \in Requests : Promised!Inspect(r)
  BY <1>2, CurrentIsView DEF SeesInv, Promised!EveryoneSeesTheSchema, Promised!Inspect,
     Promised!Current
<1>3. CASE \E r \in Requests : Promised!Leave(r)
  BY <1>3 DEF SeesInv, Promised!EveryoneSeesTheSchema, Promised!Leave,
     Promised!Current
<1>4. CASE \E l \in Limits : Promised!Offer(l)
  BY <1>4 DEF SeesInv, Promised!EveryoneSeesTheSchema, Promised!Offer,
     Promised!Current
<1>5. CASE Promised!Withdraw
  BY <1>5 DEF SeesInv, Promised!EveryoneSeesTheSchema, Promised!Withdraw,
     Promised!Current
<1>6. CASE Promised!Settle
  BY <1>6 DEF SeesInv, Promised!EveryoneSeesTheSchema, Promised!Settle,
     Promised!Current
<1> QED
  BY <1>1, <1>2, <1>3, <1>4, <1>5, <1>6

\* The steps that change the target or its schema happen when nobody is inside.
LEMMA WriterSteps ==
    ASSUME SeesInv,
           \/ \E t \in Targets \cup {None} : Promised!Switch(t)
           \/ \E v \in Versions : Promised!Write(v)
           \/ Promised!Stop \/ Promised!Lose
           \/ \E t \in Targets, l \in Limits : Promised!Start(t, l)
    PROVE  SeesInv'
<1> USE NoneIsNothing DEF Targets
<1>1. CASE \E t \in Targets \cup {None} : Promised!Switch(t)
  BY <1>1 DEF SeesInv, Promised!EveryoneSeesTheSchema, Promised!Switch,
     Promised!Quiet, Promised!NoReaders, Promised!Current
<1>2. CASE \E v \in Versions : Promised!Write(v)
  BY <1>2 DEF SeesInv, Promised!EveryoneSeesTheSchema, Promised!Write,
     Promised!Quiet, Promised!NoReaders, Promised!Current
<1>3. CASE Promised!Stop
  BY <1>3 DEF SeesInv, Promised!EveryoneSeesTheSchema, Promised!Stop,
     Promised!Current
<1>4. CASE Promised!Lose
  BY <1>4 DEF SeesInv, Promised!EveryoneSeesTheSchema, Promised!Lose,
     Promised!Current
<1>5. CASE \E t \in Targets, l \in Limits : Promised!Start(t, l)
  BY <1>5 DEF SeesInv, Promised!EveryoneSeesTheSchema, Promised!Start,
     Promised!Quiet, Promised!NoReaders, Promised!Current
<1> QED
  BY <1>1, <1>2, <1>3, <1>4, <1>5

\* Whoever is inside a database sees the schema of the open target as it is now,
\* and so would whoever is let in: Registry::admit and export_migrations never
\* hand out a schema that a migration has changed since, nor a half applied one.
THEOREM OneSchemaForAll == Spec => []Promised!EveryoneSeesTheSchema
<1>1. Promised!Init => SeesInv
  BY DEF Promised!Init, SeesInv, Promised!EveryoneSeesTheSchema
<1>2. SeesInv /\ [Promised!Next]_Promised!vars => SeesInv'
  <2>1. SeesInv /\ UNCHANGED Promised!vars => SeesInv'
    BY DEF SeesInv, Promised!EveryoneSeesTheSchema, Promised!Current, Promised!vars
  <2> QED
    BY <2>1, ReaderSteps, WriterSteps DEF Promised!Next
<1>3. SeesInv => Promised!EveryoneSeesTheSchema
  BY DEF SeesInv
<1> QED
  BY <1>1, <1>2, <1>3, Implementation, PTL DEF ImplementsService, Promised!Spec
=============================================================================
