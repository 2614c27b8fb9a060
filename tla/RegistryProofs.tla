--------------------------- MODULE RegistryProofs ---------------------------
(***************************************************************************)
(* No wake-up is lost, wait_operation tells the truth and a shutdown leaves *)
(* no database out, for any names, callers, operations and requests.       *)
(***************************************************************************)
EXTENDS Registry, WellFoundedInduction, SequenceTheorems, TLAPS

USE DEF state, tasks, notify

-----------------------------------------------------------------------------
(* The inductive invariant. *)

\* The management slot and the task that holds it; a publication that drains
\* knows the phase it found.
Slots ==
    \A n \in Names :
        /\ task[n] = "none" <=> current[n] = None
        /\ task[n] \in {"arm", "test", "await", "quiet"} =>
              Kind(n) = "unregister" \/ previous[n] \in Phases

\* current and last are the end of the journal of a database: its current
\* operation is the only one that runs, and the last one the latest that ended.
Recorded ==
    /\ Len(journal) <= MaxOperations
    /\ \A n \in Names : current[n] # None =>
          /\ current[n] \in Ids
          /\ journal[current[n]].name = n
          /\ journal[current[n]].outcome = "running"
          /\ last[n] # None => last[n].id < current[n]
    /\ \A n \in Names : last[n] # None =>
          /\ last[n].id \in Ids
          /\ journal[last[n].id].name = n
          /\ journal[last[n].id].outcome = last[n].outcome
    /\ \A id \in Ids :
          /\ journal[id].outcome = "running" => current[journal[id].name] = id
          /\ journal[id].outcome # "running" =>
                last[journal[id].name] # None /\ id <= last[journal[id].name].id

\* A caller waits on the Notify of what it has asked about.
Called ==
    \A c \in Clients :
        /\ client[c].step # "none" => client[c].call \in {"wait", "shutdown"}
        /\ client[c].call = "wait" => client[c].on \in Names /\ client[c].id \in Ids
        /\ client[c].call = "shutdown" => client[c].on = Shutdown

Retired(n) == phase[n] = "unregistered" /\ ~opened[n] /\ NothingRuns(n)

\* After start_shutdown nothing begins any more, so what the shutdown task has
\* found quiet stays quiet, and what it has retired stays retired.
Closing ==
    /\ closed <=> worker.step # "none"
    /\ worker.todo \subseteq entries
    /\ worker.step \in {"test", "await", "retire", "drop"} => worker.todo # {}
    /\ closed => \A n \in entries \ worker.todo : Retired(n)
    /\ worker.step = "retire" => NothingRuns(At)
    /\ worker.step = "drop" => Retired(At)
    /\ result = "ok" => closed /\ worker.todo = {}

Inv == /\ TypeOK
       /\ Slots
       /\ Recorded
       /\ Called
       /\ Closing
       /\ WakeupIsOwed
       /\ AnswersAreTruthful

\* The three kinds of waiters in WakeupIsOwed.
DrainOwed ==
    \A n \in Names : task[n] = "await" /\ "drain" \in armed[n] =>
        active[n] > 0 \/ owed[n] > 0
WorkerOwed ==
    worker.step = "await" /\ "worker" \in armed[At] => ~NothingRuns(At) \/ owed[At] > 0
ClientOwed ==
    \A c \in Clients : client[c].step = "await" /\ c \in armed[client[c].on] =>
        Look(c) = None \/ owed[client[c].on] > 0

\* WakeupIsOwed is the conjunction of the three, before and after a step.
LEMMA Owing ==
    /\ WakeupIsOwed <=> DrainOwed /\ WorkerOwed /\ ClientOwed
    /\ WakeupIsOwed' <=> DrainOwed' /\ WorkerOwed' /\ ClientOwed'
BY DEF WakeupIsOwed, DrainOwed, WorkerOwed, ClientOwed

\* An operation as the journal has it.
Entry == [name: Names, kind: Kinds, outcome: {"running", "succeeded", "failed"}]

\* The restored registry has no operation, no caller and no shutdown.
LEMMA InitInv == Init => Inv
<1> SUFFICES ASSUME Init PROVE Inv
  OBVIOUS
<1>1. TypeOK
  <2>1. journal \in Seq(Entry) /\ Len(journal) = 0 /\ Ids = {}
    BY DEF Init, Ids
  <2>2. 0 \in 0..MaxActive
    BY BoundsAreCounts
  <2>3. phase \in [Names -> Phases] /\ opened \in [Names -> BOOLEAN]
    BY DEF Init, Phases
  <2>4. client \in [Clients -> Calls]
    BY DEF Init, NoCall, Calls
  <2>5. active \in [Names -> 0..MaxActive]
    BY <2>2 DEF Init
  <2> QED
    BY <2>1, <2>3, <2>4, <2>5 DEF Init, TypeOK, Entry
<1>2. Slots
  BY DEF Init, Slots
<1>3. Called
  BY NoneIsNothing DEF Init, Called, NoCall
<1>4. Closing
  <2>1. result # "ok"
    BY NoneIsNothing DEF Init
  <2> QED
    BY <2>1 DEF Init, Closing
<1>5. Recorded
  BY BoundsAreCounts DEF Init, Recorded, Ids
<1>6. WakeupIsOwed /\ AnswersAreTruthful
  BY DEF Init, WakeupIsOwed, AnswersAreTruthful, NoCall
<1> QED
  BY <1>1, <1>2, <1>3, <1>4, <1>5, <1>6 DEF Inv

-----------------------------------------------------------------------------
(* Facts about the operators. *)

\* The database that the shutdown task is at is one of those left to do.
LEMMA AtIsLeft ==
    ASSUME TypeOK, worker.todo # {}
    PROVE  At \in worker.todo
<1>1. worker.todo \subseteq Nat
  BY NamesAreOrdered DEF TypeOK
<1> DEFINE less == OpToRel(<, Nat)
<1>2. \E x \in worker.todo : \A y \in worker.todo : <<y, x>> \notin less
  BY <1>1, NatLessThanWellFounded, WFMin
<1>3. \A x, y \in Nat : <<y, x>> \notin less => x <= y
  BY DEF OpToRel
<1> HIDE DEF less
<1>4. \E x \in worker.todo : \A y \in worker.todo : x <= y
  BY <1>1, <1>2, <1>3
<1> QED
  BY <1>4 DEF At, Min

\* What a caller sees does not change by itself.
LEMMA LookKept ==
    ASSUME NEW c \in Clients, UNCHANGED <<client, result, current, last>>
    PROVE  Look(c)' = Look(c)
BY DEF Look, Operation

\* Waiters other than the one that arms or leaves see no difference.
LEMMA OthersKeepArmed ==
    ASSUME TypeOK, NEW w, NEW n \in Notifies, Arm(w, n) \/ Disarm(w, n)
    PROVE  /\ armed' \in [Notifies -> SUBSET (Waiters \cup {w})]
           /\ \A v : v # w => \A m \in Notifies : v \in armed'[m] <=> v \in armed[m]
           /\ \A m \in Notifies : m # n => armed'[m] = armed[m]
<1>1. armed \in [Notifies -> SUBSET Waiters]
  BY DEF TypeOK
<1>2. CASE Arm(w, n)
  BY <1>1, <1>2 DEF Arm
<1>3. CASE Disarm(w, n)
  BY <1>1, <1>3 DEF Disarm
<1> QED
  BY <1>2, <1>3

\* The records of the operations are not touched.
LEMMA RecordsKept ==
    ASSUME Inv, UNCHANGED <<current, last, journal>>
    PROVE  Recorded'
BY DEF Inv, Recorded, Ids

\* What the callers were told stays true.
LEMMA AnswersKept ==
    ASSUME Inv, UNCHANGED <<client, journal>>
    PROVE  AnswersAreTruthful' /\ Called'
BY DEF Inv, AnswersAreTruthful, Called, Ids

-----------------------------------------------------------------------------
(* The tasks of the operations. *)

\* A step of a task is none of a database that has been found quiet.
LEMMA BusyIsNotRetired ==
    ASSUME Inv, NEW n \in Names, current[n] # None,
           UNCHANGED <<entries, closed, result, active, current, worker>>,
           \A m \in Names : m # n => phase'[m] = phase[m] /\ opened'[m] = opened[m]
    PROVE  Closing'
<1>1. At' = At
  BY DEF At
<1>2. \A m \in Names : /\ NothingRuns(m)' <=> NothingRuns(m)
                       /\ Retired(m) => Retired(m)'
  BY DEF NothingRuns, Retired
<1>3. worker.step \in {"retire", "drop"} => At \in Names
  BY AtIsLeft DEF Inv, Closing, TypeOK
<1>4. entries \subseteq Names
  BY DEF Inv, TypeOK
<1> QED
  BY <1>1, <1>2, <1>3, <1>4 DEF Inv, Closing

\* close_admission, a step of drain, or the end of the work of an operation.
LEMMA TaskMoves ==
    ASSUME Inv, NEW n \in Names,
           \/ CloseAdmission(n) \/ DrainArm(n) \/ DrainTest(n) \/ DrainWoken(n)
           \/ Published(n) \/ PublishFailed(n) \/ Removed(n) \/ RemoveFailed(n)
    PROVE  Inv'
<1>0. USE DEF Loop
<1>1. /\ UNCHANGED <<entries, closed, result, active, current, last, worker, client,
                     owed, journal>>
      /\ task[n] \in {"work", "arm", "test", "await", "quiet"}
  BY DEF CloseAdmission, DrainArm, DrainTest, DrainWoken, Published, PublishFailed,
         Removed, RemoveFailed
<1>2. current[n] # None /\ Kind(n)' = Kind(n)
  BY <1>1 DEF Inv, Slots, Kind
<1>3. \E s \in {"arm", "test", "await", "quiet", "succeeded", "failed"} :
         task' = [task EXCEPT ![n] = s]
  BY DEF CloseAdmission, DrainArm, DrainTest, DrainWoken, Published, PublishFailed,
         Removed, RemoveFailed
<1>4. previous' = previous \/ previous' = [previous EXCEPT ![n] = phase[n]]
  BY DEF CloseAdmission, DrainArm, DrainTest, DrainWoken, Published, PublishFailed,
         Removed, RemoveFailed
<1>5. phase' = phase \/ \E q \in Phases : phase' = [phase EXCEPT ![n] = q]
  <2>1. PublishFailed(n) /\ task[n] = "quiet" => previous[n] \in Phases
    BY DEF PublishFailed, Inv, Slots
  <2> QED
    BY <2>1 DEF CloseAdmission, DrainArm, DrainTest, DrainWoken, Published,
         PublishFailed, Removed, RemoveFailed, Phases
<1>6. opened' = opened \/ \E b \in BOOLEAN : opened' = [opened EXCEPT ![n] = b]
  BY DEF CloseAdmission, DrainArm, DrainTest, DrainWoken, Published, PublishFailed,
         Removed, RemoveFailed
<1>7. /\ armed' \in [Notifies -> SUBSET Waiters]
      /\ \A v : v # "drain" => \A m \in Notifies : v \in armed'[m] <=> v \in armed[m]
      /\ \A m \in Names : m # n => armed'[m] = armed[m]
  <2>1. CASE armed' = armed
    BY <2>1 DEF Inv, TypeOK
  <2>2. CASE Arm("drain", n) \/ Disarm("drain", n)
    BY <2>2, OthersKeepArmed DEF Inv, Notifies, Waiters
  <2> QED
    BY <2>1, <2>2 DEF CloseAdmission, DrainArm, DrainTest, DrainWoken, Published,
         PublishFailed, Removed, RemoveFailed
<1>8. TypeOK'
  <2>1. task' \in [Names -> {"none", "work", "arm", "test", "await", "quiet",
                            "succeeded", "failed"}]
    BY <1>3 DEF Inv, TypeOK
  <2>2. previous' \in [Names -> Phases \cup {None}]
    BY <1>4 DEF Inv, TypeOK
  <2>3. phase' \in [Names -> Phases]
    BY <1>5 DEF Inv, TypeOK
  <2>4. opened' \in [Names -> BOOLEAN]
    <3>1. opened \in [Names -> BOOLEAN]
      BY DEF Inv, TypeOK
    <3> QED
      BY <1>6, <3>1
  <2> QED
    BY <1>1, <1>7, <2>1, <2>2, <2>3, <2>4 DEF Inv, TypeOK
<1>9. Slots'
  <2>1. task'[n] \in {"arm", "test", "await", "quiet"} =>
           Kind(n) = "unregister" \/ previous'[n] \in Phases
    <3>1. CASE CloseAdmission(n)
      BY <3>1 DEF CloseAdmission, Inv, TypeOK
    <3>2. CASE DrainArm(n) \/ DrainTest(n) \/ DrainWoken(n)
      BY <3>2 DEF DrainArm, DrainTest, DrainWoken, Inv, TypeOK, Slots
    <3>3. CASE Published(n) \/ PublishFailed(n) \/ Removed(n) \/ RemoveFailed(n)
      BY <3>3 DEF Published, PublishFailed, Removed, RemoveFailed, Inv, TypeOK
    <3> QED
      BY <3>1, <3>2, <3>3
  <2> QED
    BY <1>1, <1>2, <1>3, <1>4, <2>1 DEF Inv, TypeOK, Slots, Kind
<1>10. Closing'
  BY <1>1, <1>2, <1>5, <1>6, BusyIsNotRetired DEF Inv, TypeOK
<1>11. DrainOwed'
  <2>1. task'[n] = "await" => active[n] > 0
    BY <1>1, <1>3 DEF Inv, TypeOK, CloseAdmission, DrainArm, DrainTest, DrainWoken,
         Published, PublishFailed, Removed, RemoveFailed
  <2> QED
    BY <1>1, <1>3, <1>7, <2>1, Owing DEF DrainOwed, Inv, TypeOK
<1>12. WorkerOwed'
  <2>1. At' = At /\ NothingRuns(At)' = NothingRuns(At)
    BY <1>1 DEF At, NothingRuns
  <2>2. worker.step = "await" => At \in Notifies
    BY AtIsLeft DEF Inv, Closing, TypeOK, Notifies
  <2> QED
    BY <1>1, <1>7, <2>1, <2>2, Owing DEF WorkerOwed, Inv
<1>13. ClientOwed'
  <2>1. \A c \in Clients : c # "drain" /\ Look(c)' = Look(c)
    BY <1>1, LookKept, ClientsAreCallers
  <2>2. \A c \in Clients : client[c].step = "await" => client[c].on \in Notifies
    BY DEF Inv, Called, Notifies
  <2> QED
    BY <1>1, <1>7, <2>1, <2>2, Owing DEF ClientOwed, Inv
<1> QED
  BY <1>1, <1>8, <1>9, <1>10, <1>11, <1>12, <1>13, Owing, RecordsKept, AnswersKept
     DEF Inv

-----------------------------------------------------------------------------
(* Requests and notifications. *)

\* A request that is admitted keeps the invariant: no shutdown was started.
LEMMA AdmitInv == ASSUME Inv, NEW n \in Names, Admit(n) PROVE Inv'
<1>1. /\ UNCHANGED <<entries, closed, result, phase, opened, current, last, task,
                     previous, worker, client, armed, owed, journal>>
      /\ ~closed
      /\ active[n] + owed[n] < MaxActive
      /\ active' = [active EXCEPT ![n] = @ + 1]
  BY DEF Admit, CheckOpen
<1>2. active[n] \in 0..MaxActive /\ owed[n] \in Nat /\ MaxActive \in Nat
  BY BoundsAreCounts DEF Inv, TypeOK, Notifies
<1>3. active[n] + 1 \in 0..MaxActive
  BY <1>1, <1>2
<1>4. TypeOK'
  BY <1>1, <1>3 DEF Inv, TypeOK
<1>5. Slots'
  BY <1>1 DEF Inv, Slots, Kind
<1>6. Closing' /\ WorkerOwed'
  BY <1>1 DEF Inv, Closing, WorkerOwed
<1>7. DrainOwed'
  BY <1>1, <1>2, Owing DEF Inv, TypeOK, DrainOwed
<1>8. ClientOwed'
  BY <1>1, LookKept, Owing DEF Inv, ClientOwed
<1> QED
  BY <1>1, <1>4, <1>5, <1>6, <1>7, <1>8, Owing, RecordsKept, AnswersKept DEF Inv

\* The last request that ends owes a notification to the drain and the shutdown.
LEMMA RequestEndsInv == ASSUME Inv, NEW n \in Names, RequestEnds(n) PROVE Inv'
<1>1. /\ UNCHANGED <<entries, closed, result, phase, opened, current, last, task,
                     previous, worker, client, armed, journal>>
      /\ active[n] > 0
      /\ active' = [active EXCEPT ![n] = @ - 1]
      /\ owed' = [owed EXCEPT ![n] = @ + 1]
  BY DEF RequestEnds, Owe
<1>2. active[n] \in 0..MaxActive /\ MaxActive \in Nat /\ owed \in [Notifies -> Nat]
  BY BoundsAreCounts DEF Inv, TypeOK
<1>3. active[n] - 1 \in 0..MaxActive
  BY <1>1, <1>2
<1>4. /\ owed' \in [Notifies -> Nat]
      /\ \A m \in Notifies : owed[m] > 0 => owed'[m] > 0
      /\ owed'[n] > 0
  BY <1>1, <1>2 DEF Notifies
<1>5. TypeOK'
  BY <1>1, <1>3, <1>4 DEF Inv, TypeOK
<1>6. Slots'
  BY <1>1 DEF Inv, Slots, Kind
<1>7. /\ At' = At
      /\ \A m \in Names : /\ NothingRuns(m) => NothingRuns(m)'
                          /\ Retired(m) => Retired(m)'
                          /\ m # n /\ NothingRuns(m)' => NothingRuns(m)
  BY <1>1, <1>2 DEF At, NothingRuns, Retired, Inv, TypeOK
<1>8. worker.step \in {"await", "retire", "drop"} => At \in Names
  BY AtIsLeft DEF Inv, Closing, TypeOK
<1>9. Closing'
  BY <1>1, <1>7, <1>8 DEF Inv, TypeOK, Closing
<1>10. WorkerOwed'
  <2>1. CASE worker.step = "await" /\ At = n
    BY <1>1, <1>4, <1>7, <2>1 DEF WorkerOwed
  <2>2. CASE worker.step = "await" /\ At # n
    BY <1>1, <1>4, <1>7, <1>8, <2>2, Owing DEF Inv, WorkerOwed, Notifies
  <2> QED
    BY <1>1, <2>1, <2>2 DEF WorkerOwed
<1>11. DrainOwed'
  BY <1>1, <1>4, Owing DEF Inv, TypeOK, DrainOwed, Notifies
<1>12. ClientOwed'
  BY <1>1, <1>4, LookKept, Owing DEF Inv, Called, ClientOwed, Notifies
<1> QED
  BY <1>1, <1>5, <1>6, <1>9, <1>10, <1>11, <1>12, Owing, RecordsKept, AnswersKept
     DEF Inv

\* Whoever is not reached by this call waits on another Notify.
LEMMA NotifyInv == ASSUME Inv, NEW n \in Notifies, NotifyWaiters(n) PROVE Inv'
<1>1. /\ UNCHANGED <<entries, closed, result, phase, opened, active, current, last,
                     task, previous, worker, client, journal>>
      /\ owed[n] > 0
      /\ owed' = [owed EXCEPT ![n] = @ - 1]
      /\ armed' = [armed EXCEPT ![n] = {}]
  BY DEF NotifyWaiters
<1>2. /\ owed' \in [Notifies -> Nat]
      /\ armed' \in [Notifies -> SUBSET Waiters]
      /\ \A m \in Notifies : IF m = n THEN armed'[m] = {}
                              ELSE armed'[m] = armed[m] /\ owed'[m] = owed[m]
  BY <1>1 DEF Inv, TypeOK
<1>3. TypeOK'
  BY <1>1, <1>2 DEF Inv, TypeOK
<1>4. Slots'
  BY <1>1 DEF Inv, Slots, Kind
<1>5. At' = At /\ \A m \in Names : /\ NothingRuns(m)' <=> NothingRuns(m)
                                   /\ Retired(m)' <=> Retired(m)
  BY <1>1 DEF At, NothingRuns, Retired
<1>6. worker.step \in {"await", "retire", "drop"} => At \in Names
  BY AtIsLeft DEF Inv, Closing, TypeOK
<1>7. Closing'
  BY <1>1, <1>5, <1>6 DEF Inv, TypeOK, Closing
<1>8. DrainOwed'
  BY <1>1, <1>2, Owing DEF Inv, DrainOwed, Notifies
<1>9. WorkerOwed'
  BY <1>1, <1>2, <1>5, <1>6, Owing DEF Inv, WorkerOwed, Notifies
<1>10. ClientOwed'
  BY <1>1, <1>2, LookKept, Owing DEF Inv, Called, ClientOwed, Notifies
<1> QED
  BY <1>1, <1>3, <1>4, <1>7, <1>8, <1>9, <1>10, Owing, RecordsKept, AnswersKept
     DEF Inv

-----------------------------------------------------------------------------
(* The callers. *)

\* As long as a caller has to wait its operation is the current one.
LEMMA WaitsForCurrent ==
    ASSUME Inv, NEW c \in Clients, client[c].call = "wait", Look(c) = None
    PROVE  current[client[c].on] = client[c].id /\ client[c].id # None
<1> DEFINE n == client[c].on
           id == client[c].id
<1>1. n \in Names /\ id \in Ids
  BY DEF Inv, Called
<1>2. last[n] # None => last[n].outcome \in Outcomes
  BY <1>1 DEF Inv, TypeOK, LastRecord
<1>3. id \in 1..MaxOperations
  BY <1>1, BoundsAreCounts DEF Inv, TypeOK, Recorded, Ids
<1>4. Operation(n, id) \in {"running", None}
  BY DEF Look
<1>5. current[n] # id => Operation(n, id) \in Outcomes \cup {"not_found"}
  BY <1>2 DEF Operation
<1> QED
  BY <1>3, <1>4, <1>5, NoneIsNothing DEF Outcomes

\* What a caller is told is true of its operation in the journal.
LEMMA LookIsTruthful ==
    ASSUME Inv, NEW c \in Clients, client[c].call = "wait", Look(c) # None
    PROVE  LET op == journal[client[c].id]
           IN  IF Look(c) = "not_found"
               THEN \/ op.name # client[c].on
                    \/ /\ op.outcome # "running"
                       /\ \E id \in Ids : /\ id > client[c].id
                                          /\ journal[id].name = op.name
                                          /\ journal[id].outcome # "running"
               ELSE op.name = client[c].on /\ op.outcome = Look(c)
<1> DEFINE n == client[c].on
           id == client[c].id
           op == journal[id]
<1>1. n \in Names /\ id \in Ids /\ id \in Nat
  BY DEF Inv, Called, TypeOK, Ids
<1>2. Operation(n, id) # "running" /\ Look(c) = Operation(n, id)
  BY DEF Look
<1>3. current[n] # id
  BY <1>2 DEF Operation
<1>4. last[n] # None =>
         /\ last[n].id \in Ids /\ last[n].id \in Nat
         /\ last[n].outcome \in Outcomes
         /\ journal[last[n].id].name = n
         /\ journal[last[n].id].outcome = last[n].outcome
  BY <1>1 DEF Inv, TypeOK, LastRecord, Recorded
<1>5. CASE last[n] # None /\ last[n].id = id
  <2>1. Look(c) = last[n].outcome
    BY <1>2, <1>3, <1>5 DEF Operation
  <2> QED
    BY <1>4, <1>5, <2>1 DEF Outcomes
<1>6. CASE ~(last[n] # None /\ last[n].id = id)
  <2>1. Look(c) = "not_found"
    BY <1>2, <1>3, <1>6 DEF Operation
  <2>2. CASE op.name = n
    <3>1. op.outcome # "running" /\ last[n] # None /\ id <= last[n].id
      BY <1>1, <1>3, <2>2 DEF Inv, Recorded
    <3>2. last[n].id > id
      BY <1>1, <1>4, <1>6, <3>1
    <3> QED
      BY <1>4, <2>1, <2>2, <3>1, <3>2 DEF Outcomes
  <2> QED
    BY <2>1, <2>2
<1> QED
  BY <1>5, <1>6

\* A caller moves on: the others, the drains and the shutdown task see nothing of it.
LEMMA CallerMoves ==
    ASSUME Inv, NEW c \in Clients, NEW a \in Calls,
           client' = [client EXCEPT ![c] = a],
           UNCHANGED <<entries, result, phase, opened, active, current, last, task,
                       previous, owed, journal>>,
           a.step # "none" => a.call \in {"wait", "shutdown"},
           a.call = "wait" => a.on \in Names /\ a.id \in Ids,
           a.call = "shutdown" => a.on = Shutdown,
           a.step = "await" => Look(c)' = None,
           a.call = "wait" /\ a.step = "answered" =>
               /\ client[c].call = "wait" /\ a.on = client[c].on /\ a.id = client[c].id
               /\ a.answer = Look(c) /\ Look(c) # None,
           armed' = armed \/ Arm(c, a.on) \/ Disarm(c, a.on),
           a.on \in Notifies,
           closed' \in BOOLEAN, worker' = worker \/ worker'.step = "arm",
           worker' \in [step: {"none", "arm", "test", "await", "retire", "drop", "done"},
                       todo: SUBSET Names],
           Closing'
    PROVE  Inv'
<1>1. /\ armed' \in [Notifies -> SUBSET Waiters]
      /\ \A v : v # c => \A m \in Notifies : v \in armed'[m] <=> v \in armed[m]
  <2>1. CASE armed' = armed
    BY <2>1 DEF Inv, TypeOK
  <2>2. CASE Arm(c, a.on) \/ Disarm(c, a.on)
    <3>1. Waiters \cup {c} = Waiters /\ TypeOK
      BY DEF Inv, Waiters
    <3> QED
      BY <2>2, <3>1, OthersKeepArmed
  <2> QED
    BY <2>1, <2>2
<1>2. \A d \in Clients : client'[d] = IF d = c THEN a ELSE client[d]
  BY DEF Inv, TypeOK
<1>3. TypeOK'
  BY <1>1 DEF Inv, TypeOK
<1>4. Slots' /\ Recorded'
  BY RecordsKept DEF Inv, Slots, Kind
<1>5. Called'
  BY <1>2 DEF Inv, Called, Ids
<1>6. DrainOwed'
  BY <1>1, ClientsAreCallers, Owing DEF Inv, DrainOwed, Notifies
<1>7. WorkerOwed'
  <2>1. CASE worker' = worker /\ worker.step = "await"
    <3>1. At' = At /\ At \in Notifies /\ (NothingRuns(At)' <=> NothingRuns(At))
      BY <2>1, AtIsLeft DEF Inv, Closing, TypeOK, Notifies, At, NothingRuns
    <3> QED
      BY <1>1, <2>1, <3>1, ClientsAreCallers, Owing DEF Inv, WorkerOwed
  <2> QED
    BY <2>1 DEF WorkerOwed
<1>8. ClientOwed'
  <2>1. \A d \in Clients : d # c => Look(d)' = Look(d)
    <3> SUFFICES ASSUME NEW d \in Clients, d # c PROVE Look(d)' = Look(d)
      OBVIOUS
    <3>1. client'[d] = client[d]
      BY <1>2
    <3>2. Operation(client[d].on, client[d].id)' = Operation(client[d].on, client[d].id)
      BY <3>1 DEF Operation
    <3> QED
      BY <3>1, <3>2 DEF Look
  <2>2. \A d \in Clients : client[d].step = "await" => client[d].on \in Notifies
    BY DEF Inv, Called, Notifies
  <2> QED
    BY <1>1, <1>2, <2>1, <2>2, Owing DEF Inv, ClientOwed
<1>9. AnswersAreTruthful'
  <2> SUFFICES ASSUME NEW d \in Clients,
                      client'[d].call = "wait" /\ client'[d].step = "answered"
               PROVE  LET op == journal[client'[d].id]
                      IN  IF client'[d].answer = "not_found"
                          THEN \/ op.name # client'[d].on
                               \/ /\ op.outcome # "running"
                                  /\ \E id \in Ids : /\ id > client'[d].id
                                                     /\ journal[id].name = op.name
                                                     /\ journal[id].outcome # "running"
                          ELSE op.name = client'[d].on /\ op.outcome = client'[d].answer
    BY DEF AnswersAreTruthful, Ids
  <2>1. CASE d = c
    BY <1>2, <2>1, LookIsTruthful
  <2>2. CASE d # c
    BY <1>2, <2>2 DEF Inv, AnswersAreTruthful
  <2> QED
    BY <2>1, <2>2
<1> QED
  BY <1>3, <1>4, <1>5, <1>6, <1>7, <1>8, <1>9, Owing DEF Inv

\* Nothing that Closing speaks of has changed.
LEMMA ClosingKept ==
    ASSUME Inv, UNCHANGED <<entries, closed, result, phase, opened, active, current,
                            worker>>
    PROVE  Closing'
BY DEF Inv, Closing, Retired, NothingRuns, At

\* A caller asks about an operation.
LEMMA WaitOperationInv ==
    ASSUME Inv, NEW c \in Clients, NEW n \in Names, NEW id \in Ids,
           WaitOperation(c, n, id)
    PROVE  Inv'
<1> DEFINE a == [call |-> "wait", step |-> "arm", on |-> n, id |-> id,
                 answer |-> None]
<1>1. id \in 1..MaxOperations
  BY BoundsAreCounts DEF Inv, TypeOK, Recorded, Ids
<1>2. a \in Calls /\ a.on \in Notifies
  BY <1>1 DEF Calls, Notifies
<1>3. /\ client' = [client EXCEPT ![c] = a]
      /\ UNCHANGED <<entries, closed, result, phase, opened, active, current, last,
                     task, previous, worker, armed, owed, journal>>
  BY DEF WaitOperation, Loop
<1>4. Closing'
  BY <1>3, ClosingKept
<1>5. /\ a.call = "wait" /\ a.step = "arm" /\ a.on = n /\ a.id = id
      /\ closed' \in BOOLEAN
      /\ worker' \in [step: {"none", "arm", "test", "await", "retire", "drop", "done"},
                     todo: SUBSET Names]
  BY <1>3 DEF Inv, TypeOK
<1> HIDE DEF a
<1> QED
  BY <1>2, <1>3, <1>4, <1>5, CallerMoves

\* notified(), the look and the await of a caller.
LEMMA ClientStepInv == ASSUME Inv, NEW c \in Clients, ClientStep(c) PROVE Inv'
<1>1. /\ UNCHANGED <<entries, closed, result, phase, opened, active, current, last,
                     task, previous, worker, owed, journal>>
      /\ client[c].step \in {"arm", "test", "await"}
  BY DEF ClientStep, ClientArm, ClientTest, ClientWoken
<1>2. /\ client[c] \in Calls
      /\ client[c].call \in {"wait", "shutdown"}
      /\ client[c].call = "wait" => client[c].on \in Names /\ client[c].id \in Ids
      /\ client[c].call = "shutdown" => client[c].on = Shutdown
      /\ client[c].on \in Notifies
  BY <1>1 DEF Inv, TypeOK, Called, Notifies
<1>3. /\ Closing' /\ closed' \in BOOLEAN
      /\ worker' \in [step: {"none", "arm", "test", "await", "retire", "drop", "done"},
                     todo: SUBSET Names]
  BY <1>1, ClosingKept DEF Inv, TypeOK
<1>4. Look(c) \in {None, "not_found", "ok", "error"} \cup Outcomes
  <2>1. client[c].call = "wait" =>
           Operation(client[c].on, client[c].id) \in {"running", "not_found"} \cup Outcomes
    BY <1>2 DEF Operation, Inv, TypeOK, LastRecord
  <2>2. result \in {None, "ok", "error"}
    BY DEF Inv, TypeOK
  <2> QED
    BY <1>2, <2>1, <2>2 DEF Look
<1>5. PICK a \in Calls :
         /\ client' = [client EXCEPT ![c] = a]
         /\ a.call = client[c].call /\ a.on = client[c].on /\ a.id = client[c].id
         /\ a.step \in {"arm", "test", "await", "answered"}
         /\ a.step = "await" => Look(c) = None
         /\ a.step = "answered" => a.answer = Look(c) /\ Look(c) # None
         /\ armed' = armed \/ Arm(c, a.on) \/ Disarm(c, a.on)
  <2>1. CASE ClientArm(c)
    <3> DEFINE a == [client[c] EXCEPT !.step = "test"]
    <3>1. a \in Calls /\ a.call = client[c].call /\ a.on = client[c].on
          /\ a.id = client[c].id /\ a.step = "test"
      BY <1>2 DEF Calls
    <3>2. client' = [client EXCEPT ![c] = a] /\ Arm(c, client[c].on)
      BY <2>1 DEF ClientArm, Loop, Inv, TypeOK
    <3> HIDE DEF a
    <3> QED
      BY <3>1, <3>2
  <2>2. CASE ClientTest(c) /\ Look(c) # None
    <3> DEFINE a == [client[c] EXCEPT !.step = "answered", !.answer = Look(c)]
    <3>1. a \in Calls /\ a.call = client[c].call /\ a.on = client[c].on
          /\ a.id = client[c].id /\ a.step = "answered" /\ a.answer = Look(c)
      BY <1>2, <1>4 DEF Calls
    <3>2. client' = [client EXCEPT ![c] = a] /\ Disarm(c, client[c].on)
      BY <2>2 DEF ClientTest, Inv, TypeOK
    <3> HIDE DEF a
    <3> QED
      BY <2>2, <3>1, <3>2
  <2>3. CASE ClientTest(c) /\ Look(c) = None
    <3> DEFINE a == [client[c] EXCEPT !.step = "await"]
    <3>1. a \in Calls /\ a.call = client[c].call /\ a.on = client[c].on
          /\ a.id = client[c].id /\ a.step = "await"
      BY <1>2 DEF Calls
    <3>2. client' = [client EXCEPT ![c] = a] /\ armed' = armed
      BY <2>3 DEF ClientTest, Loop, Inv, TypeOK
    <3> HIDE DEF a
    <3> QED
      BY <2>3, <3>1, <3>2
  <2>4. CASE ClientWoken(c)
    <3> DEFINE a == [client[c] EXCEPT !.step = "arm"]
    <3>1. a \in Calls /\ a.call = client[c].call /\ a.on = client[c].on
          /\ a.id = client[c].id /\ a.step = "arm"
      BY <1>2 DEF Calls
    <3>2. client' = [client EXCEPT ![c] = a] /\ armed' = armed
      BY <2>4 DEF ClientWoken, Loop, Inv, TypeOK
    <3> HIDE DEF a
    <3> QED
      BY <3>1, <3>2
  <2> QED
    BY <2>1, <2>2, <2>3, <2>4 DEF ClientStep
<1>6. client'[c] = a
  BY <1>5 DEF Inv, TypeOK
<1>7. Look(c)' = Look(c)
  <2>1. Operation(client[c].on, client[c].id)' = Operation(client[c].on, client[c].id)
    BY <1>1, <1>5, <1>6 DEF Operation
  <2> QED
    BY <1>1, <1>5, <1>6, <2>1 DEF Look
<1> QED
  BY <1>1, <1>2, <1>3, <1>5, <1>7, CallerMoves

-----------------------------------------------------------------------------
(* Shutdown. *)

WorkerSteps == {"none", "arm", "test", "await", "retire", "drop", "done"}

\* Closing the registry and collecting its databases is one critical section.
LEMMA Collected ==
    ASSUME Inv, StartShutdown,
           UNCHANGED <<entries, result, phase, opened, active, current>>
    PROVE  /\ closed' \in BOOLEAN /\ (worker' = worker \/ worker'.step = "arm")
           /\ worker' \in [step: WorkerSteps, todo: SUBSET Names]
           /\ Closing'
<1>1. CASE closed
  BY <1>1, ClosingKept DEF StartShutdown, Inv, TypeOK, WorkerSteps
<1>2. CASE ~closed
  <2>1. closed' = TRUE /\ worker' = [step |-> "arm", todo |-> entries]
    BY <1>2 DEF StartShutdown, Loop
  <2>2. result # "ok" /\ entries \subseteq Names
    BY <1>2 DEF Inv, Closing, TypeOK
  <2> QED
    BY <2>1, <2>2 DEF Closing, WorkerSteps
<1> QED
  BY <1>1, <1>2

\* A caller starts the shutdown, or finds it started, and waits for it.
LEMMA CallShutdownInv == ASSUME Inv, NEW c \in Clients, CallShutdown(c) PROVE Inv'
<1> DEFINE a == [call |-> "shutdown", step |-> "arm", on |-> Shutdown, id |-> None,
                 answer |-> None]
<1>1. a \in Calls /\ a.on \in Notifies
  BY DEF Calls, Notifies
<1>2. /\ client' = [client EXCEPT ![c] = a] /\ StartShutdown
      /\ UNCHANGED <<entries, result, phase, opened, active, current, last, task,
                     previous, armed, owed, journal>>
  BY DEF CallShutdown, Loop
<1>3. a.call = "shutdown" /\ a.step = "arm" /\ a.on = Shutdown
  OBVIOUS
<1> HIDE DEF a
<1> QED
  BY <1>1, <1>2, <1>3, Collected, CallerMoves DEF WorkerSteps

\* The shutdown task, or its start, moves on; what it has to show for it is
\* that Closing still holds, and that it awaits only what is not quiet.
LEMMA WorkerMoves ==
    ASSUME Inv, NEW n \in Notifies,
           UNCHANGED <<entries, active, current, last, task, previous, client, journal>>,
           closed' \in BOOLEAN, worker' \in [step: WorkerSteps, todo: SUBSET Names],
           result' \in {None, "ok", "error"},
           phase' \in [Names -> Phases], opened' \in [Names -> BOOLEAN],
           armed' = armed \/ Arm("worker", n) \/ Disarm("worker", n),
           owed' = owed \/ Owe(n),
           result' = result \/ (n = Shutdown /\ Owe(n)),
           worker'.step = "await" => ~NothingRuns(At)',
           Closing'
    PROVE  Inv'
<1>1. /\ armed' \in [Notifies -> SUBSET Waiters]
      /\ \A v : v # "worker" => \A m \in Notifies : v \in armed'[m] <=> v \in armed[m]
  <2>1. CASE armed' = armed
    BY <2>1 DEF Inv, TypeOK
  <2>2. CASE Arm("worker", n) \/ Disarm("worker", n)
    <3>1. Waiters \cup {"worker"} = Waiters /\ TypeOK
      BY DEF Inv, Waiters
    <3> QED
      BY <2>2, <3>1, OthersKeepArmed
  <2> QED
    BY <2>1, <2>2
<1>2. /\ owed' \in [Notifies -> Nat]
      /\ \A m \in Notifies : owed[m] > 0 => owed'[m] > 0
      /\ Owe(n) => owed'[n] > 0
  <2>1. owed \in [Notifies -> Nat]
    BY DEF Inv, TypeOK
  <2> QED
    BY <2>1 DEF Owe
<1>3. TypeOK'
  BY <1>1, <1>2 DEF Inv, TypeOK, WorkerSteps
<1>4. Slots' /\ Recorded' /\ AnswersAreTruthful' /\ Called'
  BY RecordsKept, AnswersKept DEF Inv, Slots, Kind
<1>5. DrainOwed'
  BY <1>1, <1>2, Owing DEF Inv, DrainOwed, Notifies
<1>6. WorkerOwed'
  BY DEF WorkerOwed
<1>7. ClientOwed'
  <2> SUFFICES ASSUME NEW c \in Clients, client[c].step = "await",
                      c \in armed'[client[c].on]
               PROVE  Look(c)' = None \/ owed'[client[c].on] > 0
    BY DEF ClientOwed
  <2>1. client[c].on \in Notifies /\ c # "worker"
    BY ClientsAreCallers DEF Inv, Called, Notifies
  <2>2. Look(c) = None \/ owed[client[c].on] > 0
    BY <1>1, <2>1, Owing DEF Inv, ClientOwed
  <2>3. CASE client[c].call = "shutdown" /\ result' # result
    BY <1>2, <2>3 DEF Inv, Called
  <2>4. CASE ~(client[c].call = "shutdown" /\ result' # result)
    <3>1. Look(c)' = Look(c)
      BY <2>4 DEF Look, Operation
    <3> QED
      BY <1>2, <2>1, <2>2, <3>1
  <2> QED
    BY <2>3, <2>4
<1> QED
  BY <1>3, <1>4, <1>5, <1>6, <1>7, Owing DEF Inv

\* The shutdown is started by the server.
LEMMA BeginShutdownInv == ASSUME Inv, BeginShutdown PROVE Inv'
<1>1. /\ UNCHANGED <<entries, result, phase, opened, active, current, last, task,
                     previous, client, armed, owed, journal>>
      /\ StartShutdown /\ ~closed
  BY DEF BeginShutdown
<1>2. worker'.step # "await"
  BY <1>1 DEF StartShutdown, Loop
<1>3. Shutdown \in Notifies
  BY DEF Notifies
<1>4. /\ phase' \in [Names -> Phases] /\ opened' \in [Names -> BOOLEAN]
      /\ result' \in {None, "ok", "error"}
  BY <1>1 DEF Inv, TypeOK
<1> QED
  BY <1>1, <1>2, <1>3, <1>4, Collected, WorkerMoves

\* The shutdown task retires what it has found quiet, and only that.
LEMMA WorkerStepInv == ASSUME Inv, WorkerStep PROVE Inv'
<1>1. /\ UNCHANGED <<entries, closed, active, current, last, task, previous, client,
                     journal>>
      /\ closed' \in BOOLEAN
  BY DEF WorkerStep, WorkerArm, WorkerTest, WorkerWoken, WorkerRetire, WorkerDrop,
         WorkerEnds, Inv, TypeOK
<1>2. /\ worker \in [step: WorkerSteps, todo: SUBSET Names]
      /\ phase \in [Names -> Phases] /\ opened \in [Names -> BOOLEAN]
      /\ result \in {None, "ok", "error"}
      /\ worker.todo \subseteq entries /\ entries \subseteq Names
      /\ Shutdown \in Notifies /\ Names \subseteq Notifies
  BY DEF Inv, TypeOK, Closing, WorkerSteps, Notifies
<1>3. worker.todo # {} => At \in worker.todo /\ At \in Notifies
  BY <1>2, AtIsLeft DEF Inv
<1>4. worker.step # "none" => closed
  BY DEF Inv, Closing
<1>5. CASE WorkerArm \/ WorkerTest \/ WorkerWoken
  <2>1. PICK t \in {"arm", "test", "await", "retire"} :
           /\ worker' = [worker EXCEPT !.step = t]
           /\ t \in {"await", "retire"} => worker.step = "test"
           /\ t = "await" => ~NothingRuns(At)
           /\ t = "retire" => NothingRuns(At)
    BY <1>5 DEF WorkerArm, WorkerTest, WorkerWoken, Loop
  <2>2. /\ worker.step \in {"arm", "test", "await"} /\ worker.todo # {}
        /\ UNCHANGED <<phase, opened, result, owed>>
        /\ armed' = armed \/ Arm("worker", At) \/ Disarm("worker", At)
    BY <1>5 DEF WorkerArm, WorkerTest, WorkerWoken, Inv, Closing
  <2>3. /\ worker'.todo = worker.todo /\ worker'.step = t /\ At' = At
        /\ worker' \in [step: WorkerSteps, todo: SUBSET Names]
    BY <1>2, <2>1 DEF At, WorkerSteps
  <2>4. NothingRuns(At)' <=> NothingRuns(At)
    BY <1>1, <2>3 DEF NothingRuns
  <2>5. \A m \in Names : Retired(m)' <=> Retired(m)
    BY <1>1, <2>2 DEF Retired, NothingRuns
  <2>6. Closing'
    BY <1>1, <1>2, <1>4, <2>1, <2>2, <2>3, <2>4, <2>5 DEF Inv, Closing
  <2> QED
    BY <1>1, <1>2, <1>3, <2>1, <2>2, <2>3, <2>4, <2>6, WorkerMoves
<1>6. CASE WorkerRetire
  <2>1. /\ worker.step = "retire" /\ worker.todo # {} /\ NothingRuns(At)
        /\ phase' = [phase EXCEPT ![At] = "unregistered"]
        /\ opened' = [opened EXCEPT ![At] = FALSE]
        /\ worker' = [worker EXCEPT !.step = "drop"]
        /\ UNCHANGED <<result, armed, owed>>
    BY <1>6 DEF WorkerRetire, Inv, Closing
  <2>2. /\ worker'.todo = worker.todo /\ worker'.step = "drop" /\ At' = At
        /\ worker' \in [step: WorkerSteps, todo: SUBSET Names]
    BY <1>2, <2>1 DEF At, WorkerSteps
  <2>3. phase' \in [Names -> Phases]
    BY <1>2, <2>1 DEF Phases
  <2>4. opened' \in [Names -> BOOLEAN]
    BY <1>2, <2>1
  <2>5. \A m \in Names : Retired(m) => Retired(m)'
    BY <1>1, <1>2, <2>1 DEF Retired, NothingRuns
  <2>6. Retired(At)'
    BY <1>1, <1>2, <1>3, <2>1, <2>2 DEF Retired, NothingRuns
  <2>7. Closing'
    BY <1>1, <1>2, <1>4, <2>1, <2>2, <2>5, <2>6 DEF Inv, Closing
  <2> QED
    BY <1>1, <1>2, <1>3, <2>1, <2>2, <2>3, <2>4, <2>7, WorkerMoves
<1>7. CASE WorkerDrop
  <2>1. /\ worker.step = "drop" /\ worker.todo # {} /\ Retired(At)
        /\ Owe(At)
        /\ worker' = [step |-> "arm", todo |-> worker.todo \ {At}]
        /\ UNCHANGED <<result, phase, opened, armed>>
    BY <1>7 DEF WorkerDrop, Loop, Inv, Closing
  <2>2. /\ worker'.todo = worker.todo \ {At} /\ worker'.step = "arm"
        /\ worker' \in [step: WorkerSteps, todo: SUBSET Names]
    BY <1>2, <2>1 DEF WorkerSteps
  <2>3. \A m \in Names : Retired(m)' <=> Retired(m)
    BY <1>1, <2>1 DEF Retired, NothingRuns
  <2>4. result # "ok"
    BY <2>1 DEF Inv, Closing
  <2>5. Closing'
    BY <1>1, <1>2, <1>4, <2>1, <2>2, <2>3, <2>4 DEF Inv, Closing
  <2> QED
    BY <1>1, <1>2, <1>3, <2>1, <2>2, <2>5, WorkerMoves
<1>8. CASE \E r \in {"ok", "error"} : WorkerEnds(r)
  <2>1. PICK r \in {"ok", "error"} : WorkerEnds(r)
    BY <1>8
  <2>2. /\ worker.step \in {"arm", "drop"} /\ result' = r /\ Owe(Shutdown)
        /\ r = "ok" => worker.todo = {}
        /\ worker' = [worker EXCEPT !.step = "done"]
        /\ UNCHANGED <<phase, opened, armed>>
    BY <2>1 DEF WorkerEnds, Loop
  <2>3. /\ worker'.todo = worker.todo /\ worker'.step = "done"
        /\ worker' \in [step: WorkerSteps, todo: SUBSET Names]
    BY <1>2, <2>2 DEF WorkerSteps
  <2>4. \A m \in Names : Retired(m)' <=> Retired(m)
    BY <1>1, <2>2 DEF Retired, NothingRuns
  <2>5. Closing'
    BY <1>1, <1>2, <1>4, <2>2, <2>3, <2>4 DEF Inv, Closing
  <2> QED
    BY <1>1, <1>2, <2>2, <2>3, <2>5, WorkerMoves
<1> QED
  BY <1>5, <1>6, <1>7, <1>8 DEF WorkerStep

-----------------------------------------------------------------------------
(* The beginning and the end of an operation. *)

\* begin writes one more operation into the journal, and into a slot that was
\* free: nobody waits for that database, and no shutdown has been started.
LEMMA OperationBegins ==
    ASSUME Inv, NEW n \in Names, NEW kind \in Kinds, Begin(n, kind),
           NEW s \in {"work", "arm"}, s = "arm" => kind = "unregister",
           task' = [task EXCEPT ![n] = s],
           entries' = entries \/ entries' = entries \cup {n},
           phase' = phase \/ phase' = [phase EXCEPT ![n] = "unregistering"],
           UNCHANGED <<closed, result, opened, active, last, previous, worker, client,
                       armed, owed>>
    PROVE  Inv'
<1> DEFINE new == Len(journal) + 1
           op == [name |-> n, kind |-> kind, outcome |-> "running"]
<1>1. /\ ~closed /\ current[n] = None /\ Len(journal) < MaxOperations
      /\ current' = [current EXCEPT ![n] = new]
      /\ journal' = Append(journal, op)
  BY DEF Begin, CheckOpen
<1>2. op \in Entry /\ op.name = n /\ op.kind = kind /\ op.outcome = "running"
  BY DEF Entry
<1>3. journal \in Seq(Entry) /\ Ids = 1..Len(journal) /\ Len(journal) \in Nat
  BY DEF Inv, TypeOK, Entry, Ids
<1> HIDE DEF op
<1>4. /\ journal' \in Seq(Entry) /\ Len(journal') = new /\ Ids' = 1..new
      /\ journal'[new] = op
      /\ \A id \in Ids : journal'[id] = journal[id]
  BY <1>1, <1>2, <1>3 DEF Ids
<1>5. new \in 1..MaxOperations /\ new \in Nat /\ new # None
  BY <1>1, <1>3, BoundsAreCounts, NoneIsNothing
<1>6. Ids' = Ids \cup {new} /\ \A id \in Ids : id \in Nat /\ id < new
  BY <1>3, <1>4
<1> HIDE DEF new
<1>7. \A m \in Names : current'[m] = IF m = n THEN new ELSE current[m]
  BY <1>1 DEF Inv, TypeOK
<1>8. TypeOK'
  <2>1. current' \in [Names -> 1..MaxOperations \cup {None}]
    BY <1>1, <1>5 DEF Inv, TypeOK
  <2>2. task' \in [Names -> {"none", "work", "arm", "test", "await", "quiet",
                            "succeeded", "failed"}]
    BY DEF Inv, TypeOK
  <2>3. phase' \in [Names -> Phases] /\ entries' \subseteq Names
    BY DEF Inv, TypeOK, Phases
  <2> QED
    BY <1>4, <2>1, <2>2, <2>3 DEF Inv, TypeOK, Entry
<1>9. Slots'
  <2> SUFFICES ASSUME NEW m \in Names
               PROVE  /\ task'[m] = "none" <=> current'[m] = None
                      /\ task'[m] \in {"arm", "test", "await", "quiet"} =>
                            Kind(m)' = "unregister" \/ previous'[m] \in Phases
    BY DEF Slots
  <2>1. CASE m = n
    BY <1>2, <1>4, <1>5, <1>7, <2>1 DEF Inv, TypeOK, Kind
  <2>2. CASE m # n
    <3>1. task'[m] = task[m] /\ current'[m] = current[m]
      BY <1>7, <2>2 DEF Inv, TypeOK
    <3>2. current[m] # None => Kind(m)' = Kind(m)
      BY <1>4, <3>1 DEF Inv, Recorded, Kind
    <3> QED
      BY <3>1, <3>2 DEF Inv, Slots
  <2> QED
    BY <2>1, <2>2
<1>10. Recorded'
  <2>1. Len(journal') <= MaxOperations
    BY <1>1, <1>3, <1>4, <1>5
  <2>2. \A m \in Names : current'[m] # None =>
           /\ current'[m] \in Ids'
           /\ journal'[current'[m]].name = m
           /\ journal'[current'[m]].outcome = "running"
           /\ last'[m] # None => last'[m].id < current'[m]
    <3> TAKE m \in Names
    <3>1. CASE m = n
      BY <1>2, <1>4, <1>6, <1>7, <3>1 DEF Inv, Recorded
    <3>2. CASE m # n
      BY <1>4, <1>6, <1>7, <3>2 DEF Inv, Recorded
    <3> QED
      BY <3>1, <3>2
  <2>3. \A m \in Names : last'[m] # None =>
           /\ last'[m].id \in Ids'
           /\ journal'[last'[m].id].name = m
           /\ journal'[last'[m].id].outcome = last'[m].outcome
    BY <1>4, <1>6 DEF Inv, Recorded
  <2>4. \A id \in Ids' :
           /\ journal'[id].outcome = "running" => current'[journal'[id].name] = id
           /\ journal'[id].outcome # "running" =>
                 last'[journal'[id].name] # None /\ id <= last'[journal'[id].name].id
    <3> TAKE id \in Ids'
    <3>1. CASE id = new
      BY <1>2, <1>4, <1>7, <3>1
    <3>2. CASE id \in Ids
      <4>1. journal'[id] = journal[id] /\ journal[id].name \in Names
        <5>1. journal[id] \in Entry
          BY <1>3, <3>2, ElementOfSeq
        <5> QED
          BY <1>4, <3>2, <5>1 DEF Entry
      <4>2. id # None
        BY <1>3, <1>5, <1>6, <3>2, <1>1, NoneIsNothing, BoundsAreCounts
      <4> QED
        BY <1>1, <1>7, <3>2, <4>1, <4>2 DEF Inv, Recorded
    <3> QED
      BY <1>6, <3>1, <3>2
  <2> QED
    BY <2>1, <2>2, <2>3, <2>4 DEF Recorded
<1>11. Called'
  BY <1>6 DEF Inv, Called
<1>12. worker.step = "none" /\ Closing' /\ WorkerOwed'
  BY <1>1 DEF Inv, Closing, WorkerOwed
<1>13. DrainOwed'
  BY Owing DEF Inv, TypeOK, DrainOwed
<1>14. ClientOwed'
  <2> SUFFICES ASSUME NEW c \in Clients, Look(c) = None,
                      client[c].call \in {"wait", "shutdown"}
               PROVE  Look(c)' = None
    BY Owing DEF Inv, Called, ClientOwed
  <2>1. CASE client[c].call = "wait"
    <3>1. client[c].on \in Names /\ current'[client[c].on] = client[c].id
      BY <1>1, <1>7, <2>1, WaitsForCurrent DEF Inv, Called
    <3> QED
      BY <2>1, <3>1 DEF Look, Operation
  <2>2. CASE client[c].call = "shutdown"
    BY <2>2 DEF Look
  <2> QED
    BY <2>1, <2>2
<1>15. AnswersAreTruthful'
  BY <1>4, <1>6 DEF Inv, Called, AnswersAreTruthful
<1> QED
  BY <1>8, <1>9, <1>10, <1>11, <1>12, <1>13, <1>14, <1>15, Owing DEF Inv

\* A publication or a removal is accepted.
LEMMA BeginInv ==
    ASSUME Inv, NEW n \in Names, Publish(n) \/ Unregister(n)
    PROVE  Inv'
<1>1. CASE Publish(n)
  BY <1>1, OperationBegins DEF Publish, Kinds
<1>2. CASE Unregister(n)
  BY <1>2, OperationBegins DEF Unregister, Kinds, Loop
<1> QED
  BY <1>1, <1>2

\* finish moves the record of an operation from current to last and owes a
\* notification to those who wait for it.
LEMMA FinishInv == ASSUME Inv, NEW n \in Names, Finish(n) PROVE Inv'
<1> DEFINE id == current[n]
           op == [journal[id] EXCEPT !.outcome = task[n]]
           rec == [id |-> id, outcome |-> task[n]]
<1>1. /\ task[n] \in Outcomes
      /\ phase' = [phase EXCEPT ![n] = FinalPhase(n)]
      /\ current' = [current EXCEPT ![n] = None]
      /\ last' = [last EXCEPT ![n] = rec]
      /\ task' = [task EXCEPT ![n] = "none"]
      /\ previous' = [previous EXCEPT ![n] = None]
      /\ owed' = [owed EXCEPT ![n] = @ + 1]
      /\ UNCHANGED <<entries, closed, result, opened, active, worker, client, armed>>
  BY DEF Finish, OweFinish, Owe, Outcomes
<1>2. /\ id # None /\ id \in Ids /\ id \in 1..MaxOperations
      /\ journal[id].name = n /\ journal[id].outcome = "running"
      /\ last[n] # None => last[n].id < id
  <2>1. id # None
    BY <1>1 DEF Inv, Slots, Outcomes
  <2> QED
    BY <2>1 DEF Inv, Recorded, TypeOK
<1>3. journal \in Seq(Entry) /\ journal[id] \in Entry
  <2>1. journal \in Seq(Entry)
    BY DEF Inv, TypeOK, Entry
  <2> QED
    BY <1>2, <2>1, ElementOfSeq DEF Ids
<1>4. /\ op \in Entry /\ op.name = n /\ op.kind = journal[id].kind
      /\ op.outcome = task[n]
      /\ rec \in LastRecord /\ rec.id = id /\ rec.outcome = task[n]
  BY <1>1, <1>2, <1>3 DEF Entry, Outcomes, LastRecord
<1>5. journal' = [journal EXCEPT ![id] = op]
  BY DEF Finish
<1> HIDE DEF op, rec
<1>6. /\ journal' \in Seq(Entry) /\ Ids' = Ids /\ Len(journal') = Len(journal)
      /\ \A i \in Ids : journal'[i] = IF i = id THEN op ELSE journal[i]
  BY <1>2, <1>3, <1>4, <1>5 DEF Ids
<1>7. /\ \A m \in Names : current'[m] = IF m = n THEN None ELSE current[m]
      /\ \A m \in Names : last'[m] = IF m = n THEN rec ELSE last[m]
  BY <1>1 DEF Inv, TypeOK
<1>8. rec # None
  BY <1>4, NoneIsNothing
<1>9. /\ owed' \in [Notifies -> Nat] /\ n \in Notifies
      /\ \A m \in Notifies : owed[m] > 0 => owed'[m] > 0
      /\ owed'[n] > 0
  <2>1. owed \in [Notifies -> Nat] /\ n \in Notifies
    BY DEF Inv, TypeOK, Notifies
  <2> QED
    BY <1>1, <2>1
<1>10. TypeOK'
  <2>1. FinalPhase(n) \in Phases
    BY DEF FinalPhase, Phases, Inv, TypeOK
  <2>2. phase' \in [Names -> Phases]
    BY <1>1, <2>1 DEF Inv, TypeOK
  <2>3. current' \in [Names -> 1..MaxOperations \cup {None}]
    BY <1>1 DEF Inv, TypeOK
  <2>4. last' \in [Names -> LastRecord \cup {None}]
    BY <1>1, <1>4 DEF Inv, TypeOK
  <2>5. task' \in [Names -> {"none", "work", "arm", "test", "await", "quiet",
                            "succeeded", "failed"}]
    BY <1>1 DEF Inv, TypeOK
  <2>6. previous' \in [Names -> Phases \cup {None}]
    BY <1>1 DEF Inv, TypeOK
  <2> QED
    BY <1>1, <1>6, <1>9, <2>2, <2>3, <2>4, <2>5, <2>6 DEF Inv, TypeOK, Entry
<1>11. Slots'
  <2> SUFFICES ASSUME NEW m \in Names
               PROVE  /\ task'[m] = "none" <=> current'[m] = None
                      /\ task'[m] \in {"arm", "test", "await", "quiet"} =>
                            Kind(m)' = "unregister" \/ previous'[m] \in Phases
    BY DEF Slots
  <2>1. CASE m = n
    BY <1>1, <1>7, <2>1 DEF Inv, TypeOK
  <2>2. CASE m # n
    <3>1. task'[m] = task[m] /\ current'[m] = current[m] /\ previous'[m] = previous[m]
      BY <1>1, <1>7, <2>2 DEF Inv, TypeOK
    <3>2. current[m] # None => current[m] \in Ids /\ current[m] # id
      BY <1>2, <2>2 DEF Inv, Recorded
    <3>3. current[m] # None => Kind(m)' = Kind(m)
      BY <1>6, <3>1, <3>2 DEF Kind
    <3> QED
      BY <3>1, <3>3 DEF Inv, Slots
  <2> QED
    BY <2>1, <2>2
<1>12. Recorded'
  <2>1. Len(journal') <= MaxOperations
    BY <1>6 DEF Inv, Recorded
  <2>2. \A m \in Names : current'[m] # None =>
           /\ current'[m] \in Ids'
           /\ journal'[current'[m]].name = m
           /\ journal'[current'[m]].outcome = "running"
           /\ last'[m] # None => last'[m].id < current'[m]
    BY <1>2, <1>6, <1>7 DEF Inv, Recorded
  <2>3. \A m \in Names : last'[m] # None =>
           /\ last'[m].id \in Ids'
           /\ journal'[last'[m].id].name = m
           /\ journal'[last'[m].id].outcome = last'[m].outcome
    <3> TAKE m \in Names
    <3>1. CASE m = n
      BY <1>2, <1>4, <1>6, <1>7, <3>1
    <3>2. CASE m # n
      BY <1>2, <1>6, <1>7, <3>2 DEF Inv, Recorded
    <3> QED
      BY <3>1, <3>2
  <2>4. \A i \in Ids' :
           /\ journal'[i].outcome = "running" => current'[journal'[i].name] = i
           /\ journal'[i].outcome # "running" =>
                 last'[journal'[i].name] # None /\ i <= last'[journal'[i].name].id
    <3> TAKE i \in Ids'
    <3>1. i \in Nat /\ id \in Nat /\ i \in Ids /\ journal[i].name \in Names
      <4>1. Ids = 1..Len(journal) /\ Len(journal) \in Nat
        BY <1>3 DEF Ids
      <4>2. journal[i] \in Entry
        BY <1>3, <1>6, <4>1, ElementOfSeq
      <4> QED
        BY <1>2, <1>6, <4>1, <4>2 DEF Entry
    <3>2. CASE i = id
      BY <1>1, <1>2, <1>4, <1>6, <1>7, <1>8, <3>1, <3>2 DEF Outcomes
    <3>3. CASE i # id
      <4>1. journal'[i] = journal[i]
        BY <1>6, <3>1, <3>3
      <4>2. CASE journal[i].name = n
        <5>1. journal[i].outcome # "running" /\ last[n] # None /\ i <= last[n].id
          BY <3>1, <3>3, <4>2 DEF Inv, Recorded
        <5>2. last[n].id \in Nat
          BY <5>1 DEF Inv, TypeOK, LastRecord
        <5>3. i <= id
          BY <1>2, <3>1, <5>1, <5>2
        <5> QED
          BY <1>4, <1>7, <1>8, <4>1, <4>2, <5>1, <5>3
      <4>3. CASE journal[i].name # n
        BY <1>7, <3>1, <4>1, <4>3 DEF Inv, Recorded
      <4> QED
        BY <4>2, <4>3
    <3> QED
      BY <3>2, <3>3
  <2> QED
    BY <2>1, <2>2, <2>3, <2>4 DEF Recorded
<1>13. Called'
  BY <1>1, <1>6 DEF Inv, Called
<1>14. /\ At' = At
       /\ \A m \in Names : /\ m # n => (NothingRuns(m)' <=> NothingRuns(m))
                           /\ Retired(m) => Retired(m)'
                           /\ NothingRuns(m) => m # n
  BY <1>1, <1>2, <1>7 DEF At, NothingRuns, Retired, Inv, TypeOK
<1>15. worker.step \in {"await", "retire", "drop"} => At \in Names
  BY AtIsLeft DEF Inv, Closing, TypeOK
<1>16. Closing'
  BY <1>1, <1>14, <1>15 DEF Inv, TypeOK, Closing
<1>17. DrainOwed'
  BY <1>1, <1>9, Owing DEF Inv, TypeOK, DrainOwed, Notifies
<1>18. WorkerOwed'
  <2>1. CASE worker.step = "await" /\ At = n
    BY <1>1, <1>9, <1>14, <2>1 DEF WorkerOwed
  <2>2. CASE worker.step = "await" /\ At # n
    BY <1>1, <1>9, <1>14, <1>15, <2>2, Owing DEF Inv, WorkerOwed, Notifies
  <2> QED
    BY <1>1, <2>1, <2>2 DEF WorkerOwed
<1>19. ClientOwed'
  <2> SUFFICES ASSUME NEW c \in Clients, client[c].on \in Notifies, client[c].on # n,
                      client[c].call \in {"wait", "shutdown"}, Look(c) = None
               PROVE  Look(c)' = None
    BY <1>1, <1>9, Owing DEF Inv, Called, ClientOwed, Notifies
  <2>1. CASE client[c].call = "wait"
    <3>1. client[c].on \in Names /\ current'[client[c].on] = client[c].id
      BY <1>1, <1>7, <2>1, WaitsForCurrent DEF Inv, Called
    <3> QED
      BY <1>1, <2>1, <3>1 DEF Look, Operation
  <2>2. CASE client[c].call = "shutdown"
    BY <1>1, <2>2 DEF Look
  <2> QED
    BY <2>1, <2>2
<1>20. AnswersAreTruthful'
  <2> SUFFICES ASSUME NEW c \in Clients, client[c].call = "wait",
                      client[c].step = "answered"
               PROVE  LET o == journal'[client[c].id]
                      IN  IF client[c].answer = "not_found"
                          THEN \/ o.name # client[c].on
                               \/ /\ o.outcome # "running"
                                  /\ \E i \in Ids : /\ i > client[c].id
                                                    /\ journal'[i].name = o.name
                                                    /\ journal'[i].outcome # "running"
                          ELSE o.name = client[c].on /\ o.outcome = client[c].answer
    BY <1>1, <1>6 DEF AnswersAreTruthful
  <2>1. client[c].id \in Ids /\ client[c] \in Calls
    BY DEF Inv, Called, TypeOK
  <2>2. \A i \in Ids : /\ journal'[i].name = journal[i].name
                       /\ journal[i].outcome # "running" => journal'[i] = journal[i]
    BY <1>2, <1>4, <1>6
  <2>3. client[c].answer # "running"
    BY <2>1, NoneIsNothing DEF Calls, Outcomes
  <2> QED
    BY <2>1, <2>2, <2>3 DEF Inv, AnswersAreTruthful
<1> QED
  BY <1>10, <1>11, <1>12, <1>13, <1>16, <1>17, <1>18, <1>19, <1>20, Owing DEF Inv

-----------------------------------------------------------------------------
(* The theorems. *)

\* Every step of the registry keeps the invariant.
LEMMA NextInv == Inv /\ [Next]_vars => Inv'
<1> SUFFICES ASSUME Inv, [Next]_vars PROVE Inv'
  OBVIOUS
<1>1. CASE Next
  <2>1. ASSUME NEW n \in Names,
               Publish(n) \/ Unregister(n) \/ Admit(n) \/ RequestEnds(n) \/ TaskStep(n)
        PROVE  Inv'
    BY <2>1, BeginInv, AdmitInv, RequestEndsInv, TaskMoves, FinishInv DEF TaskStep
  <2>2. ASSUME NEW c \in Clients,
               \/ ClientStep(c) \/ CallShutdown(c)
               \/ \E n \in Names, id \in Ids : WaitOperation(c, n, id)
        PROVE  Inv'
    BY <2>2, ClientStepInv, CallShutdownInv, WaitOperationInv
  <2> QED
    BY <1>1, <2>1, <2>2, NotifyInv, BeginShutdownInv, WorkerStepInv DEF Next
<1>2. CASE UNCHANGED vars
  <2>1. UNCHANGED <<entries, closed, result, phase, opened, active, current, last, task,
                    previous, worker, client, armed, owed, journal>>
    BY <1>2 DEF vars
  <2>2. TypeOK' /\ Slots' /\ DrainOwed' /\ ClientOwed'
    BY <2>1, LookKept, Owing DEF Inv, TypeOK, Slots, Kind, DrainOwed, ClientOwed
  <2>3. WorkerOwed'
    BY <2>1, Owing DEF Inv, WorkerOwed, NothingRuns, At
  <2> QED
    BY <2>1, <2>2, <2>3, Owing, ClosingKept, RecordsKept, AnswersKept DEF Inv
<1> QED
  BY <1>1, <1>2

\* The slots, the journal, the callers and the shutdown task of the registry
\* stay in the order that begin, finish, the waits and start_shutdown keep.
THEOREM Invariance == Spec => []Inv
<1> QED
  BY InitInv, NextInv, PTL DEF Spec

\* The types: no counter of requests or notifications ever goes below zero.
THEOREM TypeCorrectness == Spec => []TypeOK
<1>1. Inv => TypeOK
  BY DEF Inv
<1> QED
  BY <1>1, Invariance, PTL

\* drain, wait_operation and the shutdown never lose a wake-up: each makes its
\* Notified before it looks at the state.
THEOREM NoLostWakeup == Spec => []WakeupIsOwed
<1>1. Inv => WakeupIsOwed
  BY DEF Inv
<1> QED
  BY <1>1, Invariance, PTL

\* wait_operation tells the outcome its operation had, and has never forgotten
\* the current or the last operation of a database.
THEOREM Truthful == Spec => []AnswersAreTruthful
<1>1. Inv => AnswersAreTruthful
  BY DEF Inv
<1> QED
  BY <1>1, Invariance, PTL

\* A shutdown that reports success has left out no database, however late it
\* was published: begin refuses once start_shutdown has collected them.
THEOREM ShutdownComplete == Spec => []ShutdownIsComplete
<1>1. Inv => ShutdownIsComplete
  BY DEF Inv, Closing, Retired, NothingRuns, ShutdownIsComplete
<1> QED
  BY <1>1, Invariance, PTL
=============================================================================
