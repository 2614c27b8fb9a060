---------------------------- MODULE MigrationPlan ----------------------------
(***************************************************************************)
(* The migration files of a directory, the history table of a database,    *)
(* and how a publication brings the second up to the first: Plan and       *)
(* Migrator of src/migration.rs, in the order run_publish of               *)
(* src/registry.rs calls them.                                             *)
(*                                                                         *)
(* Database knows a migration by its version only. Here it has a file      *)
(* name, a text and a checksum; files are edited and history rows are      *)
(* written by others, so both may disagree with what was applied.          *)
(***************************************************************************)
EXTENDS Integers, FiniteSets, SequencesExt

CONSTANTS
    Numbers,    \* numbers that file names begin with
    MaxVersion, \* the largest int64
    Labels,     \* the rest of a file name: leading zeros and description
    Sources,    \* texts
    MaxFiles,   \* bound on the files of the directory
    MaxEdits    \* bound on the rows that others write

ASSUME NumbersAreNatural == Numbers \subseteq Nat /\ MaxVersion \in Nat
ASSUME BoundsAreNatural == MaxFiles \in Nat /\ MaxEdits \in Nat

VARIABLES
    directory,  \* the files: [number, label, source]
    table,      \* the rows of __sqlrest_migrations
    step,       \* of the publication
    plan,       \* Plan.files, by version
    expected,   \* the history the plan was compared with
    pending,    \* files still to be applied, in order
    edits,      \* rows written by others so far
    settled     \* history variable: files and rows are as the last plan that
                \* passed the preflight left them

locals == <<plan, expected, pending>>
vars == <<directory, table, step, locals, edits, settled>>

File == [number: Numbers, label: Labels, source: Sources]
\* AppliedMigration. A checksum stands for the text it was computed from.
Row == [version: Numbers, number: Numbers, label: Labels, source: Sources,
        checksum: Sources]

-----------------------------------------------------------------------------
(* Pure functions of migration.rs. *)

\* The test of version(): a positive int64.
IsVersion(number) == number > 0 /\ number <= MaxVersion

\* The record of a file; its version is the number of its name.
AppliedMigration(file) ==
    [version |-> file.number, number |-> file.number, label |-> file.label,
     source |-> file.source, checksum |-> file.source]

\* Plan::load succeeds: every name has a version, and no two the same.
Loadable(files) ==
    /\ \A file \in files : IsVersion(file.number)
    /\ \A file, other \in files : file.number = other.number => file = other

Sorted(rows) ==
    \A i, j \in DOMAIN rows : i < j => rows[i].version < rows[j].version

\* The order of the BTreeMap of a plan, and of the query of the history.
ByVersion(rows) == CHOOSE s \in [1..Cardinality(rows) -> rows] : Sorted(s)

\* decode_history succeeds on the rows ordered by version.
Decodes(rows) ==
    \A i \in 1..Len(rows) :
       /\ IsVersion(rows[i].number)
       /\ rows[i].version = rows[i].number
       /\ rows[i].version > IF i = 1 THEN 0 ELSE rows[i - 1].version
       /\ rows[i].checksum = rows[i].source

Highest(rows) == IF rows = <<>> THEN 0 ELSE Last(rows).version

\* Defect: an applied file is looked up by its version only.
AppliedByVersion(files, rows) ==
    \A row \in ToSet(rows) : \E file \in files : file.version = row.version
\* Every applied migration is still there, unchanged.
AppliedAreUnchanged(files, rows) == ToSet(rows) \subseteq files

\* Plan::validate.
Validate(files, rows) ==
    /\ AppliedAreUnchanged(files, rows)
    /\ \A file \in files :
          \/ \E row \in ToSet(rows) : row.version = file.version
          \/ file.version > Highest(rows)

\* Defect: a file with the highest applied version is taken again.
IntoPendingInclusive(files, rows) ==
    ByVersion({file \in files : file.version >= Highest(rows)})
\* Plan::into_pending, after validate.
IntoPending(files, rows) ==
    ByVersion({file \in files : file.version > Highest(rows)})

-----------------------------------------------------------------------------
(* A publication. *)

Load ==
    /\ step = "idle"
    /\ Loadable(directory)
    /\ plan' = {AppliedMigration(file) : file \in directory}
    /\ step' = "loaded"
    /\ UNCHANGED <<directory, table, expected, pending, edits, settled>>

\* The history is read and compared with the plan.
Preflight ==
    /\ step = "loaded"
    /\ Decodes(ByVersion(table))
    /\ Validate(plan, ByVersion(table))
    /\ expected' = ByVersion(table)
    /\ pending' = IntoPending(plan, ByVersion(table))
    /\ step' = "planned"
    /\ settled' = (plan = {AppliedMigration(file) : file \in directory})
    /\ UNCHANGED <<directory, table, plan, edits>>

\* Defect: the history is not compared again.
NotRechecked == TRUE
\* The history is read again, behind the closed admission.
SameHistory == Decodes(ByVersion(table)) /\ ByVersion(table) = expected

Recheck ==
    /\ step = "planned"
    /\ SameHistory
    /\ step' = "apply"
    /\ UNCHANGED <<directory, table, locals, edits, settled>>

\* The version is the primary key of the table, and the name is unique.
Insertable(row) ==
    \A other \in table : /\ other.version # row.version
                         /\ <<other.number, other.label>> # <<row.number, row.label>>

\* Defect: the batch is applied from its end.
LastFile == Last(pending)
NextFile == Head(pending)

\* The transaction of the next file: its statements and its history row, made
\* of the bytes the plan owns.
Commits ==
    /\ step = "apply"
    /\ pending # <<>>
    /\ Insertable(NextFile)
    /\ table' = table \cup {NextFile}
    /\ UNCHANGED <<directory, edits, settled>>

\* The publication is over; its locals are gone.
Over == step' = "idle" /\ plan' = {} /\ expected' = <<>> /\ pending' = <<>>

\* Migrator::apply succeeds and the loop goes on.
Apply ==
    /\ Commits
    /\ pending' = Tail(pending)
    /\ UNCHANGED <<step, plan, expected>>

\* It commits, but the reply is lost.
ApplyUnknown == Commits /\ Over

Complete ==
    /\ step = "apply"
    /\ pending = <<>>
    /\ step' = "complete"
    /\ UNCHANGED <<directory, table, locals, edits, settled>>

\* Any step may fail; what is committed stays.
Fail ==
    /\ step \in {"loaded", "planned", "apply"}
    /\ Over
    /\ UNCHANGED <<directory, table, edits, settled>>

Finish ==
    /\ step = "complete"
    /\ Over
    /\ UNCHANGED <<directory, table, edits, settled>>

-----------------------------------------------------------------------------
(* Others. *)

\* A file is written, replaced or removed, at any moment.
EditDirectory ==
    /\ \E file \in File :
          \/ directory' = {f \in directory : \/ f.number # file.number
                                             \/ f.label # file.label} \cup {file}
          \/ directory' = directory \ {file}
    /\ Cardinality(directory') <= MaxFiles
    /\ settled' = FALSE
    /\ UNCHANGED <<table, step, locals, edits>>

\* Somebody else writes a row, before the publication looks for the last time.
EditTable ==
    /\ step \in {"idle", "loaded", "planned"}
    /\ edits < MaxEdits
    /\ edits' = edits + 1
    /\ \E row \in Row :
          /\ \A other \in table : other.version # row.version =>
                <<other.number, other.label>> # <<row.number, row.label>>
          /\ table' = {r \in table : r.version # row.version} \cup {row}
    /\ settled' = FALSE
    /\ UNCHANGED <<directory, step, locals>>

-----------------------------------------------------------------------------

Init ==
    /\ directory = {}
    /\ table = {}
    /\ step = "idle"
    /\ plan = {}
    /\ expected = <<>>
    /\ pending = <<>>
    /\ edits = 0
    /\ settled = TRUE

Next ==
    \/ Load \/ Preflight \/ Recheck \/ Apply \/ ApplyUnknown \/ Complete
    \/ Fail \/ Finish
    \/ EditDirectory \/ EditTable

Spec == Init /\ [][Next]_vars

-----------------------------------------------------------------------------
(* Properties. *)

\* The type invariant.
TypeOK ==
    /\ directory \subseteq File
    /\ table \subseteq Row
    /\ step \in {"idle", "loaded", "planned", "apply", "complete"}
    /\ plan \subseteq Row /\ \A file \in plan : file.version \in 1..MaxVersion
    /\ ToSet(expected) \subseteq Row
    /\ ToSet(pending) \subseteq plan
    /\ edits \in 0..MaxEdits
    /\ settled \in BOOLEAN

\* The reference definition of a plan that fits: the history is a prefix of
\* the files in the order of their versions, and the rest is what is pending.
\* The set and map operations of validate and into_pending compute just that.
HistoryIsPrefix ==
    step = "planned" => ByVersion(plan) = expected \o pending

\* A completed publication leaves exactly its plan in the table, although
\* files and rows were changed by others and earlier attempts failed midway.
CompletedIsThePlan == step = "complete" => table = plan

\* Nothing is applied on top of a history that cannot be trusted, nor does applying
\* make it one: every row has the version of its file name, a positive int64, and
\* the checksum of its text.
NothingOnCorruptHistory ==
    step = "apply" => \A row \in table : /\ row.version = row.number
                                         /\ row.version \in 1..MaxVersion
                                         /\ row.checksum = row.source

\* A batch that failed midway, or whose last reply was lost, never stands in
\* the way of its own retry: the same files fit the history they left behind.
RetryIsAccepted ==
    step = "idle" /\ settled =>
        /\ Loadable(directory)
        /\ Validate({AppliedMigration(file) : file \in directory}, ByVersion(table))
=============================================================================
