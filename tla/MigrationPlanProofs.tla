------------------------ MODULE MigrationPlanProofs ------------------------
(***************************************************************************)
(* A plan and a history that fit are the two parts of one sequence, and a  *)
(* publication only moves the border between them: for any files, texts and *)
(* histories, edited by others at any moment.                              *)
(***************************************************************************)
EXTENDS MigrationPlan, FiniteSetTheorems, SequenceTheorems, WellFoundedInduction, TLAPS

USE DEF locals

-----------------------------------------------------------------------------
(* The inductive invariant. *)

\* No two of the records have the same version.
Distinct(rows) == \A r, s \in rows : r.version = s.version => r = s

\* A set of rows that can be brought in the order of their versions.
Orderly(rows) == rows \subseteq Row /\ IsFiniteSet(rows) /\ Distinct(rows)

\* The files of a directory as Plan::load records them.
Recorded(files) == {AppliedMigration(file) : file \in files}

Types ==
    /\ directory \subseteq File /\ IsFiniteSet(directory)
    /\ Orderly(table)
    /\ step \in {"idle", "loaded", "planned", "apply", "complete"}
    /\ edits \in 0..MaxEdits
    /\ settled \in BOOLEAN

\* A plan was loaded: each file has the version of its name and the checksum of
\* its text.
PlanIsLoaded ==
    /\ Orderly(plan)
    /\ \A file \in plan : /\ IsVersion(file.version)
                          /\ file.version = file.number
                          /\ file.checksum = file.source

\* files is the rows applied and, after them, the rest in order.
Split(files, applied, rest) ==
    /\ rest \in Seq(Row) /\ Sorted(rest)
    /\ files = applied \cup ToSet(rest)
    /\ \A row \in applied, file \in ToSet(rest) : row.version < file.version

\* The plan is split into what the database has and what is pending: the rows
\* that were read until the admission is closed, those of the table from then on.
PlanIsSplit ==
    /\ step \in {"idle", "loaded"} => expected = <<>> /\ pending = <<>>
    /\ expected \in Seq(Row) /\ Sorted(expected) /\ ToSet(expected) \subseteq plan
    /\ ToSet(pending) \subseteq plan
    /\ step = "planned" => Split(plan, ToSet(expected), pending)
    /\ step = "apply" => Split(plan, table, pending)
    /\ step = "complete" => table = plan

\* While nobody edits files or rows, the table holds the first ones of the files.
SettledIsPrefix ==
    settled =>
        /\ Loadable(directory)
        /\ step # "idle" => plan = Recorded(directory)
        /\ table \subseteq Recorded(directory)
        /\ \A file \in Recorded(directory) \ table, row \in table :
              row.version < file.version

Inv == /\ Types
       /\ PlanIsLoaded
       /\ PlanIsSplit
       /\ SettledIsPrefix

-----------------------------------------------------------------------------
(* Ordering. *)

\* A nonempty set of numbers has a least one.
LEMMA LeastExists ==
    ASSUME NEW S, S \subseteq Nat, S # {}
    PROVE  \E x \in S : \A y \in S : x <= y
<1> DEFINE less == OpToRel(<, Nat)
<1>1. \E x \in S : \A y \in S : <<y, x>> \notin less
  BY NatLessThanWellFounded, WFMin
<1>2. \A x, y \in Nat : <<y, x>> \notin less => x <= y
  BY DEF OpToRel
<1> HIDE DEF less
<1> QED
  BY <1>1, <1>2

\* Versions are numbers.
LEMMA RowsHaveVersions ==
    \A row \in Row : row.version \in Nat /\ row.number \in Nat
BY NumbersAreNatural DEF Row

\* A part of what can be ordered can be ordered.
LEMMA PartsAreOrderly ==
    ASSUME NEW R, Orderly(R), NEW T \in SUBSET R
    PROVE  Orderly(T)
BY FS_Subset DEF Orderly, Distinct

\* Rows with different versions have a sorted sequence: by the smallest set of
\* them that had none.
LEMMA SortedExists ==
    ASSUME NEW R, Orderly(R)
    PROVE  \E s \in [1..Cardinality(R) -> R] : Sorted(s)
<1> DEFINE Bad(n, T) == /\ Cardinality(T) = n
                        /\ ~\E s \in [1..n -> T] : Sorted(s)
           Sizes == {n \in Nat : \E T \in SUBSET R : Bad(n, T)}
<1>1. SUFFICES Sizes = {}
  <2>1. Cardinality(R) \in Nat
    BY FS_CardinalityType DEF Orderly
  <2> QED
    BY <1>1, <2>1
<1>2. SUFFICES ASSUME Sizes # {} PROVE FALSE
  OBVIOUS
<1>3. PICK n \in Sizes : \A m \in Sizes : n <= m
  <2>1. Sizes \subseteq Nat
    OBVIOUS
  <2> HIDE DEF Sizes
  <2> QED
    BY <1>2, <2>1, LeastExists
<1>4. PICK T \in SUBSET R : Bad(n, T)
  OBVIOUS
<1>5. /\ n \in Nat /\ Orderly(T) /\ IsFiniteSet(T) /\ Cardinality(T) = n
      /\ T \subseteq Row
  BY <1>4, PartsAreOrderly DEF Orderly
<1>6. n # 0
  <2> SUFFICES ASSUME n = 0 PROVE FALSE
    OBVIOUS
  <2>1. [i \in 1..0 |-> i] \in [1..n -> T]
    OBVIOUS
  <2>2. Sorted([i \in 1..0 |-> i])
    BY DEF Sorted
  <2> QED
    BY <1>4, <2>1, <2>2
<1> DEFINE versions == {row.version : row \in T}
<1>7. T # {}
  BY <1>5, <1>6, FS_EmptySet
<1>8. versions \subseteq Nat /\ versions # {}
  BY <1>5, <1>7, RowsHaveVersions
<1>9. PICK v \in versions : \A w \in versions : v <= w
  <2> HIDE DEF versions
  <2> QED
    BY <1>8, LeastExists
<1>10. PICK first \in T : \A row \in T : first.version <= row.version
  BY <1>9
<1> DEFINE U == T \ {first}
<1>11. U \in SUBSET R /\ Cardinality(U) = n - 1 /\ n - 1 \in Nat
  <2>1. Cardinality(U) = Cardinality(T) - 1
    BY <1>5, <1>10, FS_RemoveElement
  <2> QED
    BY <1>4, <1>5, <1>6, <2>1
<1>12. n - 1 \notin Sizes
  BY <1>3, <1>5
<1>13. PICK u \in [1..(n - 1) -> U] : Sorted(u)
  BY <1>11, <1>12
<1>14. \A row \in U : first.version < row.version
  BY <1>5, <1>10, RowsHaveVersions DEF Orderly, Distinct
<1> DEFINE s == [i \in 1..n |-> IF i = 1 THEN first ELSE u[i - 1]]
<1>15. \A i \in 2..n : i - 1 \in 1..(n - 1) /\ s[i] = u[i - 1] /\ s[i] \in U
  BY <1>5, <1>13
<1>16. s[1] = first
  BY <1>5, <1>6
<1>17. s \in [1..n -> T]
  BY <1>5, <1>13
<1>18. Sorted(s)
  <2> SUFFICES ASSUME NEW i \in 1..n, NEW j \in 1..n, i < j
               PROVE  s[i].version < s[j].version
    BY <1>17 DEF Sorted
  <2>1. j \in 2..n
    BY <1>5
  <2> HIDE DEF s, U
  <2>2. CASE i = 1
    BY <1>14, <1>15, <1>16, <2>1, <2>2
  <2>3. CASE i # 1
    <3>1. i \in 2..n /\ i - 1 < j - 1
      BY <1>5, <2>3
    <3>2. u[i - 1].version < u[j - 1].version
      BY <1>13, <1>15, <2>1, <3>1 DEF Sorted
    <3> QED
      BY <1>15, <2>1, <3>1, <3>2
  <2> QED
    BY <2>2, <2>3
<1> QED
  BY <1>4, <1>17, <1>18

\* A sorted sequence has each row once.
LEMMA SortedIsInjective ==
    ASSUME NEW s \in Seq(Row), Sorted(s), NEW i \in 1..Len(s), NEW j \in 1..Len(s),
           s[i].version <= s[j].version
    PROVE  i <= j
<1>1. s[i] \in Row /\ s[j] \in Row
  BY ElementOfSeq
<1>2. DOMAIN s = 1..Len(s)
  BY LenProperties
<1>3. j < i => s[j].version < s[i].version
  BY <1>2 DEF Sorted
<1> QED
  BY <1>1, <1>3, RowsHaveVersions

\* The order of the versions has every row.
LEMMA Ordered ==
    ASSUME NEW R, Orderly(R)
    PROVE  /\ ByVersion(R) \in Seq(R) /\ ByVersion(R) \in Seq(Row)
           /\ Sorted(ByVersion(R))
           /\ ToSet(ByVersion(R)) = R
<1> DEFINE n == Cardinality(R)
           s == ByVersion(R)
<1>1. n \in Nat /\ IsFiniteSet(R) /\ R \subseteq Row
  BY FS_CardinalityType DEF Orderly
<1>2. s \in [1..n -> R] /\ Sorted(s)
  BY SortedExists DEF ByVersion
<1> HIDE DEF s
<1>3. s \in Seq(R) /\ Len(s) = n
  BY <1>1, <1>2
<1>4. s \in Seq(Row)
  BY <1>1, <1>3, SeqMonotonic
<1>5. \A i, j \in 1..n : s[i] = s[j] => i = j
  <2> TAKE i, j \in 1..n
  <2> HAVE s[i] = s[j]
  <2>1. s[i].version \in Nat
    BY <1>1, <1>2, RowsHaveVersions
  <2>2. i <= j /\ j <= i
    BY <1>2, <1>3, <1>4, <2>1, SortedIsInjective
  <2> QED
    BY <1>1, <2>2
<1>6. s \in Injection(1..n, R)
  BY <1>2, <1>5 DEF Injection, IsInjective
<1>7. Cardinality(1..n) = n
  BY <1>1, FS_Interval
<1>8. s \in Surjection(1..n, R)
  BY <1>1, <1>6, <1>7, FS_Injection
<1>9. ToSet(s) = R
  BY <1>2, <1>8 DEF Surjection, ToSet
<1> QED
  BY <1>2, <1>3, <1>4, <1>9 DEF s

\* The rows of a sequence and their places.
LEMMA SeqHasRows ==
    ASSUME NEW s \in Seq(Row)
    PROVE  /\ Len(s) \in Nat /\ DOMAIN s = 1..Len(s)
           /\ ToSet(s) = {s[i] : i \in 1..Len(s)} /\ ToSet(s) \subseteq Row
           /\ s = <<>> <=> ToSet(s) = {}
<1>1. Len(s) \in Nat /\ DOMAIN s = 1..Len(s)
  BY LenProperties
<1>2. \A i \in 1..Len(s) : s[i] \in Row
  BY ElementOfSeq
<1>3. s # <<>> => 1 \in 1..Len(s)
  BY EmptySeq
<1>4. s = <<>> => Len(s) = 0
  OBVIOUS
<1>5. ToSet(s) = {s[i] : i \in 1..Len(s)}
  BY <1>1 DEF ToSet
<1>6. ToSet(s) \subseteq Row
  BY <1>2, <1>5
<1>7. s = <<>> <=> ToSet(s) = {}
  <2>1. CASE s = <<>>
    <3>1. 1..Len(s) = {}
      BY <1>4, <2>1
    <3> QED
      BY <1>5, <2>1, <3>1
  <2>2. CASE s # <<>>
    BY <1>3, <1>5, <2>2
  <2> QED
    BY <2>1, <2>2
<1> QED
  BY <1>1, <1>5, <1>6, <1>7

\* Two sorted sequences of the same rows that agree so far go on alike.
LEMMA Follows ==
    ASSUME NEW s \in Seq(Row), Sorted(s), NEW t \in Seq(Row), Sorted(t),
           ToSet(s) = ToSet(t), NEW i \in 1..Len(s),
           \A k \in 1..(i - 1) : k \in 1..Len(t) /\ s[k] = t[k]
    PROVE  i \in 1..Len(t) /\ t[i].version <= s[i].version
<1>1. Len(s) \in Nat /\ Len(t) \in Nat /\ s[i] \in ToSet(s)
  BY SeqHasRows
<1>2. PICK j \in 1..Len(t) : t[j] = s[i]
  BY <1>1, SeqHasRows
<1>3. s[i].version \in Nat
  BY ElementOfSeq, RowsHaveVersions
<1>4. ~(j < i)
  <2> SUFFICES ASSUME j < i PROVE FALSE
    OBVIOUS
  <2>1. j \in 1..Len(s) /\ s[j] = s[i]
    BY <1>1, <1>2
  <2>2. i <= j
    BY <1>3, <2>1, SortedIsInjective
  <2> QED
    BY <1>1, <2>2
<1>5. i \in 1..Len(t) /\ i <= j
  BY <1>1, <1>4
<1>6. i < j => t[i].version < t[j].version
  BY <1>5, SeqHasRows DEF Sorted
<1>7. t[i].version \in Nat
  BY <1>5, ElementOfSeq, RowsHaveVersions
<1>8. t[i].version <= s[i].version
  <2>1. CASE i = j
    BY <1>2, <1>3, <2>1
  <2>2. CASE i < j
    BY <1>2, <1>3, <1>6, <1>7, <2>2
  <2> QED
    BY <1>1, <1>5, <2>1, <2>2
<1> QED
  BY <1>5, <1>8

\* There is one order.
LEMMA SortedIsUnique ==
    ASSUME NEW s \in Seq(Row), Sorted(s), NEW t \in Seq(Row), Sorted(t),
           ToSet(s) = ToSet(t), Distinct(ToSet(s))
    PROVE  s = t
<1> DEFINE same(i) == i \in 1..Len(s) /\ i \in 1..Len(t) /\ s[i] = t[i]
           Differ == {i \in (1..Len(s)) \cup (1..Len(t)) : ~same(i)}
<1>1. Len(s) \in Nat /\ Len(t) \in Nat
  BY LenProperties
<1>2. Differ = {}
  <2> SUFFICES ASSUME Differ # {} PROVE FALSE
    OBVIOUS
  <2>1. PICK i \in Differ : \A k \in Differ : i <= k
    <3>1. Differ \subseteq Nat
      OBVIOUS
    <3> HIDE DEF Differ
    <3> QED
      BY <3>1, LeastExists
  <2>2. \A k \in 1..(i - 1) : same(k)
    BY <1>1, <2>1
  <2>3. i \in 1..Len(s) => i \in 1..Len(t) /\ t[i].version <= s[i].version
    BY <2>2, Follows
  <2>4. i \in 1..Len(t) => i \in 1..Len(s) /\ s[i].version <= t[i].version
    BY <2>2, Follows
  <2>5. i \in 1..Len(s) /\ i \in 1..Len(t)
    BY <2>1, <2>3, <2>4
  <2>6. s[i].version \in Nat /\ t[i].version \in Nat
    BY <2>5, ElementOfSeq, RowsHaveVersions
  <2>7. s[i].version = t[i].version
    BY <2>3, <2>4, <2>5, <2>6
  <2>8. s[i] \in ToSet(s) /\ t[i] \in ToSet(s)
    BY <2>5, SeqHasRows
  <2> QED
    BY <2>1, <2>5, <2>7, <2>8 DEF Distinct
<1>3. \A i \in (1..Len(s)) \cup (1..Len(t)) : same(i)
  BY <1>2
<1>4. Len(s) = Len(t)
  <2>1. Len(s) # 0 => Len(s) <= Len(t)
    BY <1>1, <1>3
  <2>2. Len(t) # 0 => Len(t) <= Len(s)
    BY <1>1, <1>3
  <2> QED
    BY <1>1, <2>1, <2>2
<1> QED
  BY <1>3, <1>4, SeqEqual

\* Highest is the version of the last applied migration, and 0 without one.
LEMMA HighestIsHighest ==
    ASSUME NEW R, Orderly(R)
    PROVE  LET h == Highest(ByVersion(R))
           IN  /\ \A row \in R : row.version <= h
               /\ R = {} => h = 0
               /\ R # {} => \E row \in R : h = row.version
<1> DEFINE s == ByVersion(R)
<1>1. s \in Seq(Row) /\ Sorted(s) /\ ToSet(s) = R
  BY Ordered
<1> HIDE DEF s
<1>2. /\ Len(s) \in Nat /\ DOMAIN s = 1..Len(s)
      /\ R = {s[i] : i \in 1..Len(s)}
      /\ s = <<>> <=> R = {}
  BY <1>1, SeqHasRows
<1>3. CASE s = <<>>
  BY <1>2, <1>3 DEF Highest, s
<1>4. CASE s # <<>>
  <2>1. Len(s) \in 1..Len(s) /\ Highest(s) = s[Len(s)].version
    BY <1>1, <1>4, EmptySeq DEF Highest, Last
  <2>2. \A i \in 1..Len(s) : s[i].version <= s[Len(s)].version
    <3> TAKE i \in 1..Len(s)
    <3>1. s[i].version \in Nat /\ s[Len(s)].version \in Nat
      BY <1>1, <2>1, ElementOfSeq, RowsHaveVersions
    <3>2. i < Len(s) => s[i].version < s[Len(s)].version
      BY <1>1, <1>2, <2>1 DEF Sorted
    <3> QED
      BY <1>2, <3>1, <3>2
  <2>3. R # {} /\ \E row \in R : Highest(s) = row.version
    BY <1>2, <1>4, <2>1
  <2>4. \A row \in R : row.version <= Highest(s)
    BY <1>2, <2>1, <2>2
  <2> QED
    BY <2>3, <2>4 DEF s
<1> QED
  BY <1>3, <1>4

-----------------------------------------------------------------------------
(* Plans. *)

\* The files of a directory that can be loaded are a plan.
LEMMA LoadedIsPlan ==
    ASSUME NEW files \in SUBSET File, IsFiniteSet(files), Loadable(files)
    PROVE  /\ Orderly(Recorded(files))
           /\ \A file \in Recorded(files) : /\ IsVersion(file.version)
                                            /\ file.version = file.number
                                            /\ file.checksum = file.source
<1>1. \A file \in files : /\ AppliedMigration(file) \in Row
                          /\ AppliedMigration(file).version = file.number
                          /\ AppliedMigration(file).number = file.number
                          /\ AppliedMigration(file).checksum = file.source
                          /\ AppliedMigration(file).source = file.source
  BY DEF AppliedMigration, File, Row
<1>2. Distinct(Recorded(files))
  BY <1>1 DEF Distinct, Recorded, Loadable
<1>3. IsFiniteSet(Recorded(files))
  <2> DEFINE f == [file \in files |-> AppliedMigration(file)]
  <2>1. f \in Surjection(files, Recorded(files))
    BY DEF Surjection, Recorded
  <2> QED
    BY <2>1, FS_Surjection
<1> QED
  BY <1>1, <1>2, <1>3 DEF Orderly, Recorded, Loadable

\* The other way round: a directory whose record is a plan can be loaded.
LEMMA PlanIsLoadable ==
    ASSUME NEW files \in SUBSET File, Distinct(Recorded(files)),
           \A file \in Recorded(files) : IsVersion(file.version)
    PROVE  Loadable(files)
<1>1. \A file \in files : /\ AppliedMigration(file) \in Recorded(files)
                          /\ AppliedMigration(file).version = file.number
  BY DEF AppliedMigration, Recorded
<1>2. ASSUME NEW file \in files, NEW other \in files, file.number = other.number
      PROVE  file = other
  <2>1. AppliedMigration(file) = AppliedMigration(other)
    BY <1>1, <1>2 DEF Distinct
  <2>2. file.label = other.label /\ file.source = other.source
    BY <2>1 DEF AppliedMigration
  <2> QED
    BY <1>2, <2>2 DEF File
<1> QED
  BY <1>1, <1>2 DEF Loadable

\* validate and into_pending split a plan.
LEMMA ValidPlanIsSplit ==
    ASSUME NEW files, Orderly(files), NEW R, Orderly(R),
           Validate(files, ByVersion(R))
    PROVE  /\ R \subseteq files
           /\ Split(files, R, IntoPending(files, ByVersion(R)))
<1> DEFINE h == Highest(ByVersion(R))
           later == {file \in files : file.version > h}
           rest == IntoPending(files, ByVersion(R))
<1>1. ToSet(ByVersion(R)) = R
  BY Ordered
<1>2. R \subseteq files
  BY <1>1 DEF Validate, AppliedAreUnchanged
<1>3. \A file \in files : file \in R \/ file \in later
  <2> SUFFICES ASSUME NEW file \in files, file \notin later PROVE file \in R
    OBVIOUS
  <2>1. PICK row \in R : row.version = file.version
    BY <1>1 DEF Validate
  <2> QED
    BY <1>2, <2>1 DEF Orderly, Distinct
<1>4. Orderly(later)
  BY PartsAreOrderly
<1>5. rest = ByVersion(later)
  BY DEF IntoPending
<1>6. rest \in Seq(Row) /\ Sorted(rest) /\ ToSet(rest) = later
  BY <1>4, <1>5, Ordered
<1>7. \A row \in R : row.version <= h
  BY HighestIsHighest
<1>8. h \in Nat /\ \A row \in files : row.version \in Nat
  BY HighestIsHighest, RowsHaveVersions DEF Orderly
<1> HIDE DEF h
<1>9. \A row \in R, file \in later : row.version < file.version
  BY <1>2, <1>7, <1>8
<1> HIDE DEF later
<1>10. files = R \cup later
  BY <1>2, <1>3 DEF later
<1> QED
  BY <1>2, <1>6, <1>9, <1>10 DEF Split

\* A directory that is settled fits the history its table holds.
LEMMA SettledIsValid ==
    ASSUME Inv, settled
    PROVE  Loadable(directory) /\ Validate(Recorded(directory), ByVersion(table))
<1> DEFINE files == Recorded(directory)
<1>1. /\ directory \in SUBSET File /\ IsFiniteSet(directory) /\ Loadable(directory)
      /\ Orderly(table) /\ table \subseteq files
      /\ \A file \in files \ table, row \in table : row.version < file.version
  BY DEF Inv, Types, SettledIsPrefix
<1>2. Orderly(files) /\ \A file \in files : file.version > 0
  BY <1>1, LoadedIsPlan DEF IsVersion
<1> HIDE DEF files
<1>3. ToSet(ByVersion(table)) = table
  BY <1>1, Ordered
<1>4. ASSUME NEW file \in files
      PROVE  \/ \E row \in table : row.version = file.version
             \/ file.version > Highest(ByVersion(table))
  BY <1>1, <1>2, HighestIsHighest
<1> QED
  BY <1>1, <1>3, <1>4 DEF Validate, AppliedAreUnchanged, files

-----------------------------------------------------------------------------
(* The steps. *)

\* Nothing is known, and an empty table fits an empty directory.
LEMMA InitInv == Init => Inv
<1> SUFFICES ASSUME Init PROVE Inv
  OBVIOUS
<1>1. Types /\ PlanIsLoaded
  BY FS_EmptySet, BoundsAreNatural
     DEF Init, Types, PlanIsLoaded, Orderly, Distinct
<1>2. PlanIsSplit
  <2>1. <<>> \in Seq(Row) /\ Sorted(<<>>) /\ ToSet(<<>>) = {}
    BY DEF Sorted, ToSet
  <2> QED
    BY <2>1 DEF Init, PlanIsSplit
<1>3. SettledIsPrefix
  BY DEF Init, SettledIsPrefix, Loadable, Recorded
<1> QED
  BY <1>1, <1>2, <1>3 DEF Inv

\* Plan::load.
LEMMA LoadInv == Inv /\ Load => Inv'
<1> SUFFICES ASSUME Inv, Load PROVE Inv'
  OBVIOUS
<1>1. /\ Loadable(directory) /\ step = "idle" /\ step' = "loaded"
      /\ plan' = Recorded(directory)
      /\ UNCHANGED <<directory, table, expected, pending, edits, settled>>
  BY DEF Load, Recorded
<1>2. Types'
  BY <1>1 DEF Inv, Types
<1>3. PlanIsLoaded'
  BY <1>1, LoadedIsPlan DEF Inv, Types, PlanIsLoaded
<1>4. expected = <<>> /\ pending = <<>>
  BY <1>1 DEF Inv, PlanIsSplit
<1>5. PlanIsSplit'
  <2>1. <<>> \in Seq(Row) /\ Sorted(<<>>) /\ ToSet(<<>>) = {}
    BY DEF Sorted, ToSet
  <2> QED
    BY <1>1, <1>4, <2>1 DEF PlanIsSplit
<1>6. SettledIsPrefix'
  BY <1>1 DEF Inv, SettledIsPrefix
<1> QED
  BY <1>2, <1>3, <1>5, <1>6 DEF Inv

\* The first look at the history: the plan is split at it.
LEMMA PreflightInv == Inv /\ Preflight => Inv'
<1> SUFFICES ASSUME Inv, Preflight PROVE Inv'
  OBVIOUS
<1>1. /\ Validate(plan, ByVersion(table)) /\ step' = "planned"
      /\ expected' = ByVersion(table)
      /\ pending' = IntoPending(plan, ByVersion(table))
      /\ settled' = (plan = Recorded(directory))
      /\ UNCHANGED <<directory, table, plan, edits>>
  BY DEF Preflight, Recorded
<1>2. /\ Orderly(plan) /\ Orderly(table) /\ directory \in SUBSET File
      /\ \A file \in plan : IsVersion(file.version)
  BY DEF Inv, Types, PlanIsLoaded
<1>3. table \subseteq plan /\ Split(plan, table, pending')
  BY <1>1, <1>2, ValidPlanIsSplit
<1>4. expected' \in Seq(Row) /\ Sorted(expected') /\ ToSet(expected') = table
  BY <1>1, <1>2, Ordered
<1>5. Types'
  BY <1>1 DEF Inv, Types
<1>6. PlanIsLoaded'
  BY <1>1 DEF Inv, PlanIsLoaded
<1>7. PlanIsSplit'
  BY <1>1, <1>3, <1>4 DEF PlanIsSplit, Split
<1>8. SettledIsPrefix'
  <2> SUFFICES ASSUME plan = Recorded(directory)
               PROVE  /\ Loadable(directory)
                      /\ \A file \in plan \ table, row \in table :
                            row.version < file.version
    BY <1>1, <1>3 DEF SettledIsPrefix
  <2>1. Loadable(directory)
    BY <1>2, PlanIsLoadable DEF Orderly
  <2> QED
    BY <1>3, <2>1 DEF Split
<1> QED
  BY <1>5, <1>6, <1>7, <1>8 DEF Inv

\* The second look: the table holds what the plan was split at.
LEMMA RecheckInv == Inv /\ Recheck => Inv'
<1> SUFFICES ASSUME Inv, Recheck PROVE Inv'
  OBVIOUS
<1>1. /\ step = "planned" /\ step' = "apply" /\ expected = ByVersion(table)
      /\ UNCHANGED <<directory, table, plan, expected, pending, edits, settled>>
  BY DEF Recheck, SameHistory
<1>2. ToSet(expected) = table
  BY <1>1, Ordered DEF Inv, Types
<1>3. PlanIsSplit'
  BY <1>1, <1>2 DEF Inv, PlanIsSplit
<1> QED
  BY <1>1, <1>3 DEF Inv, Types, PlanIsLoaded, SettledIsPrefix

\* A transaction moves the border by one file.
LEMMA CommitMovesBorder ==
    ASSUME Inv, Commits
    PROVE  /\ pending # <<>> /\ Head(pending) \in plan
           /\ table' = table \cup {Head(pending)}
           /\ Orderly(table')
           /\ Tail(pending) \in Seq(Row) /\ ToSet(Tail(pending)) \subseteq plan
           /\ Split(plan, table', Tail(pending))
           /\ table' \subseteq plan
           /\ \A file \in plan \ table', row \in table' : row.version < file.version
<1> DEFINE file == Head(pending)
           rest == Tail(pending)
<1>1. /\ step = "apply" /\ pending # <<>> /\ Insertable(file)
      /\ table' = table \cup {file}
  BY DEF Commits, NextFile
<1>2. /\ pending \in Seq(Row) /\ Sorted(pending)
      /\ plan = table \cup ToSet(pending)
      /\ \A row \in table, f \in ToSet(pending) : row.version < f.version
  BY <1>1 DEF Inv, PlanIsSplit, Split
<1>3. Len(pending) \in Nat \ {0} /\ ToSet(pending) = {pending[i] : i \in 1..Len(pending)}
      /\ DOMAIN pending = 1..Len(pending)
  BY <1>1, <1>2, EmptySeq, SeqHasRows
<1>4. /\ file \in Row /\ rest \in Seq(Row) /\ Len(rest) = Len(pending) - 1
      /\ \A i \in 1..Len(rest) : rest[i] = pending[i + 1]
      /\ file = pending[1]
  BY <1>1, <1>2, HeadTailProperties
<1>5. DOMAIN rest = 1..Len(rest) /\ ToSet(rest) = {rest[i] : i \in 1..Len(rest)}
  BY <1>4, SeqHasRows
<1> HIDE DEF file, rest
<1>6. ToSet(pending) = {file} \cup ToSet(rest)
  <2>1. \A i \in 1..Len(pending) : i = 1 \/ (i - 1 \in 1..Len(rest) /\ i = (i - 1) + 1)
    BY <1>3, <1>4
  <2>2. ToSet(pending) \subseteq {file} \cup ToSet(rest)
    <3> SUFFICES ASSUME NEW i \in 1..Len(pending), i # 1
                 PROVE  pending[i] \in ToSet(rest)
      BY <1>3, <1>4
    <3>1. i - 1 \in 1..Len(rest) /\ rest[i - 1] = pending[(i - 1) + 1]
      BY <1>4, <2>1
    <3>2. (i - 1) + 1 = i
      BY <1>3
    <3> QED
      BY <1>5, <3>1, <3>2
  <2>3. \A i \in 1..Len(rest) : i + 1 \in 1..Len(pending)
    BY <1>3, <1>4
  <2>4. 1 \in 1..Len(pending)
    BY <1>3
  <2>5. ToSet(rest) \subseteq ToSet(pending) /\ file \in ToSet(pending)
    BY <1>3, <1>4, <1>5, <2>3, <2>4
  <2> QED
    BY <2>2, <2>5
<1>7. \A f \in ToSet(rest) : file.version < f.version
  <2> TAKE f \in ToSet(rest)
  <2>1. PICK i \in 1..Len(rest) : f = pending[i + 1]
    BY <1>4, <1>5
  <2>2. 1 \in DOMAIN pending /\ i + 1 \in DOMAIN pending /\ 1 < i + 1
    BY <1>3, <1>4
  <2> QED
    BY <1>2, <1>4, <2>1, <2>2 DEF Sorted
<1>8. Sorted(rest)
  <2> SUFFICES ASSUME NEW i \in 1..Len(rest), NEW j \in 1..Len(rest), i < j
               PROVE  rest[i].version < rest[j].version
    BY <1>5 DEF Sorted
  <2>1. i + 1 \in DOMAIN pending /\ j + 1 \in DOMAIN pending /\ i + 1 < j + 1
    BY <1>3, <1>4
  <2> QED
    BY <1>2, <1>4, <2>1 DEF Sorted
<1>9. plan = table' \cup ToSet(rest)
  BY <1>1, <1>2, <1>6
<1>10. \A row \in table', f \in ToSet(rest) : row.version < f.version
  BY <1>1, <1>2, <1>6, <1>7
<1>11. Orderly(table')
  <2>1. Orderly(table) /\ Orderly(plan)
    BY DEF Inv, Types, PlanIsLoaded
  <2> QED
    BY <1>9, <2>1, PartsAreOrderly
<1> QED
  BY <1>1, <1>4, <1>8, <1>9, <1>10, <1>11 DEF file, rest, Split

\* A file is applied, and the publication goes on or does not know it.
LEMMA ApplyInv == Inv /\ (Apply \/ ApplyUnknown) => Inv'
<1> SUFFICES ASSUME Inv, Apply \/ ApplyUnknown PROVE Inv'
  OBVIOUS
<1>1. Commits /\ UNCHANGED <<directory, edits, settled>> /\ step = "apply"
  BY DEF Apply, ApplyUnknown, Commits
<1>2. /\ Orderly(table')
      /\ Tail(pending) \in Seq(Row) /\ ToSet(Tail(pending)) \subseteq plan
      /\ Split(plan, table', Tail(pending))
      /\ table' \subseteq plan
      /\ \A file \in plan \ table', row \in table' : row.version < file.version
  BY <1>1, CommitMovesBorder
<1>3. settled => /\ Loadable(directory) /\ plan = Recorded(directory)
  BY <1>1 DEF Inv, SettledIsPrefix
<1>4. CASE Apply
  <2>1. UNCHANGED <<step, plan, expected>> /\ pending' = Tail(pending)
    BY <1>4 DEF Apply
  <2>2. Types'
    BY <1>1, <1>2, <2>1 DEF Inv, Types
  <2>3. PlanIsLoaded'
    BY <2>1 DEF Inv, PlanIsLoaded
  <2>4. PlanIsSplit'
    BY <1>1, <1>2, <2>1 DEF Inv, PlanIsSplit
  <2>5. SettledIsPrefix'
    BY <1>1, <1>2, <1>3, <2>1 DEF SettledIsPrefix
  <2> QED
    BY <2>2, <2>3, <2>4, <2>5 DEF Inv
<1>5. CASE ApplyUnknown
  <2>1. step' = "idle" /\ plan' = {} /\ expected' = <<>> /\ pending' = <<>>
    BY <1>5 DEF ApplyUnknown, Over
  <2>2. Types'
    BY <1>1, <1>2, <2>1 DEF Inv, Types
  <2>3. PlanIsLoaded'
    BY <2>1, FS_EmptySet DEF PlanIsLoaded, Orderly, Distinct
  <2>4. PlanIsSplit'
    BY <2>1 DEF PlanIsSplit, Sorted, ToSet
  <2>5. SettledIsPrefix'
    BY <1>1, <1>2, <1>3, <2>1 DEF SettledIsPrefix
  <2> QED
    BY <2>2, <2>3, <2>4, <2>5 DEF Inv
<1> QED
  BY <1>4, <1>5

\* Nothing is pending: the table is the plan.
LEMMA CompleteInv == Inv /\ Complete => Inv'
<1> SUFFICES ASSUME Inv, Complete PROVE Inv'
  OBVIOUS
<1>1. /\ step = "apply" /\ step' = "complete" /\ pending = <<>>
      /\ UNCHANGED <<directory, table, plan, expected, pending, edits, settled>>
  BY DEF Complete
<1>2. ToSet(pending) = {}
  BY <1>1 DEF ToSet
<1>3. table = plan
  BY <1>1, <1>2 DEF Inv, PlanIsSplit, Split
<1> QED
  BY <1>1, <1>3 DEF Inv, Types, PlanIsLoaded, PlanIsSplit, SettledIsPrefix

\* A publication that is over, with success or not, leaves files and rows.
LEMMA OverInv == Inv /\ (Fail \/ Finish) => Inv'
<1> SUFFICES ASSUME Inv, Fail \/ Finish PROVE Inv'
  OBVIOUS
<1>1. /\ step' = "idle" /\ plan' = {} /\ expected' = <<>> /\ pending' = <<>>
      /\ UNCHANGED <<directory, table, edits, settled>>
  BY DEF Fail, Finish, Over
<1>2. PlanIsLoaded'
  BY <1>1, FS_EmptySet DEF PlanIsLoaded, Orderly, Distinct
<1>3. PlanIsSplit'
  BY <1>1 DEF PlanIsSplit, Sorted, ToSet
<1> QED
  BY <1>1, <1>2, <1>3 DEF Inv, Types, SettledIsPrefix

\* Others edit: the publication keeps its plan, and relies on the rows only when
\* it has looked at them for the last time.
LEMMA EditInv == Inv /\ (EditDirectory \/ EditTable) => Inv'
<1> SUFFICES ASSUME Inv, EditDirectory \/ EditTable PROVE Inv'
  OBVIOUS
<1>1. /\ settled' = FALSE
      /\ UNCHANGED <<step, plan, expected, pending>>
  BY DEF EditDirectory, EditTable
<1>2. SettledIsPrefix'
  BY <1>1 DEF SettledIsPrefix
<1>3. PlanIsLoaded'
  BY <1>1 DEF Inv, PlanIsLoaded
<1>4. CASE EditDirectory
  <2>1. UNCHANGED <<table, edits>>
    BY <1>4 DEF EditDirectory
  <2>2. directory' \subseteq File /\ IsFiniteSet(directory')
    <3>1. PICK file \in File :
             \/ directory' = {f \in directory : \/ f.number # file.number
                                                \/ f.label # file.label} \cup {file}
             \/ directory' = directory \ {file}
      BY <1>4 DEF EditDirectory
    <3>2. directory' \subseteq directory \cup {file}
      BY <3>1
    <3>3. directory \subseteq File /\ IsFiniteSet(directory)
      BY DEF Inv, Types
    <3>4. IsFiniteSet(directory \cup {file})
      BY <3>3, FS_AddElement
    <3> QED
      BY <3>2, <3>3, <3>4, FS_Subset
  <2> QED
    BY <1>1, <1>2, <1>3, <2>1, <2>2 DEF Inv, Types, PlanIsSplit
<1>5. CASE EditTable
  <2>1. /\ step \in {"idle", "loaded", "planned"} /\ edits < MaxEdits
        /\ edits' = edits + 1 /\ UNCHANGED directory
    BY <1>5 DEF EditTable
  <2>2. PICK row \in Row :
           table' = {r \in table : r.version # row.version} \cup {row}
    BY <1>5 DEF EditTable
  <2>3. Orderly(table')
    <3>1. Orderly(table)
      BY DEF Inv, Types
    <3>2. table' \subseteq table \cup {row} /\ IsFiniteSet(table \cup {row})
      BY <2>2, <3>1, FS_AddElement DEF Orderly
    <3>3. IsFiniteSet(table')
      BY <3>2, FS_Subset
    <3> QED
      BY <2>2, <3>1, <3>3 DEF Orderly, Distinct
  <2>4. edits' \in 0..MaxEdits
    BY <2>1, BoundsAreNatural DEF Inv, Types
  <2> QED
    BY <1>1, <1>2, <1>3, <2>1, <2>3, <2>4 DEF Inv, Types, PlanIsSplit
<1> QED
  BY <1>4, <1>5

-----------------------------------------------------------------------------
(* The theorems. *)

\* A plan, its history and what is pending fit in every state of a publication.
THEOREM Invariance == Spec => []Inv
<1>1. Inv /\ UNCHANGED vars => Inv'
  BY DEF vars, Inv, Types, PlanIsLoaded, PlanIsSplit, SettledIsPrefix
<1>2. Inv /\ [Next]_vars => Inv'
  BY <1>1, LoadInv, PreflightInv, RecheckInv, ApplyInv, CompleteInv, OverInv, EditInv
     DEF Next
<1> QED
  BY <1>2, InitInv, PTL DEF Spec

\* The types: every version of a plan fits the column it is written to.
THEOREM TypeCorrectness == Spec => []TypeOK
<1>1. Inv => TypeOK
  <2> SUFFICES ASSUME Inv PROVE TypeOK
    OBVIOUS
  <2>1. \A file \in plan : file.version \in 1..MaxVersion
    BY RowsHaveVersions, NumbersAreNatural
       DEF Inv, PlanIsLoaded, Orderly, IsVersion
  <2> QED
    BY <2>1 DEF Inv, Types, PlanIsLoaded, PlanIsSplit, Orderly, TypeOK
<1> QED
  BY <1>1, Invariance, PTL

\* validate and into_pending, which work on sets and maps, compute what the
\* order of the versions says: the history, then the pending files.
THEOREM Prefix == Spec => []HistoryIsPrefix
<1>1. Inv => HistoryIsPrefix
  <2> SUFFICES ASSUME Inv, step = "planned" PROVE ByVersion(plan) = expected \o pending
    BY DEF HistoryIsPrefix
  <2> DEFINE both == expected \o pending
  <2>1. /\ Orderly(plan)
        /\ expected \in Seq(Row) /\ Sorted(expected)
        /\ pending \in Seq(Row) /\ Sorted(pending)
        /\ plan = ToSet(expected) \cup ToSet(pending)
        /\ \A r \in ToSet(expected), f \in ToSet(pending) : r.version < f.version
    BY DEF Inv, PlanIsLoaded, PlanIsSplit, Split
  <2>2. /\ both \in Seq(Row) /\ Len(both) = Len(expected) + Len(pending)
        /\ \A i \in 1..(Len(expected) + Len(pending)) :
              both[i] = IF i <= Len(expected) THEN expected[i]
                                              ELSE pending[i - Len(expected)]
    BY <2>1, ConcatProperties
  <2> HIDE DEF both
  <2>3. /\ Len(expected) \in Nat /\ DOMAIN expected = 1..Len(expected)
        /\ ToSet(expected) = {expected[i] : i \in 1..Len(expected)}
        /\ Len(pending) \in Nat /\ DOMAIN pending = 1..Len(pending)
        /\ ToSet(pending) = {pending[i] : i \in 1..Len(pending)}
        /\ DOMAIN both = 1..Len(both)
        /\ ToSet(both) = {both[i] : i \in 1..Len(both)}
    BY <2>1, <2>2, SeqHasRows
  <2>4. \A i \in 1..Len(both) :
           \/ i \in 1..Len(expected) /\ both[i] = expected[i]
           \/ /\ i > Len(expected) /\ i - Len(expected) \in 1..Len(pending)
              /\ both[i] = pending[i - Len(expected)]
    BY <2>2, <2>3
  <2>5. ToSet(both) = plan
    <3>1. ToSet(both) \subseteq plan
      BY <2>1, <2>3, <2>4
    <3>2. \A i \in 1..Len(expected) : i \in 1..Len(both) /\ both[i] = expected[i]
      BY <2>2, <2>3
    <3>3. \A i \in 1..Len(pending) : /\ Len(expected) + i \in 1..Len(both)
                                     /\ both[Len(expected) + i] = pending[i]
      <4> TAKE i \in 1..Len(pending)
      <4>1. /\ Len(expected) + i \in 1..(Len(expected) + Len(pending))
            /\ ~(Len(expected) + i <= Len(expected))
            /\ (Len(expected) + i) - Len(expected) = i
        BY <2>3
      <4> QED
        BY <2>2, <4>1
    <3>4. ToSet(expected) \subseteq ToSet(both)
      BY <2>3, <3>2
    <3>5. ToSet(pending) \subseteq ToSet(both)
      BY <2>3, <3>3
    <3> QED
      BY <2>1, <3>1, <3>4, <3>5
  <2>6. Sorted(both)
    <3> SUFFICES ASSUME NEW i \in 1..Len(both), NEW j \in 1..Len(both), i < j
                 PROVE  both[i].version < both[j].version
      BY <2>3 DEF Sorted
    <3>1. CASE j \in 1..Len(expected) /\ both[j] = expected[j]
      <4>1. i \in 1..Len(expected) /\ both[i] = expected[i]
        BY <2>3, <2>4, <3>1
      <4> QED
        BY <2>1, <2>3, <3>1, <4>1 DEF Sorted
    <3>2. CASE /\ j > Len(expected) /\ j - Len(expected) \in 1..Len(pending)
               /\ both[j] = pending[j - Len(expected)]
      <4>1. CASE i \in 1..Len(expected) /\ both[i] = expected[i]
        <5>1. both[i] \in ToSet(expected) /\ both[j] \in ToSet(pending)
          BY <2>3, <3>2, <4>1
        <5> QED
          BY <2>1, <5>1
      <4>2. CASE /\ i > Len(expected) /\ i - Len(expected) \in 1..Len(pending)
                 /\ both[i] = pending[i - Len(expected)]
        <5>1. i - Len(expected) < j - Len(expected)
          BY <2>3, <2>2
        <5> QED
          BY <2>1, <2>3, <3>2, <4>2, <5>1 DEF Sorted
      <4> QED
        BY <2>4, <4>1, <4>2
    <3> QED
      BY <2>4, <3>1, <3>2
  <2>7. /\ ByVersion(plan) \in Seq(Row) /\ Sorted(ByVersion(plan))
        /\ ToSet(ByVersion(plan)) = plan
    BY <2>1, Ordered
  <2>8. ByVersion(plan) = both
    BY <2>1, <2>2, <2>5, <2>6, <2>7, SortedIsUnique DEF Orderly
  <2> QED
    BY <2>8 DEF both
<1> QED
  BY <1>1, Invariance, PTL

\* A publication that has completed leaves exactly its plan in the table.
THEOREM Completed == Spec => []CompletedIsThePlan
<1>1. Inv => CompletedIsThePlan
  BY DEF Inv, PlanIsSplit, CompletedIsThePlan
<1> QED
  BY <1>1, Invariance, PTL

\* Every row a migration is applied on has the version of its name, an int64, and the
\* checksum of its text.
THEOREM Trusted == Spec => []NothingOnCorruptHistory
<1>1. Inv => NothingOnCorruptHistory
  <2> SUFFICES ASSUME Inv, step = "apply", NEW row \in table
               PROVE  /\ row.version = row.number /\ row.version \in 1..MaxVersion
                      /\ row.checksum = row.source
    BY DEF NothingOnCorruptHistory
  <2>1. row \in plan /\ row \in Row
    BY DEF Inv, Types, Orderly, PlanIsSplit, Split
  <2>2. IsVersion(row.version) /\ row.version = row.number /\ row.checksum = row.source
    BY <2>1 DEF Inv, PlanIsLoaded
  <2>3. row.version \in Nat
    BY <2>1, NumbersAreNatural DEF Row
  <2> QED
    BY <2>2, <2>3, NumbersAreNatural DEF IsVersion
<1> QED
  BY <1>1, Invariance, PTL

\* What a batch leaves behind, however it ended, is accepted by its retry.
THEOREM Retry == Spec => []RetryIsAccepted
<1>1. Inv => RetryIsAccepted
  BY SettledIsValid DEF RetryIsAccepted, Recorded
<1> QED
  BY <1>1, Invariance, PTL
=============================================================================
