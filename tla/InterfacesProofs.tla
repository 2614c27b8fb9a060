-------------------------- MODULE InterfacesProofs --------------------------
(***************************************************************************)
(* The interface files are read right for any input: the search for cycles *)
(* of references and the decoding of cells for any schema, compile for     *)
(* files of any length, validate_input and the OpenAPI document for any    *)
(* set of parameters, and resolve for any snapshot.                        *)
(***************************************************************************)
EXTENDS Contracts, Interfaces, WellFoundedInduction, SequenceTheorems,
        FiniteSetTheorems, TLAPS

-----------------------------------------------------------------------------
(* Numbers and orders. What is said by recursion is proved by induction on a   *)
(* set of numbers.                                                              *)

\* A nonempty set of numbers has a least one.
LEMMA LeastExists ==
    ASSUME NEW S, S \subseteq Nat, S # {}
    PROVE  \E x \in S : \A y \in S : x <= y
<1> DEFINE less == OpToRel(<, Nat)
<1>1. \E x \in S : \A y \in S : <<y, x>> \notin less
  BY NatLessThanWellFounded, WFMin
<1>2. \A x, y \in Nat : <<y, x>> \notin less => x <= y
  BY DEF OpToRel
<1> HIDE DEF less
<1> QED
  BY <1>1, <1>2

\* Induction on a bounded set of numbers.
LEMMA Induction ==
    ASSUME NEW N \in Nat, NEW S, 0 \in S,
           \A k \in 0..(N - 1) : k \in S => k + 1 \in S
    PROVE  \A k \in 0..N : k \in S
<1> DEFINE Bad == {k \in 0..N : k \notin S}
<1> SUFFICES ASSUME Bad # {} PROVE FALSE
  OBVIOUS
<1>1. PICK k \in Bad : \A i \in Bad : k <= i
  <2>1. Bad \subseteq Nat
    OBVIOUS
  <2> QED
    BY <2>1, LeastExists
<1>2. k # 0 /\ k - 1 \in 0..(N - 1) /\ k - 1 \notin Bad
  BY <1>1
<1>3. k - 1 \in S
  BY <1>2
<1> QED
  BY <1>1, <1>2, <1>3

\* A nonempty set of numbers with a bound has a greatest one.
LEMMA GreatestExists ==
    ASSUME NEW n \in Nat, NEW S, S \subseteq 0..n, S # {}
    PROVE  Max(S) \in S /\ \A y \in S : y <= Max(S)
<1> DEFINE T == {n - x : x \in S}
<1>1. T \subseteq Nat /\ T # {}
  <2>1. \A x \in S : n - x \in Nat
    OBVIOUS
  <2> QED
    BY <2>1
<1>2. PICK t \in T : \A u \in T : t <= u
  BY <1>1, LeastExists
<1>3. PICK x \in S : t = n - x
  BY <1>2
<1>4. \A y \in S : y <= x
  <2> TAKE y \in S
  <2>1. n - x <= n - y
    BY <1>2, <1>3
  <2> QED
    BY <2>1
<1>5. \E z \in S : \A y \in S : z >= y
  BY <1>3, <1>4
<1>6. Max(S) \in S /\ \A y \in S : Max(S) >= y
  BY <1>5, Zenon DEF Max
<1> QED
  BY <1>6

\* R orders the elements of S.
Orders(R, S) ==
    /\ \A x \in S : <<x, x>> \notin R
    /\ \A x, y, z \in S : <<x, y>> \in R /\ <<y, z>> \in R => <<x, z>> \in R

\* A finite set has an element that nothing comes before.
LEMMA FirstExists ==
    ASSUME NEW S, IsFiniteSet(S), NEW R, Orders(R, S), S # {}
    PROVE  \E x \in S : \A y \in S : <<y, x>> \notin R
<1> DEFINE N == Cardinality(S)
           HasFirst(T) == T = {} \/ \E x \in T : \A y \in T : <<y, x>> \notin R
           Good == {k \in 0..N : \A T \in SUBSET S : Cardinality(T) = k => HasFirst(T)}
<1>1. N \in Nat
  BY FS_CardinalityType
<1>2. 0 \in Good
  <2> SUFFICES ASSUME NEW T \in SUBSET S, Cardinality(T) = 0 PROVE HasFirst(T)
    BY <1>1
  <2>1. IsFiniteSet(T)
    BY FS_Subset
  <2> QED
    BY <2>1, FS_EmptySet
<1>3. ASSUME NEW k \in 0..(N - 1), k \in Good PROVE k + 1 \in Good
  <2> SUFFICES ASSUME NEW T \in SUBSET S, Cardinality(T) = k + 1, T # {} PROVE HasFirst(T)
    BY <1>1
  <2>1. IsFiniteSet(T)
    BY FS_Subset
  <2>2. PICK a \in T : TRUE
    OBVIOUS
  <2> DEFINE U == T \ {a}
  <2>3. Cardinality(U) = k /\ U \in SUBSET S
    <3>1. Cardinality(U) = Cardinality(T) - 1
      BY <2>1, FS_RemoveElement
    <3> QED
      BY <1>1, <3>1
  <2>4. HasFirst(U)
    BY <1>3, <2>3
  <2>5. CASE U = {}
    <3>1. \A y \in T : <<y, a>> \notin R
      BY <2>5 DEF Orders
    <3> QED
      BY <3>1
  <2>6. CASE U # {}
    <3>1. PICK x \in U : \A y \in U : <<y, x>> \notin R
      BY <2>4, <2>6
    <3>2. CASE <<a, x>> \in R
      <4>1. \A y \in T : <<y, a>> \notin R
        BY <3>1, <3>2 DEF Orders
      <4> QED
        BY <4>1
    <3>3. CASE <<a, x>> \notin R
      BY <3>1, <3>3
    <3> QED
      BY <3>2, <3>3
  <2> QED
    BY <2>5, <2>6
<1>4. N \in Good
  <2> HIDE DEF Good
  <2> QED
    BY <1>1, <1>2, <1>3, Induction
<1> QED
  BY <1>4

\* s is the elements of S, none of them before an earlier one.
Sorts(s, S, R) ==
    /\ s \in [1..Cardinality(S) -> S]
    /\ Range(s) = S
    /\ \A i, j \in 1..Cardinality(S) : i < j => <<s[j], s[i]>> \notin R

\* A finite set can be sorted.
LEMMA SortedExists ==
    ASSUME NEW S, IsFiniteSet(S), NEW R, Orders(R, S)
    PROVE  \E s : Sorts(s, S, R)
<1> DEFINE N == Cardinality(S)
           Good == {k \in 0..N : \A T \in SUBSET S :
                       Cardinality(T) = k => \E s : Sorts(s, T, R)}
<1>1. N \in Nat
  BY FS_CardinalityType
<1>2. 0 \in Good
  <2> SUFFICES ASSUME NEW T \in SUBSET S, Cardinality(T) = 0 PROVE \E s : Sorts(s, T, R)
    BY <1>1
  <2>1. IsFiniteSet(T)
    BY FS_Subset
  <2>2. T = {}
    BY <2>1, FS_EmptySet
  <2>3. Sorts([i \in 1..0 |-> 0], T, R)
    BY <2>2 DEF Sorts, Range
  <2> QED
    BY <2>3
<1>3. ASSUME NEW k \in 0..(N - 1), k \in Good PROVE k + 1 \in Good
  <2> SUFFICES ASSUME NEW T \in SUBSET S, Cardinality(T) = k + 1
               PROVE  \E s : Sorts(s, T, R)
    BY <1>1
  <2>1. IsFiniteSet(T)
    BY FS_Subset
  <2>2. T # {}
    BY <1>1, <2>1, FS_EmptySet
  <2>3. PICK a \in T : \A y \in T : <<y, a>> \notin R
    BY <2>1, <2>2, FirstExists DEF Orders
  <2> DEFINE U == T \ {a}
  <2>4. Cardinality(U) = k /\ U \in SUBSET S
    <3>1. Cardinality(U) = Cardinality(T) - 1
      BY <2>1, FS_RemoveElement
    <3> QED
      BY <1>1, <3>1
  <2>5. PICK u : Sorts(u, U, R)
    BY <1>3, <2>4
  <2>6. /\ u \in [1..k -> U] /\ Range(u) = U
        /\ \A i, j \in 1..k : i < j => <<u[j], u[i]>> \notin R
    BY <2>4, <2>5 DEF Sorts
  <2> HIDE DEF U
  <2> DEFINE s == [i \in 1..(k + 1) |-> IF i = 1 THEN a ELSE u[i - 1]]
  <2>7. U \subseteq T /\ T = U \cup {a}
    BY DEF U
  <2>8. \A i \in 1..(k + 1) : i # 1 => i - 1 \in 1..k /\ u[i - 1] \in U
    BY <2>6
  <2>9. s \in [1..(k + 1) -> T]
    BY <2>7, <2>8
  <2>10. Range(s) = T
    <3>1. \A x \in U : \E i \in 1..(k + 1) : s[i] = x
      <4> TAKE x \in U
      <4>1. PICK i \in 1..k : u[i] = x
        BY <2>6 DEF Range
      <4>2. i + 1 \in 1..(k + 1) /\ s[i + 1] = u[i]
        OBVIOUS
      <4> QED
        BY <4>1, <4>2
    <3>2. s[1] = a /\ 1 \in 1..(k + 1)
      OBVIOUS
    <3> HIDE DEF s
    <3>3. DOMAIN s = 1..(k + 1) /\ \A i \in 1..(k + 1) : s[i] \in T
      BY <2>9
    <3> QED
      BY <2>7, <3>1, <3>2, <3>3 DEF Range
  <2>11. ASSUME NEW i \in 1..(k + 1), NEW j \in 1..(k + 1), i < j
         PROVE  <<s[j], s[i]>> \notin R
    <3>1. j - 1 \in 1..k /\ s[j] = u[j - 1] /\ u[j - 1] \in T
      BY <2>6, <2>7, <2>11
    <3>2. CASE i = 1
      BY <2>3, <3>1, <3>2
    <3>3. CASE i # 1
      <4>1. i - 1 \in 1..k /\ s[i] = u[i - 1] /\ i - 1 < j - 1
        BY <2>11, <3>3
      <4> QED
        BY <2>6, <3>1, <4>1
    <3> QED
      BY <3>2, <3>3
  <2> HIDE DEF s
  <2>12. Sorts(s, T, R)
    BY <2>9, <2>10, <2>11 DEF Sorts
  <2> QED
    BY <2>12
<1>4. N \in Good
  <2> HIDE DEF Good
  <2> QED
    BY <1>1, <1>2, <1>3, Induction
<1> QED
  BY <1>4

-----------------------------------------------------------------------------
(* The search for cycles: the inductive invariant. *)

\* What a location of a schema leads to.
Targets(n) == Range(Edges(n))

Frame == [node: Nodes, leaving: BOOLEAN]

Searching ==
    /\ schema \in Schemas
    /\ starts \subseteq Nodes /\ active \subseteq Nodes /\ complete \subseteq Nodes
    /\ stack \in Seq(Frame)
    /\ verdict \in {"searching", "cycle", "accepted", "refused"}

\* The active nodes are those entered and not yet left, each of them once.
ActiveIsEntered ==
    /\ \A i \in 1..Len(stack) : stack[i].leaving =>
          stack[i].node \in active /\ stack[i].node \notin complete
    /\ \A n \in active : \E i \in 1..Len(stack) :
          stack[i].leaving /\ stack[i].node = n
    /\ \A i, j \in 1..Len(stack) :
          stack[i].leaving /\ stack[j].leaving /\ stack[i].node = stack[j].node => i = j

\* i is the last node that was entered below j.
Below(i, j) ==
    /\ i < j /\ stack[i].leaving
    /\ \A k \in (i + 1)..(j - 1) : ~stack[k].leaving

\* The nodes entered are a way through the graph, and what is to be visited
\* leads on from it.
EnteredIsWay ==
    \A i, j \in 1..Len(stack) : Below(i, j) => stack[j].node \in Targets(stack[i].node)

\* What a node leads to is visited before the node is left.
LeftIsLast ==
    \A i \in 1..Len(stack) : stack[i].leaving =>
        \A m \in Targets(stack[i].node) :
            m \in complete \/ \E j \in (i + 1)..Len(stack) : stack[j].node = m

\* No node is forgotten.
AllReached ==
    \A n \in Nodes : \/ n \in starts \/ n \in complete
                     \/ \E i \in 1..Len(stack) : stack[i].node = n

\* From the nodes that were left no cycle can be reached.
CompleteIsGrounded ==
    /\ \A n \in complete : Targets(n) \subseteq complete
    /\ \A S \in SUBSET complete : S # {} => \E n \in S : Targets(n) \cap S = {}

Inv == /\ Searching
       /\ ActiveIsEntered
       /\ EnteredIsWay
       /\ LeftIsLast
       /\ AllReached
       /\ CompleteIsGrounded
       /\ CyclesAreRejected

-----------------------------------------------------------------------------
(* The graph and the stack. *)

\* The edges of a node are a sequence of nodes, and its targets are nodes.
LEMMA EdgesAreNodes ==
    ASSUME schema \in Schemas, NEW n \in Nodes
    PROVE  /\ Edges(n) \in Seq(Nodes)
           /\ Targets(n) = {Edges(n)[k] : k \in 1..Len(Edges(n))}
           /\ Targets(n) \subseteq Nodes
<1>1. /\ schema[n].ref \in Seq(Nodes) /\ schema[n].allOf \in Seq(Nodes)
      /\ schema[n].anyOf \in Seq(Nodes) /\ schema[n].other \in Seq(Nodes)
  BY SchemasAreGraphs DEF Nodes
<1>2. Edges(n) \in Seq(Nodes)
  BY <1>1 DEF Edges
<1>3. DOMAIN Edges(n) = 1..Len(Edges(n))
  BY <1>2, LenProperties
<1>4. Targets(n) = {Edges(n)[k] : k \in 1..Len(Edges(n))}
  BY <1>3 DEF Targets, Range
<1>5. \A k \in 1..Len(Edges(n)) : Edges(n)[k] \in Nodes
  BY <1>2, ElementOfSeq
<1> QED
  BY <1>2, <1>4, <1>5

\* The edges of an unchanged schema.
LEMMA EdgesKept ==
    ASSUME schema' = schema
    PROVE  /\ Nodes' = Nodes /\ Frame' = Frame
           /\ \A n : Edges(n)' = Edges(n) /\ Targets(n)' = Targets(n)
           /\ \A n : Pushed(n)' = Pushed(n)
           /\ Acyclic' <=> Acyclic
BY DEF Nodes, Frame, Edges, Targets, Pushed, Acyclic

\* The stack is a sequence of frames, and the last of them is popped.
LEMMA StackIsSeq ==
    ASSUME Searching
    PROVE  /\ Len(stack) \in Nat
           /\ \A i \in 1..Len(stack) : /\ stack[i] \in Frame
                                       /\ stack[i].node \in Nodes
                                       /\ stack[i].leaving \in BOOLEAN
           /\ stack # <<>> => Len(stack) \in 1..Len(stack) /\ Popped = stack[Len(stack)]
<1>1. stack \in Seq(Frame)
  BY DEF Searching
<1>2. Len(stack) \in Nat /\ (stack # <<>> => Len(stack) # 0)
  BY <1>1, EmptySeq
<1>3. \A i \in 1..Len(stack) : stack[i] \in Frame
  BY <1>1, ElementOfSeq
<1> QED
  BY <1>2, <1>3 DEF Frame, Popped, Last

\* What is below the last element of a sequence.
LEMMA FrontIsPrefix ==
    ASSUME NEW S, NEW s \in Seq(S), s # <<>>
    PROVE  /\ Front(s) \in Seq(S)
           /\ Len(Front(s)) = Len(s) - 1
           /\ \A i \in 1..(Len(s) - 1) : Front(s)[i] = s[i]
<1> DEFINE n == Len(s) - 1
<1>1. n \in Nat /\ \A i \in 1..n : s[i] \in S
  BY EmptySeq, ElementOfSeq
<1>2. /\ SubSeq(s, 1, n) \in Seq(S)
      /\ Len(SubSeq(s, 1, n)) = IF 1 <= n THEN n - 1 + 1 ELSE 0
      /\ \A i \in 1..(n - 1 + 1) : SubSeq(s, 1, n)[i] = s[1 + i - 1]
  BY <1>1, SubSeqProperties
<1>3. Front(s) = SubSeq(s, 1, n)
  BY DEF Front
<1> HIDE DEF n
<1>4. Len(Front(s)) = n /\ \A i \in 1..n : Front(s)[i] = s[i]
  BY <1>1, <1>2, <1>3
<1> QED
  BY <1>2, <1>3, <1>4 DEF n

\* What is below the popped frame stays.
LEMMA PopIsPrefix ==
    ASSUME Searching, stack # <<>>
    PROVE  /\ Pop \in Seq(Frame)
           /\ Len(Pop) = Len(stack) - 1
           /\ \A i \in 1..(Len(stack) - 1) : Pop[i] = stack[i]
BY FrontIsPrefix DEF Pop, Searching

\* new is s with x for its last element, and u after it.
Replaces(new, s, x, u) ==
    /\ Len(new) = Len(s) + Len(u)
    /\ \A i \in 1..(Len(s) - 1) : new[i] = s[i]
    /\ new[Len(s)] = x
    /\ \A k \in 1..Len(u) : new[Len(s) + k] = u[k]

LEMMA FrontConcat ==
    ASSUME NEW S, NEW s \in Seq(S), s # <<>>, NEW x \in S, NEW u \in Seq(S)
    PROVE  /\ Front(s) \o (<<x>> \o u) \in Seq(S)
           /\ Replaces(Front(s) \o (<<x>> \o u), s, x, u)
<1>1. Len(s) \in Nat \ {0} /\ Len(u) \in Nat
  BY EmptySeq, LenProperties
<1> DEFINE v == <<x>> \o u
<1>2. <<x>> \in Seq(S) /\ Len(<<x>>) = 1 /\ <<x>>[1] = x
  OBVIOUS
<1>3. /\ v \in Seq(S) /\ Len(v) = 1 + Len(u)
      /\ \A i \in 1..(1 + Len(u)) : v[i] = IF i <= 1 THEN <<x>>[i] ELSE u[i - 1]
  BY <1>2, ConcatProperties
<1> HIDE DEF v
<1> DEFINE f == Front(s)
           new == f \o v
<1>4. /\ f \in Seq(S) /\ Len(f) = Len(s) - 1
      /\ \A i \in 1..(Len(s) - 1) : f[i] = s[i]
  BY FrontIsPrefix
<1> HIDE DEF f
<1>5. /\ new \in Seq(S) /\ Len(new) = Len(f) + Len(v)
      /\ \A i \in 1..(Len(f) + Len(v)) :
            new[i] = IF i <= Len(f) THEN f[i] ELSE v[i - Len(f)]
  BY <1>3, <1>4, ConcatProperties
<1> HIDE DEF new
<1>6. Len(new) = Len(s) + Len(u)
  BY <1>1, <1>3, <1>4, <1>5
<1>7. \A i \in 1..(Len(s) - 1) : new[i] = s[i]
  <2> TAKE i \in 1..(Len(s) - 1)
  <2>1. i \in 1..(Len(f) + Len(v)) /\ i <= Len(f)
    BY <1>1, <1>3, <1>4
  <2> QED
    BY <1>4, <1>5, <2>1
<1>8. \A k \in 0..Len(u) : new[Len(s) + k] = v[1 + k]
  <2> TAKE k \in 0..Len(u)
  <2>1. /\ Len(s) + k \in 1..(Len(f) + Len(v)) /\ ~(Len(s) + k <= Len(f))
        /\ Len(s) + k - Len(f) = 1 + k
    BY <1>1, <1>3, <1>4
  <2> QED
    BY <1>5, <2>1
<1>9. new[Len(s)] = x
  BY <1>1, <1>2, <1>3, <1>8
<1>10. \A k \in 1..Len(u) : new[Len(s) + k] = u[k]
  BY <1>1, <1>3, <1>8
<1>11. Replaces(new, s, x, u)
  BY <1>6, <1>7, <1>9, <1>10 DEF Replaces
<1> QED
  BY <1>5, <1>11 DEF new, f, v

\* A node takes the place of its visit, and the visits of its edges come on top.
LEMMA PushIsAbove ==
    ASSUME Searching, stack # <<>>
    PROVE  LET m == Popped.node
               new == Pop \o Pushed(m)
               t == Len(stack)
           IN  /\ new \in Seq(Frame)
               /\ Len(new) = t + Len(Edges(m)) /\ Len(Edges(m)) \in Nat
               /\ \A i \in 1..(t - 1) : new[i] = stack[i]
               /\ new[t].node = m /\ new[t].leaving
               /\ \A k \in 1..Len(Edges(m)) :
                     new[t + k].node = Edges(m)[k] /\ ~new[t + k].leaving
<1> DEFINE m == Popped.node
           top == [node |-> m, leaving |-> TRUE]
           visits == [i \in DOMAIN Edges(m) |-> Visit(Edges(m)[i])]
           t == Len(stack)
<1>1. m \in Nodes /\ t \in Nat /\ t \in 1..t
  BY StackIsSeq
<1>2. Edges(m) \in Seq(Nodes) /\ Len(Edges(m)) \in Nat
      /\ DOMAIN Edges(m) = 1..Len(Edges(m))
      /\ \A k \in 1..Len(Edges(m)) : Edges(m)[k] \in Nodes
  BY <1>1, EdgesAreNodes, LenProperties, ElementOfSeq DEF Searching
<1>3. top \in Frame /\ top.node = m /\ top.leaving
  BY <1>1 DEF Frame
<1>4. \A k \in 1..Len(Edges(m)) : /\ visits[k] \in Frame
                                  /\ visits[k].node = Edges(m)[k]
                                  /\ ~visits[k].leaving
  BY <1>2 DEF Frame, Visit
<1>5. visits \in [1..Len(Edges(m)) -> Frame]
  BY <1>2, <1>4
<1>6. visits \in Seq(Frame) /\ Len(visits) = Len(Edges(m))
  BY <1>2, <1>5
<1>7. Pop \o Pushed(m) = Front(stack) \o (<<top>> \o visits)
  BY DEF Pop, Pushed
<1> HIDE DEF top, visits
<1> DEFINE new == Pop \o Pushed(m)
<1>8. stack \in Seq(Frame)
  BY DEF Searching
<1> HIDE DEF m
<1>9. /\ new \in Seq(Frame)
      /\ Len(new) = t + Len(visits)
      /\ \A i \in 1..(t - 1) : new[i] = stack[i]
      /\ new[t] = top
      /\ \A k \in 1..Len(visits) : new[t + k] = visits[k]
  <2>1. top \in Frame /\ visits \in Seq(Frame)
    BY <1>3, <1>6
  <2>2. new = Front(stack) \o (<<top>> \o visits)
    BY <1>7
  <2> HIDE DEF new
  <2>3. new \in Seq(Frame) /\ Replaces(new, stack, top, visits)
    BY <1>8, <2>1, <2>2, FrontConcat
  <2> QED
    BY <2>3 DEF Replaces
<1> HIDE DEF new
<1>10. \A k \in 1..Len(Edges(m)) : new[t + k].node = Edges(m)[k] /\ ~new[t + k].leaving
  BY <1>4, <1>6, <1>9
<1>11. new[t].node = m /\ new[t].leaving
  BY <1>3, <1>9
<1>12. /\ new \in Seq(Frame) /\ Len(new) = t + Len(Edges(m)) /\ Len(Edges(m)) \in Nat
       /\ \A i \in 1..(t - 1) : new[i] = stack[i]
  BY <1>2, <1>6, <1>9
<1> QED
  BY <1>10, <1>11, <1>12 DEF new, m

-----------------------------------------------------------------------------
(* The steps of the search. *)

\* Nothing has been searched.
LEMMA InitInv == Init => Inv
<1> SUFFICES ASSUME Init PROVE Inv
  OBVIOUS
<1>1. Searching
  BY DEF Init, Searching
<1>2. Len(stack) = 0 /\ active = {} /\ complete = {} /\ starts = Nodes
  BY DEF Init
<1>3. ActiveIsEntered /\ EnteredIsWay /\ LeftIsLast /\ AllReached
  BY <1>2 DEF ActiveIsEntered, EnteredIsWay, LeftIsLast, AllReached
<1>4. CompleteIsGrounded
  BY <1>2 DEF CompleteIsGrounded
<1>5. CyclesAreRejected
  BY DEF Init, CyclesAreRejected
<1> QED
  BY <1>1, <1>3, <1>4, <1>5 DEF Inv

\* The outer loop takes the next key.
LEMMA StartInv == Inv /\ Start => Inv'
<1> SUFFICES ASSUME Inv, Start PROVE Inv'
  OBVIOUS
<1> DEFINE n == Min(starts)
<1>1. /\ stack = <<>> /\ starts # {} /\ verdict = "searching"
      /\ stack' = <<Visit(n)>> /\ starts' = starts \ {n} /\ active' = {}
      /\ UNCHANGED <<schema, complete, verdict>>
  BY DEF Start
<1>2. starts \subseteq Nodes /\ schema \in Schemas /\ complete \subseteq Nodes
  BY DEF Inv, Searching
<1>3. starts \subseteq Nat
  BY <1>2, SchemasAreGraphs DEF Nodes
<1>4. n \in starts
  BY <1>1, <1>3, LeastExists DEF Min
<1>5. Visit(n) \in Frame /\ Visit(n).node = n /\ ~Visit(n).leaving
  BY <1>2, <1>4 DEF Frame, Visit
<1> HIDE DEF n
<1>6. /\ stack' \in Seq(Frame) /\ Len(stack') = 1
      /\ stack'[1].node = n /\ ~stack'[1].leaving
  BY <1>1, <1>5
<1>7. Searching'
  BY <1>1, <1>2, <1>6, EdgesKept DEF Searching
<1>8. ActiveIsEntered' /\ EnteredIsWay' /\ LeftIsLast'
  BY <1>1, <1>6 DEF ActiveIsEntered, EnteredIsWay, LeftIsLast, Below
<1>9. Len(stack) = 0
  BY <1>1
<1>10. AllReached'
  BY <1>1, <1>6, <1>9, EdgesKept DEF Inv, AllReached
<1>11. CompleteIsGrounded' /\ CyclesAreRejected'
  BY <1>1, EdgesKept DEF Inv, CompleteIsGrounded, CyclesAreRejected
<1> QED
  BY <1>7, <1>8, <1>10, <1>11 DEF Inv

\* A frame is popped whose node needs no further visit.
LEMMA PopKeeps ==
    ASSUME Inv, stack # <<>>, stack' = Pop, UNCHANGED <<schema, starts>>,
           complete \subseteq complete', Popped.node \in complete'
    PROVE  /\ stack' \in Seq(Frame)
           /\ Len(stack') = Len(stack) - 1
           /\ \A i \in 1..Len(stack') : stack'[i] = stack[i]
           /\ EnteredIsWay' /\ LeftIsLast' /\ AllReached'
<1> DEFINE t == Len(stack)
<1>1. /\ stack' \in Seq(Frame) /\ Len(stack') = t - 1
      /\ \A i \in 1..(t - 1) : stack'[i] = stack[i]
  BY PopIsPrefix DEF Inv
<1>2. t \in Nat /\ t \in 1..t /\ Popped = stack[t]
  BY StackIsSeq DEF Inv
<1>3. EnteredIsWay'
  <2> SUFFICES ASSUME NEW i \in 1..(t - 1), NEW j \in 1..(t - 1), Below(i, j)'
               PROVE  stack[j].node \in Targets(stack[i].node)
    BY <1>1, EdgesKept DEF EnteredIsWay
  <2>1. i < j /\ stack'[i] = stack[i] /\ stack'[i].leaving
    BY <1>1 DEF Below
  <2>2. ASSUME NEW k \in (i + 1)..(j - 1) PROVE ~stack[k].leaving
    <3>1. k \in 1..(t - 1)
      BY <1>2
    <3>2. ~stack'[k].leaving
      BY DEF Below
    <3> QED
      BY <1>1, <3>1, <3>2
  <2>3. Below(i, j)
    BY <2>1, <2>2 DEF Below
  <2> QED
    BY <1>2, <2>3 DEF Inv, EnteredIsWay
<1>4. LeftIsLast'
  <2> SUFFICES ASSUME NEW i \in 1..(t - 1), stack[i].leaving,
                      NEW m \in Targets(stack[i].node), m \notin complete'
               PROVE  \E j \in (i + 1)..(t - 1) : stack[j].node = m
    BY <1>1, <1>2, EdgesKept DEF LeftIsLast
  <2>1. \E j \in (i + 1)..t : stack[j].node = m
    BY <1>2 DEF Inv, LeftIsLast
  <2> QED
    BY <1>2, <2>1
<1>5. AllReached'
  BY <1>1, <1>2, EdgesKept DEF Inv, AllReached
<1> QED
  BY <1>1, <1>3, <1>4, <1>5

\* A node that was left before is not entered again.
LEMMA SkipInv == Inv /\ Skip => Inv'
<1> SUFFICES ASSUME Inv, Skip PROVE Inv'
  OBVIOUS
<1>1. /\ stack # <<>> /\ ~Popped.leaving /\ Popped.node \in complete
      /\ stack' = Pop /\ UNCHANGED <<schema, starts, active, complete, verdict>>
  BY DEF Skip
<1>2. /\ stack' \in Seq(Frame)
      /\ Len(stack') = Len(stack) - 1
      /\ \A i \in 1..Len(stack') : stack'[i] = stack[i]
      /\ EnteredIsWay' /\ LeftIsLast' /\ AllReached'
  BY <1>1, PopKeeps
<1>3. Len(stack) \in Nat /\ Popped = stack[Len(stack)]
  BY <1>1, StackIsSeq DEF Inv
<1>4. Searching'
  BY <1>1, <1>2, EdgesKept DEF Inv, Searching
<1>5. ActiveIsEntered'
  <2>1. /\ \A i \in 1..Len(stack') : i \in 1..Len(stack)
        /\ \A i \in 1..Len(stack) : stack[i].leaving => i \in 1..Len(stack')
    BY <1>1, <1>2, <1>3
  <2>2. \A n \in active : \E i \in 1..Len(stack') :
           stack'[i].leaving /\ stack'[i].node = n
    <3> TAKE n \in active
    <3>1. PICK i \in 1..Len(stack) : stack[i].leaving /\ stack[i].node = n
      BY DEF Inv, ActiveIsEntered
    <3> QED
      BY <1>2, <2>1, <3>1
  <2>3. /\ \A i \in 1..Len(stack') : stack'[i].leaving =>
              stack'[i].node \in active /\ stack'[i].node \notin complete
        /\ \A i, j \in 1..Len(stack') :
              stack'[i].leaving /\ stack'[j].leaving /\ stack'[i].node = stack'[j].node
                => i = j
    BY <1>2, <2>1 DEF Inv, ActiveIsEntered
  <2> QED
    BY <1>1, <2>2, <2>3 DEF ActiveIsEntered
<1>6. CompleteIsGrounded' /\ CyclesAreRejected'
  BY <1>1, EdgesKept DEF Inv, CompleteIsGrounded, CyclesAreRejected
<1> QED
  BY <1>2, <1>4, <1>5, <1>6 DEF Inv

\* A node is left when all it leads to has been left: no cycle goes through it.
LEMMA LeaveInv == Inv /\ Leave => Inv'
<1> SUFFICES ASSUME Inv, Leave PROVE Inv'
  OBVIOUS
<1> DEFINE n == Popped.node
           t == Len(stack)
<1>1. /\ stack # <<>> /\ Popped.leaving /\ verdict = "searching"
      /\ active' = active \ {n} /\ complete' = complete \cup {n}
      /\ stack' = Pop /\ UNCHANGED <<schema, starts, verdict>>
  BY DEF Leave
<1>2. /\ stack' \in Seq(Frame)
      /\ Len(stack') = t - 1
      /\ \A i \in 1..Len(stack') : stack'[i] = stack[i]
      /\ EnteredIsWay' /\ LeftIsLast' /\ AllReached'
  BY <1>1, PopKeeps
<1>3. t \in Nat /\ t \in 1..t /\ Popped = stack[t] /\ n \in Nodes
  BY <1>1, StackIsSeq DEF Inv
<1>4. Searching'
  BY <1>1, <1>2, <1>3, EdgesKept DEF Inv, Searching
<1>5. ActiveIsEntered'
  <2>1. \A i \in 1..(t - 1) : stack[i].leaving => stack[i].node # n
    BY <1>1, <1>3 DEF Inv, ActiveIsEntered
  <2>2. \A i \in 1..(t - 1) : stack[i].leaving =>
           stack[i].node \in active' /\ stack[i].node \notin complete'
    BY <1>1, <1>3, <2>1 DEF Inv, ActiveIsEntered
  <2>3. \A a \in active' : \E i \in 1..(t - 1) : stack[i].leaving /\ stack[i].node = a
    BY <1>1, <1>3 DEF Inv, ActiveIsEntered
  <2>4. \A i, j \in 1..(t - 1) :
           stack[i].leaving /\ stack[j].leaving /\ stack[i].node = stack[j].node => i = j
    BY <1>3 DEF Inv, ActiveIsEntered
  <2> QED
    BY <1>2, <2>2, <2>3, <2>4 DEF ActiveIsEntered
<1>6. n \notin complete /\ Targets(n) \subseteq complete
  <2>1. n \notin complete
    BY <1>1, <1>3 DEF Inv, ActiveIsEntered
  <2>2. \A m \in Targets(n) : m \in complete \/ \E j \in (t + 1)..t : stack[j].node = m
    BY <1>1, <1>3 DEF Inv, LeftIsLast
  <2> QED
    BY <1>3, <2>1, <2>2
<1>7. CompleteIsGrounded'
  <2>1. \A m \in complete' : Targets(m) \subseteq complete'
    BY <1>1, <1>6 DEF Inv, CompleteIsGrounded
  <2>2. ASSUME NEW S \in SUBSET complete', S # {}
        PROVE  \E m \in S : Targets(m) \cap S = {}
    <3>1. CASE S = {n}
      BY <1>6, <3>1
    <3>2. CASE S # {n}
      <4>1. S \ {n} # {} /\ S \ {n} \in SUBSET complete
        BY <1>1, <2>2, <3>2
      <4>2. PICK m \in S \ {n} : Targets(m) \cap (S \ {n}) = {}
        BY <4>1 DEF Inv, CompleteIsGrounded
      <4>3. n \notin Targets(m)
        BY <1>6, <4>1 DEF Inv, CompleteIsGrounded
      <4> QED
        BY <4>2, <4>3
    <3> QED
      BY <3>1, <3>2
  <2> QED
    BY <1>1, <2>1, <2>2, EdgesKept DEF CompleteIsGrounded
<1>8. CyclesAreRejected'
  BY <1>1 DEF CyclesAreRejected
<1> QED
  BY <1>2, <1>4, <1>5, <1>7, <1>8 DEF Inv

\* The node that is to be visited is active: the way from its entry to here is
\* a cycle.
LEMMA RejectInv == Inv /\ Reject => Inv'
<1> SUFFICES ASSUME Inv, Reject PROVE Inv'
  OBVIOUS
<1> DEFINE t == Len(stack)
<1>1. /\ stack # <<>> /\ ~Popped.leaving /\ Popped.node \in active
      /\ verdict = "searching" /\ verdict' = "cycle"
      /\ UNCHANGED <<schema, starts, stack, active, complete>>
  BY DEF Reject
<1>2. t \in Nat /\ t \in 1..t /\ Popped = stack[t]
  BY <1>1, StackIsSeq DEF Inv
<1>3. PICK p \in 1..t : stack[p].leaving /\ stack[p].node = Popped.node
  BY <1>1 DEF Inv, ActiveIsEntered
<1>4. p < t
  BY <1>1, <1>2, <1>3
<1> DEFINE K == {k \in p..(t - 1) : stack[k].leaving}
           S == {stack[k].node : k \in K}
<1>5. stack[t].node \in S
  BY <1>2, <1>3, <1>4
<1>6. S \in SUBSET Nodes
  BY StackIsSeq DEF Inv
<1>7. ASSUME NEW k \in K PROVE Targets(stack[k].node) \cap S # {}
  <2> DEFINE J == {j \in (k + 1)..t : j = t \/ stack[j].leaving}
  <2>1. k \in Nat /\ k \in 1..t /\ k < t /\ stack[k].leaving
    BY <1>2, <1>3
  <2>2. t \in J /\ J \subseteq Nat
    BY <1>2, <2>1
  <2>3. PICK j \in J : \A i \in J : j <= i
    BY <2>2, LeastExists
  <2>4. \A i \in (k + 1)..(j - 1) : ~stack[i].leaving
    BY <1>2, <2>1, <2>3
  <2>5. Below(k, j) /\ j \in 1..t
    BY <2>1, <2>4 DEF Below
  <2>6. stack[j].node \in Targets(stack[k].node)
    BY <2>1, <2>5 DEF Inv, EnteredIsWay
  <2>7. stack[j].node \in S
    <3>1. CASE j = t
      BY <1>5, <3>1
    <3>2. CASE j # t
      <4>1. j \in K
        BY <1>2, <2>1, <3>2
      <4> QED
        BY <4>1
    <3> QED
      BY <3>1, <3>2
  <2> QED
    BY <2>6, <2>7
<1>8. S # {} /\ \A n \in S : Targets(n) \cap S # {}
  BY <1>5, <1>7
<1> HIDE DEF S
<1>9. ~Acyclic
  BY <1>6, <1>8 DEF Acyclic, Targets
<1>10. CyclesAreRejected'
  BY <1>1, <1>9, EdgesKept DEF CyclesAreRejected
<1>11. Searching'
  BY <1>1, EdgesKept DEF Inv, Searching
<1>12. ActiveIsEntered' /\ EnteredIsWay' /\ LeftIsLast' /\ AllReached'
  BY <1>1, EdgesKept DEF Inv, ActiveIsEntered, EnteredIsWay, LeftIsLast, AllReached,
     Below
<1>13. CompleteIsGrounded'
  BY <1>1, EdgesKept DEF Inv, CompleteIsGrounded
<1> QED
  BY <1>10, <1>11, <1>12, <1>13 DEF Inv

\* A node is entered, and what it leads to put on the stack.
LEMMA EnterInv == Inv /\ Enter => Inv'
<1> SUFFICES ASSUME Inv, Enter PROVE Inv'
  OBVIOUS
<1> DEFINE m == Popped.node
           t == Len(stack)
           d == Len(Edges(m))
<1>1. /\ stack # <<>> /\ ~Popped.leaving /\ m \notin complete /\ m \notin active
      /\ active' = active \cup {m} /\ stack' = Pop \o Pushed(m)
      /\ UNCHANGED <<schema, starts, complete, verdict>>
  BY DEF Enter
<1>2. t \in Nat /\ t \in 1..t /\ Popped = stack[t] /\ m \in Nodes
  BY <1>1, StackIsSeq DEF Inv
<1>3. /\ stack' \in Seq(Frame) /\ Len(stack') = t + d /\ d \in Nat
      /\ \A i \in 1..(t - 1) : stack'[i] = stack[i]
      /\ stack'[t].node = m /\ stack'[t].leaving
      /\ \A k \in 1..d : stack'[t + k].node = Edges(m)[k] /\ ~stack'[t + k].leaving
  BY <1>1, PushIsAbove DEF Inv
<1>4. Targets(m) = {Edges(m)[k] : k \in 1..d}
  BY <1>2, EdgesAreNodes DEF Inv, Searching
<1>5. stack[t].node = m /\ ~stack[t].leaving
  BY <1>1, <1>2
<1>6. \A i \in (t + 1)..(t + d) : ~stack'[i].leaving /\ stack'[i].node \in Targets(m)
  <2> TAKE i \in (t + 1)..(t + d)
  <2>1. i - t \in 1..d /\ t + (i - t) = i
    BY <1>2, <1>3
  <2>2. stack'[i].node = Edges(m)[i - t] /\ ~stack'[i].leaving
    BY <1>3, <2>1
  <2> HIDE DEF d
  <2> QED
    BY <1>4, <2>1, <2>2
<1> HIDE DEF m, d, t
<1>7. \A i \in 1..t : stack'[i].node = stack[i].node
  BY <1>2, <1>3, <1>5
<1>8. Searching'
  BY <1>1, <1>2, <1>3, EdgesKept DEF Inv, Searching
<1>9. ActiveIsEntered'
  <2>1. \A i \in 1..(t + d) : stack'[i].leaving =>
           \/ i = t
           \/ i \in 1..(t - 1) /\ stack'[i] = stack[i] /\ stack[i].leaving
    BY <1>2, <1>3, <1>6
  <2>2. \A i \in 1..(t - 1) : stack[i].leaving =>
           stack[i].node \in active /\ stack[i].node \notin complete
    BY <1>2 DEF Inv, ActiveIsEntered, t
  <2>3. \A i \in 1..(t + d) : stack'[i].leaving =>
           stack'[i].node \in active' /\ stack'[i].node \notin complete'
    <3> SUFFICES ASSUME NEW i \in 1..(t + d), stack'[i].leaving
                 PROVE  stack'[i].node \in active' /\ stack'[i].node \notin complete'
      OBVIOUS
    <3>1. CASE i = t
      BY <1>1, <1>3, <3>1
    <3>2. CASE i \in 1..(t - 1) /\ stack'[i] = stack[i] /\ stack[i].leaving
      BY <1>1, <2>2, <3>2
    <3> QED
      BY <2>1, <3>1, <3>2
  <2>4. \A n \in active' : \E i \in 1..(t + d) :
           stack'[i].leaving /\ stack'[i].node = n
    <3> TAKE n \in active'
    <3>1. CASE n = m
      BY <1>2, <1>3, <3>1
    <3>2. CASE n # m
      <4>1. PICK i \in 1..t : stack[i].leaving /\ stack[i].node = n
        BY <1>1, <3>2 DEF Inv, ActiveIsEntered, t
      <4>2. i \in 1..(t - 1)
        BY <1>2, <1>5, <4>1
      <4> QED
        BY <1>2, <1>3, <4>1, <4>2
    <3> QED
      BY <3>1, <3>2
  <2>5. ASSUME NEW i \in 1..(t + d), NEW j \in 1..(t + d),
               stack'[i].leaving, stack'[j].leaving, stack'[i].node = stack'[j].node
        PROVE  i = j
    <3>1. \A k \in 1..(t - 1) : stack[k].leaving => stack[k].node # m
      BY <1>1, <2>2
    <3>2. \/ i = t /\ j = t
          \/ /\ i \in 1..(t - 1) /\ stack'[i] = stack[i] /\ stack[i].leaving
             /\ j \in 1..(t - 1) /\ stack'[j] = stack[j] /\ stack[j].leaving
      BY <1>3, <2>1, <2>5, <3>1
    <3>3. \A k, l \in 1..t :
             stack[k].leaving /\ stack[l].leaving /\ stack[k].node = stack[l].node
                => k = l
      BY DEF Inv, ActiveIsEntered, t
    <3>4. 1..(t - 1) \subseteq 1..t
      BY <1>2
    <3> QED
      BY <2>5, <3>2, <3>3, <3>4
  <2> QED
    BY <1>3, <2>3, <2>4, <2>5 DEF ActiveIsEntered
<1>10. EnteredIsWay'
  <2> SUFFICES ASSUME NEW i \in 1..(t + d), NEW j \in 1..(t + d), Below(i, j)'
               PROVE  stack'[j].node \in Targets(stack'[i].node)
    BY <1>1, <1>3, EdgesKept DEF EnteredIsWay
  <2>1. /\ i < j /\ stack'[i].leaving
        /\ \A k \in (i + 1)..(j - 1) : ~stack'[k].leaving
    BY DEF Below
  <2>2. i <= t /\ (j > t => i = t)
    BY <1>2, <1>3, <1>6, <2>1
  <2>3. CASE j > t
    BY <1>2, <1>3, <1>6, <2>2, <2>3
  <2>4. CASE j <= t
    <3>1. i \in 1..(t - 1) /\ j \in 1..t
      BY <1>2, <2>1, <2>4
    <3>2. \A k \in (i + 1)..(j - 1) : ~stack[k].leaving
      BY <1>2, <1>3, <2>1, <3>1
    <3>3. Below(i, j)
      BY <1>3, <2>1, <3>1, <3>2 DEF Below
    <3>4. stack[j].node \in Targets(stack[i].node)
      BY <1>2, <3>1, <3>3 DEF Inv, EnteredIsWay, t
    <3> QED
      BY <1>2, <1>7, <3>1, <3>4
  <2> QED
    BY <1>2, <2>3, <2>4
<1>11. LeftIsLast'
  <2> SUFFICES ASSUME NEW i \in 1..(t + d), stack'[i].leaving,
                      NEW n \in Targets(stack'[i].node), n \notin complete
               PROVE  \E j \in (i + 1)..(t + d) : stack'[j].node = n
    <3>1. Len(stack') = t + d /\ complete' = complete /\ schema' = schema
      BY <1>1, <1>3
    <3> QED
      BY <3>1, EdgesKept DEF LeftIsLast
  <2>1. CASE i = t
    <3>1. PICK k \in 1..d : n = Edges(m)[k]
      BY <1>3, <1>4, <2>1
    <3>2. t + k \in (i + 1)..(t + d)
      BY <1>2, <1>3, <2>1
    <3> QED
      BY <1>3, <3>1, <3>2
  <2>2. CASE i # t
    <3>1. i \in 1..(t - 1) /\ stack[i].leaving /\ n \in Targets(stack[i].node)
      BY <1>2, <1>3, <1>6, <2>2
    <3>2. PICK j \in (i + 1)..t : stack[j].node = n
      BY <1>2, <3>1 DEF Inv, LeftIsLast, t
    <3> QED
      BY <1>2, <1>3, <1>7, <3>1, <3>2
  <2> QED
    BY <2>1, <2>2
<1>12. AllReached'
  <2>1. \A n \in Nodes : \/ n \in starts \/ n \in complete
                         \/ \E i \in 1..t : stack'[i].node = n
    BY <1>7 DEF Inv, AllReached, t
  <2>2. 1..t \subseteq 1..(t + d)
    BY <1>2, <1>3
  <2> QED
    BY <1>1, <1>3, <2>1, <2>2, EdgesKept DEF AllReached
<1>13. CompleteIsGrounded' /\ CyclesAreRejected'
  BY <1>1, EdgesKept DEF Inv, CompleteIsGrounded, CyclesAreRejected
<1> QED
  BY <1>8, <1>9, <1>10, <1>11, <1>12, <1>13 DEF Inv

\* Everything has been searched: the schema has no cycle.
LEMMA NewContractInv == Inv /\ NewContract => Inv'
<1> SUFFICES ASSUME Inv, NewContract PROVE Inv'
  OBVIOUS
<1>1. /\ verdict = "searching" /\ stack = <<>> /\ starts = {}
      /\ verdict' \in {"accepted", "refused"}
      /\ UNCHANGED <<schema, starts, stack, active, complete>>
  BY DEF NewContract
<1>2. Nodes = complete
  <2>1. Len(stack) = 0
    BY <1>1
  <2>2. \A n \in Nodes : n \in complete
    BY <1>1, <2>1 DEF Inv, AllReached
  <2>3. complete \subseteq Nodes
    BY DEF Inv, Searching
  <2> QED
    BY <2>2, <2>3
<1>3. Acyclic
  BY <1>2 DEF Inv, CompleteIsGrounded, Acyclic, Targets
<1>4. CyclesAreRejected'
  BY <1>1, <1>3, EdgesKept DEF CyclesAreRejected
<1>5. Searching'
  BY <1>1, EdgesKept DEF Inv, Searching
<1>6. ActiveIsEntered' /\ EnteredIsWay' /\ LeftIsLast' /\ AllReached'
  BY <1>1, EdgesKept DEF Inv, ActiveIsEntered, EnteredIsWay, LeftIsLast, AllReached,
     Below
<1>7. CompleteIsGrounded'
  BY <1>1, EdgesKept DEF Inv, CompleteIsGrounded
<1> QED
  BY <1>4, <1>5, <1>6, <1>7 DEF Inv

-----------------------------------------------------------------------------
(* The theorems. *)

\* The search keeps its stack, its active and its complete nodes in the order
\* of a depth-first search.
THEOREM Invariance == Spec => []Inv
<1>1. Inv /\ UNCHANGED vars => Inv'
  <2> SUFFICES ASSUME Inv, UNCHANGED vars PROVE Inv'
    OBVIOUS
  <2>1. UNCHANGED <<schema, starts, stack, active, complete, verdict>>
    BY DEF vars
  <2>2. Searching' /\ CompleteIsGrounded' /\ CyclesAreRejected'
    BY <2>1, EdgesKept DEF Inv, Searching, CompleteIsGrounded, CyclesAreRejected
  <2>3. ActiveIsEntered' /\ EnteredIsWay' /\ LeftIsLast' /\ AllReached'
    BY <2>1, EdgesKept DEF Inv, ActiveIsEntered, EnteredIsWay, LeftIsLast, AllReached,
       Below
  <2> QED
    BY <2>2, <2>3 DEF Inv
<1>2. Inv /\ [Next]_vars => Inv'
  BY <1>1, StartInv, LeaveInv, SkipInv, RejectInv, EnterInv, NewContractInv DEF Next
<1> QED
  BY <1>2, InitInv, PTL DEF Spec

\* reject_nonprogressing_cycles is a correct cycle test for any schema: what it
\* refuses has a cycle of references, what it lets pass has none.
THEOREM CyclesRejected == Spec => []CyclesAreRejected
<1>1. Inv => CyclesAreRejected
  BY DEF Inv
<1> QED
  BY <1>1, Invariance, PTL

-----------------------------------------------------------------------------
(* Decoding. *)

\* A cell of a column that Contract::new does not find ambiguous is decoded by
\* record to the value that was stored, whichever database stored it.
THEOREM UnambiguousDecoding ==
    ASSUME NEW types \in SUBSET Types, ~Ambiguous(types), NEW value \in types,
           NEW turso \in BOOLEAN, NEW cell \in Stored(value, turso)
    PROVE  Decoded(cell, value, types, turso) = value
BY DEF Types, Ambiguous, Structured, Boolean, Stored, Decoded

\* The depth of the recursions.
LEMMA DepthIsNat == ASSUME schema \in Schemas PROVE Cardinality(Nodes) \in Nat
BY SchemasAreGraphs, FS_CardinalityType DEF Nodes

LEMMA TypesRecursion ==
    ASSUME Cardinality(Nodes) \in Nat
    PROVE  \A d \in 0..Cardinality(Nodes) :
             TypesUpTo[d] = IF d = 0 THEN [n \in Nodes |-> Types]
                            ELSE TypesStep(TypesUpTo[d - 1])
<1> DEFINE N == Cardinality(Nodes)
           base == [n \in Nodes |-> Types]
           Is(f, k) == f = [d \in 0..k |-> IF d = 0 THEN base ELSE TypesStep(f[d - 1])]
           Good == {k \in 0..N : \E f : Is(f, k)}
<1>1. 0 \in Good
  <2> DEFINE f == [d \in 0..0 |-> base]
  <2>1. Is(f, 0)
    OBVIOUS
  <2> HIDE DEF f, Is
  <2> QED
    BY <2>1
<1>2. ASSUME NEW k \in 0..(N - 1), k \in Good PROVE k + 1 \in Good
  <2>1. PICK g : Is(g, k)
    BY <1>2
  <2>2. \A d \in 0..k : g[d] = IF d = 0 THEN base ELSE TypesStep(g[d - 1])
    BY <2>1
  <2> DEFINE f == [d \in 0..(k + 1) |-> IF d = k + 1 THEN TypesStep(g[k]) ELSE g[d]]
             h == [d \in 0..(k + 1) |-> IF d = 0 THEN base ELSE TypesStep(f[d - 1])]
  <2>3. \A d \in 0..(k + 1) : f[d] = h[d]
    <3> HIDE DEF base
    <3> TAKE d \in 0..(k + 1)
    <3>1. d # 0 => f[d - 1] = g[d - 1] /\ d - 1 # k + 1
      OBVIOUS
    <3> QED
      BY <2>2, <3>1
  <2>4. Is(f, k + 1)
    BY <2>3
  <2> HIDE DEF f, Is
  <2> QED
    BY <2>4
<1>3. N \in Good
  <2> HIDE DEF Good
  <2> QED
    BY <1>1, <1>2, Induction
<1>4. PICK f : f = [d \in 0..Cardinality(Nodes) |->
          IF d = 0 THEN [n \in Nodes |-> Types] ELSE TypesStep(f[d - 1])]
  BY <1>3
<1>5. TypesUpTo = [d \in 0..Cardinality(Nodes) |->
          IF d = 0 THEN [n \in Nodes |-> Types] ELSE TypesStep(TypesUpTo[d - 1])]
  BY <1>4, Zenon DEF TypesUpTo
<1> HIDE DEF Good
<1> QED
  BY <1>5

\* A value that satisfies a node has one of the types that types computes for it.
LEMMA TypesSound ==
    ASSUME schema \in Schemas, NEW n, NEW v \in Types, Satisfies(n, v)
    PROVE  v \in TypesOf(n)
<1> DEFINE N == Cardinality(Nodes)
<1>1. PICK S \in SUBSET Nodes :
         n \in S /\ \A m \in S : v \in schema[m].type /\ Supported(m, S)
  BY DEF Satisfies
<1>2. N \in Nat
  BY DepthIsNat
<1> DEFINE Good == {d \in 0..N : \A m \in S : v \in TypesUpTo[d][m]}
<1>3. 0 \in Good
  BY <1>2, TypesRecursion
<1>4. ASSUME NEW d \in 0..(N - 1), d \in Good PROVE d + 1 \in Good
  <2>1. TypesUpTo[d + 1] = TypesStep(TypesUpTo[d])
    BY <1>2, TypesRecursion
  <2>2. \A m \in S : v \in TypesStep(TypesUpTo[d])[m]
    BY <1>1, <1>4 DEF TypesStep, Supported
  <2> QED
    BY <1>2, <2>1, <2>2
<1>5. N \in Good
  <2> HIDE DEF Good
  <2> QED
    BY <1>2, <1>3, <1>4, Induction
<1> QED
  BY <1>1, <1>5 DEF TypesOf

LEMMA CollectRecursion ==
    ASSUME Cardinality(Nodes) \in Nat
    PROVE  \A d \in 0..Cardinality(Nodes) :
             CollectUpTo[d] = IF d = 0 THEN [n \in Nodes |-> [ok |-> TRUE, columns |-> NoColumns]]
                            ELSE CollectStep(CollectUpTo[d - 1])
<1> DEFINE N == Cardinality(Nodes)
           base == [n \in Nodes |-> [ok |-> TRUE, columns |-> NoColumns]]
           Is(f, k) == f = [d \in 0..k |-> IF d = 0 THEN base ELSE CollectStep(f[d - 1])]
           Good == {k \in 0..N : \E f : Is(f, k)}
<1>1. 0 \in Good
  <2> DEFINE f == [d \in 0..0 |-> base]
  <2>1. Is(f, 0)
    OBVIOUS
  <2> HIDE DEF f, Is
  <2> QED
    BY <2>1
<1>2. ASSUME NEW k \in 0..(N - 1), k \in Good PROVE k + 1 \in Good
  <2>1. PICK g : Is(g, k)
    BY <1>2
  <2>2. \A d \in 0..k : g[d] = IF d = 0 THEN base ELSE CollectStep(g[d - 1])
    BY <2>1
  <2> DEFINE f == [d \in 0..(k + 1) |-> IF d = k + 1 THEN CollectStep(g[k]) ELSE g[d]]
             h == [d \in 0..(k + 1) |-> IF d = 0 THEN base ELSE CollectStep(f[d - 1])]
  <2>3. \A d \in 0..(k + 1) : f[d] = h[d]
    <3> HIDE DEF base
    <3> TAKE d \in 0..(k + 1)
    <3>1. d # 0 => f[d - 1] = g[d - 1] /\ d - 1 # k + 1
      OBVIOUS
    <3> QED
      BY <2>2, <3>1
  <2>4. Is(f, k + 1)
    BY <2>3
  <2> HIDE DEF f, Is
  <2> QED
    BY <2>4
<1>3. N \in Good
  <2> HIDE DEF Good
  <2> QED
    BY <1>1, <1>2, Induction
<1>4. PICK f : f = [d \in 0..Cardinality(Nodes) |->
          IF d = 0 THEN [n \in Nodes |-> [ok |-> TRUE, columns |-> NoColumns]] ELSE CollectStep(f[d - 1])]
  BY <1>3
<1>5. CollectUpTo = [d \in 0..Cardinality(Nodes) |->
          IF d = 0 THEN [n \in Nodes |-> [ok |-> TRUE, columns |-> NoColumns]] ELSE CollectStep(CollectUpTo[d - 1])]
  BY <1>4, Zenon DEF CollectUpTo
<1> HIDE DEF Good
<1> QED
  BY <1>5

\* What the columns of a node allow is all that a record can have that satisfies
\* it.
Allows(f, r) == \A c \in DOMAIN f \cap DOMAIN r : r[c] \in f[c]

LEMMA MergedAllows ==
    ASSUME NEW r, \A c \in DOMAIN r : r[c] \in Types,
           NEW definitions, \A f \in definitions : Allows(f, r)
    PROVE  Allows(Merged(definitions), r)
BY DEF Allows, Merged

LEMMA UnionAllows ==
    ASSUME NEW r, \A c \in DOMAIN r : r[c] \in Types,
           NEW alternatives,
           alternatives # {} => \E f \in alternatives : Allows(f, r)
    PROVE  Allows(Union(alternatives), r)
<1> SUFFICES ASSUME NEW c \in DOMAIN Union(alternatives) \cap DOMAIN r
             PROVE  r[c] \in Union(alternatives)[c]
  BY DEF Allows
<1>1. alternatives # {}
  BY DEF Union
<1>2. PICK f \in alternatives : Allows(f, r)
  BY <1>1
<1>3. r[c] \in IF c \in DOMAIN f THEN f[c] ELSE Types
  BY <1>2 DEF Allows
<1> QED
  BY <1>3 DEF Union

LEMMA ColumnsSound ==
    ASSUME schema \in Schemas, NEW r \in Records, ValidRecord(r)
    PROVE  Allows(Columns, r)
<1> DEFINE N == Cardinality(Nodes)
<1>1. PICK S \in SUBSET Nodes :
        /\ Root \in S
        /\ \A m \in S :
              /\ \A c \in DOMAIN schema[m].properties \cap DOMAIN r :
                    Satisfies(schema[m].properties[c], r[c])
              /\ Supported(m, S)
  BY DEF ValidRecord
<1>2. N \in Nat
  BY DepthIsNat
<1>3. \A c \in DOMAIN r : r[c] \in Types
  BY DEF Records
<1> DEFINE Good == {d \in 0..N : \A m \in S : Allows(CollectUpTo[d][m].columns, r)}
<1>4. 0 \in Good
  BY <1>2, CollectRecursion DEF NoColumns, Allows
<1>5. ASSUME NEW d \in 0..(N - 1), d \in Good PROVE d + 1 \in Good
  <2> SUFFICES ASSUME NEW n \in S
               PROVE  Allows(CollectUpTo[d + 1][n].columns, r)
    BY <1>2
  <2> DEFINE below == CollectUpTo[d]
             branches == {below[m].columns : m \in Branches(n)}
             own == Merged({Direct(n)} \cup branches)
             alternatives == {below[m].columns : m \in Range(schema[n].anyOf)}
  <2>1. CollectUpTo[d + 1] = CollectStep(below)
    BY <1>2, CollectRecursion
  <2>2. CollectUpTo[d + 1][n].columns = Merged({own, Union(alternatives)})
    BY <2>1 DEF CollectStep
  <2>3. \A m \in S : Allows(below[m].columns, r)
    BY <1>5
  <2> HIDE DEF below
  <2>4. Allows(Direct(n), r)
    BY <1>1, <1>3, TypesSound DEF Direct, Allows
  <2>5. \A f \in branches : Allows(f, r)
    BY <1>1, <2>3 DEF Supported
  <2>6. Allows(own, r)
    <3> HIDE DEF branches
    <3>1. \A f \in {Direct(n)} \cup branches : Allows(f, r)
      BY <2>4, <2>5
    <3> QED
      BY <1>3, <3>1, MergedAllows
  <2>7. Allows(Union(alternatives), r)
    <3>1. alternatives # {} => \E f \in alternatives : Allows(f, r)
      <4> SUFFICES ASSUME alternatives # {}
                   PROVE  \E f \in alternatives : Allows(f, r)
        OBVIOUS
      <4>1. schema[n].anyOf # <<>>
        BY DEF Range
      <4>2. PICK m \in S : m \in Range(schema[n].anyOf)
        BY <1>1, <4>1 DEF Supported
      <4> QED
        BY <2>3, <4>2
    <3> HIDE DEF alternatives
    <3> QED
      BY <1>3, <3>1, UnionAllows
  <2> HIDE DEF own, alternatives
  <2>8. Allows(Merged({own, Union(alternatives)}), r)
    BY <1>3, <2>6, <2>7, MergedAllows
  <2> QED
    BY <2>2, <2>8
<1>6. N \in Good
  <2> HIDE DEF Good
  <2> QED
    BY <1>2, <1>4, <1>5, Induction
<1> QED
  BY <1>1, <1>6 DEF Columns, Collected

\* Every column has a set of types.
LEMMA ColumnsAreTypes ==
    ASSUME schema \in Schemas, Root \in Nodes, NEW c \in DOMAIN Columns
    PROVE  Columns[c] \in SUBSET Types
<1> DEFINE N == Cardinality(Nodes)
<1>1. N \in Nat \ {0}
  <2>1. IsFiniteSet(Nodes)
    BY SchemasAreGraphs DEF Nodes
  <2> QED
    BY <2>1, DepthIsNat, FS_EmptySet
<1>2. CollectUpTo[N] = CollectStep(CollectUpTo[N - 1])
  BY <1>1, CollectRecursion
<1> DEFINE below == CollectUpTo[N - 1]
           own == Merged({Direct(Root)} \cup {below[m].columns : m \in Branches(Root)})
           alternatives == {below[m].columns : m \in Range(schema[Root].anyOf)}
           definitions == {own, Union(alternatives)}
<1>3. Columns = Merged(definitions)
  BY <1>2 DEF Columns, Collected, CollectStep
<1> HIDE DEF definitions
<1> QED
  BY <1>3 DEF Merged

\* No column of a schema that was accepted is ambiguous.
AcceptedIsUnambiguous ==
    verdict = "accepted" => \A c \in DOMAIN Columns : ~Ambiguous(Columns[c])

LEMMA ColumnsKept == ASSUME schema' = schema PROVE Columns' = Columns
BY DEF Columns, Collected, CollectUpTo, CollectStep, TypesOf, TypesUpTo, TypesStep,
   Direct, Branches, Nodes

\* record answers what the database stored, for every schema that Contract::new
\* accepts and every record that satisfies it.
THEOREM Decoding == Spec => []DecodingIsFaithful
<1> DEFINE Known == schema \in Schemas /\ AcceptedIsUnambiguous
<1>1. Init => Known
  BY DEF Init, AcceptedIsUnambiguous
<1>2. Known /\ [Next]_vars => Known'
  <2> SUFFICES ASSUME Known, [Next]_vars PROVE Known'
    OBVIOUS
  <2>1. schema' = schema
    BY DEF vars, Next, Start, Leave, Skip, Reject, Enter, NewContract
  <2>2. Columns' = Columns
    BY <2>1, ColumnsKept
  <2>3. CASE NewContract
    BY <2>1, <2>2, <2>3 DEF NewContract, AcceptedIsUnambiguous, Ambiguous, Structured, Boolean
  <2>4. CASE ~NewContract
    <3>1. verdict' = "accepted" => verdict = "accepted"
      BY <2>4 DEF vars, Next, Start, Leave, Skip, Reject, Enter
    <3> QED
      BY <2>1, <2>2, <3>1 DEF AcceptedIsUnambiguous, Ambiguous, Structured, Boolean
  <2> QED
    BY <2>3, <2>4
<1>3. Known => DecodingIsFaithful
  <2> SUFFICES ASSUME Known, verdict = "accepted",
                      NEW r \in Records, NEW turso \in BOOLEAN, ValidRecord(r),
                      NEW c \in DOMAIN r, NEW cell \in Stored(r[c], turso)
               PROVE  Decoded(cell, r[c], Columns[c], turso) = r[c]
    BY DEF DecodingIsFaithful
  <2>1. c \in DOMAIN Columns /\ Root \in Nodes
    BY DEF Records, ValidRecord
  <2>2. r[c] \in Columns[c]
    BY <2>1, ColumnsSound DEF Allows
  <2>3. Columns[c] \in SUBSET Types
    BY <2>1, ColumnsAreTypes
  <2>4. ~Ambiguous(Columns[c])
    BY <2>1 DEF AcceptedIsUnambiguous
  <2> QED
    BY <2>2, <2>3, <2>4, UnambiguousDecoding
<1> QED
  BY <1>1, <1>2, <1>3, PTL DEF Spec

-----------------------------------------------------------------------------
(* Routes. *)

LEMMA FileIsSeq ==
    ASSUME NEW f, IsFile(f)
    PROVE  /\ Len(f.segments) \in Nat /\ Places(f) = 1..Len(f.segments)
           /\ Kinds(f) \in [1..Len(f.segments) -> {0, 1}]
           /\ Len(Kinds(f)) = Len(f.segments)
           /\ \A i \in Places(f) : /\ f.segments[i] \in Segment
                                   /\ Kinds(f)[i] = f.segments[i].kind
                                   /\ IsDynamic(f, i) <=> Kinds(f)[i] = 1
<1>1. Len(f.segments) \in Nat /\ Places(f) = 1..Len(f.segments)
  BY LenProperties DEF IsFile, Places
<1>2. \A i \in Places(f) : f.segments[i] \in Segment
  BY <1>1, ElementOfSeq DEF IsFile
<1>3. Kinds(f) \in [1..Len(f.segments) -> {0, 1}]
  BY <1>1, <1>2 DEF Kinds, Segment
<1>4. Len(Kinds(f)) = Len(f.segments)
  BY <1>1, <1>3
<1> QED
  BY <1>1, <1>2, <1>3, <1>4 DEF Kinds, IsDynamic

\* The order of the keys is transitive.
LEMMA BeforeTransitive ==
    ASSUME NEW A \in Nat, NEW B \in Nat, NEW C \in Nat,
           NEW a \in [1..A -> {0, 1}], NEW b \in [1..B -> {0, 1}],
           NEW c \in [1..C -> {0, 1}],
           Before(a, b), Before(b, c)
    PROVE  Before(a, c)
<1>1. Len(a) = A /\ Len(b) = B /\ Len(c) = C
  OBVIOUS
<1>2. CASE \E i \in DOMAIN a \cap DOMAIN b :
             a[i] < b[i] /\ \A j \in 1..(i - 1) : a[j] = b[j]
  <2>1. PICK i \in DOMAIN a \cap DOMAIN b :
           a[i] < b[i] /\ \A j \in 1..(i - 1) : a[j] = b[j]
    BY <1>2
  <2>2. CASE \E k \in DOMAIN b \cap DOMAIN c :
               b[k] < c[k] /\ \A j \in 1..(k - 1) : b[j] = c[j]
    <3>1. PICK k \in DOMAIN b \cap DOMAIN c :
             b[k] < c[k] /\ \A j \in 1..(k - 1) : b[j] = c[j]
      BY <2>2
    <3>2. CASE i < k
      <4>1. i \in DOMAIN a \cap DOMAIN c /\ a[i] < c[i]
        BY <1>1, <2>1, <3>1, <3>2
      <4>2. \A j \in 1..(i - 1) : a[j] = c[j]
        BY <1>1, <2>1, <3>1, <3>2
      <4> QED
        BY <4>1, <4>2 DEF Before
    <3>3. CASE k <= i
      <4>1. k \in DOMAIN a \cap DOMAIN c /\ a[k] < c[k]
        BY <1>1, <2>1, <3>1, <3>3
      <4>2. \A j \in 1..(k - 1) : a[j] = c[j]
        BY <1>1, <2>1, <3>1, <3>3
      <4> QED
        BY <4>1, <4>2 DEF Before
    <3> QED
      BY <1>1, <3>2, <3>3
  <2>3. CASE Len(b) < Len(c) /\ \A j \in DOMAIN b : b[j] = c[j]
    <3>1. i \in DOMAIN a \cap DOMAIN c /\ a[i] < c[i]
      BY <1>1, <2>1, <2>3
    <3>2. \A j \in 1..(i - 1) : a[j] = c[j]
      BY <1>1, <2>1, <2>3
    <3> QED
      BY <3>1, <3>2 DEF Before
  <2> QED
    BY <2>2, <2>3 DEF Before
<1>3. CASE Len(a) < Len(b) /\ \A j \in DOMAIN a : a[j] = b[j]
  <2>1. CASE Len(b) < Len(c) /\ \A j \in DOMAIN b : b[j] = c[j]
    BY <1>1, <1>3, <2>1 DEF Before
  <2>2. CASE \E k \in DOMAIN b \cap DOMAIN c :
               b[k] < c[k] /\ \A j \in 1..(k - 1) : b[j] = c[j]
    <3>1. PICK k \in DOMAIN b \cap DOMAIN c :
             b[k] < c[k] /\ \A j \in 1..(k - 1) : b[j] = c[j]
      BY <2>2
    <3>2. CASE k \in DOMAIN a
      <4>1. a[k] < c[k] /\ \A j \in 1..(k - 1) : a[j] = c[j]
        BY <1>1, <1>3, <3>1, <3>2
      <4> QED
        BY <3>1, <3>2, <4>1 DEF Before
    <3>3. CASE k \notin DOMAIN a
      BY <1>1, <1>3, <3>1, <3>3 DEF Before
    <3> QED
      BY <3>2, <3>3
  <2> QED
    BY <2>1, <2>2 DEF Before
<1> QED
  BY <1>2, <1>3 DEF Before

\* The sort key is an order.
LEMMA BeforeOrders ==
    ASSUME NEW files, \A f \in files : IsFile(f)
    PROVE  Orders({p \in files \X files : Before(Kinds(p[1]), Kinds(p[2]))}, files)
<1>1. ASSUME NEW f \in files PROVE ~Before(Kinds(f), Kinds(f))
  BY FileIsSeq DEF Before
<1>2. ASSUME NEW f \in files, NEW g \in files, NEW h \in files,
             Before(Kinds(f), Kinds(g)), Before(Kinds(g), Kinds(h))
      PROVE  Before(Kinds(f), Kinds(h))
  <2>1. \A e \in files : \E n \in Nat : Kinds(e) \in [1..n -> {0, 1}]
    BY FileIsSeq
  <2> QED
    BY <1>2, <2>1, BeforeTransitive
<1> QED
  BY <1>1, <1>2 DEF Orders

\* The endpoints of a snapshot are its files in the order of their keys.
LEMMA EndpointsAreSorted ==
    ASSUME NEW files, IsFiniteSet(files), \A f \in files : IsFile(f)
    PROVE  /\ Endpoints(files) \in [1..Cardinality(files) -> files]
           /\ Range(Endpoints(files)) = files
           /\ Ordered(Endpoints(files))
<1> DEFINE R == {p \in files \X files : Before(Kinds(p[1]), Kinds(p[2]))}
<1>1. PICK s : Sorts(s, files, R)
  <2> HIDE DEF R
  <2>1. Orders(R, files)
    BY BeforeOrders DEF R
  <2> QED
    BY <2>1, SortedExists
<1>2. s \in [1..Cardinality(files) -> files] /\ Range(s) = files
  BY <1>1 DEF Sorts
<1>3. Ordered(s)
  <2> SUFFICES ASSUME NEW i \in 1..Cardinality(files), NEW j \in 1..Cardinality(files), i < j
               PROVE  ~Before(Kinds(s[j]), Kinds(s[i]))
    BY <1>2 DEF Ordered
  <2>1. <<s[j], s[i]>> \notin R /\ s[i] \in files /\ s[j] \in files
    BY <1>1, <1>2 DEF Sorts
  <2> QED
    BY <2>1
<1> HIDE DEF R
<1>4. \E t \in [1..Cardinality(files) -> files] : Range(t) = files /\ Ordered(t)
  BY <1>2, <1>3
<1> QED
  BY <1>4, Zenon DEF Endpoints

\* Of two endpoints that match the same request, the more specific one comes first.
LEMMA BeatsIsBefore ==
    ASSUME NEW f, NEW g, IsFile(f), IsFile(g), Len(f.segments) = Len(g.segments)
    PROVE  /\ Beats(f, g) => Before(Kinds(f), Kinds(g))
           /\ ~Beats(f, g) /\ ~Beats(g, f) =>
                 \A i \in Places(f) : IsDynamic(f, i) <=> IsDynamic(g, i)
<1>1. /\ Len(f.segments) \in Nat
      /\ Places(f) = 1..Len(f.segments) /\ Places(g) = 1..Len(f.segments)
      /\ Kinds(f) \in [1..Len(f.segments) -> {0, 1}]
      /\ Kinds(g) \in [1..Len(f.segments) -> {0, 1}]
      /\ \A i \in Places(f) : IsDynamic(f, i) <=> Kinds(f)[i] = 1
      /\ \A i \in Places(f) : IsDynamic(g, i) <=> Kinds(g)[i] = 1
  BY FileIsSeq
<1>2. ASSUME Beats(f, g) PROVE Before(Kinds(f), Kinds(g))
  <2>1. PICK i \in Places(f) :
          /\ ~IsDynamic(f, i) /\ IsDynamic(g, i)
          /\ \A j \in Places(f) : j < i => (IsDynamic(f, j) <=> IsDynamic(g, j))
    BY <1>1, <1>2 DEF Beats
  <2>2. Kinds(f)[i] < Kinds(g)[i] /\ \A j \in 1..(i - 1) : Kinds(f)[j] = Kinds(g)[j]
    BY <1>1, <2>1
  <2> QED
    BY <1>1, <2>2 DEF Before
<1>3. ASSUME ~Beats(f, g), ~Beats(g, f)
      PROVE  \A i \in Places(f) : IsDynamic(f, i) <=> IsDynamic(g, i)
  <2> DEFINE Bad == {i \in Places(f) : ~(IsDynamic(f, i) <=> IsDynamic(g, i))}
  <2> SUFFICES ASSUME Bad # {} PROVE FALSE
    OBVIOUS
  <2>1. Bad \subseteq Nat
    BY <1>1
  <2>2. PICK i \in Bad : \A j \in Bad : i <= j
    BY <2>1, LeastExists
  <2>3. \A j \in Places(f) : j < i => (IsDynamic(f, j) <=> IsDynamic(g, j))
    BY <1>1, <2>2
  <2> QED
    BY <1>1, <1>3, <2>2, <2>3 DEF Beats
<1> QED
  BY <1>2, <1>3

\* Two endpoints that match the same request, neither of which is more specific,
\* have the same path.
LEMMA EqualsHaveOnePath ==
    ASSUME NEW f, NEW g, IsFile(f), IsFile(g), SameDynamicNames(f, g),
           NEW values, Matches(f, values), Matches(g, values),
           ~Beats(f, g), ~Beats(g, f)
    PROVE  f.segments = g.segments
<1>1. /\ Len(f.segments) \in Nat /\ Len(f.segments) = Len(g.segments)
      /\ Places(f) = 1..Len(f.segments) /\ Places(g) = 1..Len(f.segments)
      /\ \A i \in Places(f) : f.segments[i] \in Segment /\ g.segments[i] \in Segment
  <2>1. Len(f.segments) = Len(g.segments)
    BY DEF Matches
  <2> QED
    BY <2>1, FileIsSeq
<1>2. \A i \in Places(f) : IsDynamic(f, i) <=> IsDynamic(g, i)
  BY <1>1, BeatsIsBefore
<1> DEFINE Bad == {i \in Places(f) : f.segments[i] # g.segments[i]}
<1>3. Bad = {}
  <2> SUFFICES ASSUME Bad # {} PROVE FALSE
    OBVIOUS
  <2>1. Bad \subseteq Nat
    BY <1>1
  <2>2. PICK i \in Bad : \A j \in Bad : i <= j
    BY <2>1, LeastExists
  <2>3. i \in Places(f) /\ f.segments[i] # g.segments[i]
    BY <2>2
  <2>4. \A j \in 1..i : j # i => f.segments[j] = g.segments[j] /\ j \in Places(f)
    BY <1>1, <2>2
  <2> HIDE DEF Bad
  <2>5. CASE ~IsDynamic(f, i)
    <3>1. f.segments[i].name = values[i] /\ g.segments[i].name = values[i]
      BY <1>1, <1>2, <2>3, <2>5 DEF Matches
    <3>2. f.segments[i].kind = 0 /\ g.segments[i].kind = 0
      BY <1>1, <1>2, <2>3, <2>5 DEF IsDynamic, Segment
    <3> QED
      BY <1>1, <2>3, <3>1, <3>2 DEF Segment
  <2>6. CASE IsDynamic(f, i)
    <3>1. \A j \in 1..i : (IsDynamic(f, j) <=> IsDynamic(g, j))
      BY <1>2, <2>3, <2>4
    <3>2. Structural(f, i) = Structural(g, i)
      BY <1>1, <2>3, <2>4, <2>6, <3>1 DEF Structural
    <3> QED
      BY <1>1, <2>3, <2>6, <3>2 DEF SameDynamicNames
  <2> QED
    BY <2>5, <2>6
<1> QED
  BY <1>1, <1>3, SeqEqual DEF IsFile

\* resolve answers as the most specific path says, for every snapshot that
\* from_files accepts and every request.
THEOREM Resolution ==
    ASSUME NEW files, IsFiniteSet(files), \A f \in files : IsFile(f), Accepted(files),
           NEW method, NEW values \in Seq(STRING)
    PROVE  MostSpecific(files, method, values, Resolve(files, method, values))
<1> DEFINE e == Endpoints(files)
           N == Cardinality(files)
           matching == {i \in DOMAIN e : Matches(e[i], values)}
           best == Best(files, values)
           mine == {f \in best : f.method = method}
<1>1. /\ e \in [1..N -> files] /\ Range(e) = files /\ Ordered(e) /\ N \in Nat
  BY EndpointsAreSorted, FS_CardinalityType
<1> HIDE DEF e, N
<1>2. /\ DOMAIN e = 1..N /\ \A i \in DOMAIN e : e[i] \in files
      /\ \A f \in files : \E i \in DOMAIN e : e[i] = f
  BY <1>1 DEF Range
<1>3. CASE matching = {}
  <2>1. \A f \in files : ~Matches(f, values)
    BY <1>2, <1>3
  <2>2. best = {}
    BY <2>1 DEF Best
  <2>3. Resolve(files, method, values) = NotFound
    BY <1>3 DEF Resolve, e
  <2> QED
    BY <2>2, <2>3 DEF MostSpecific
<1>4. CASE matching # {}
  <2> DEFINE first == Min(matching)
             path == e[first].segments
             samePath == {i \in DOMAIN e : e[i].segments = path}
             sameMethod == {i \in samePath : e[i].method = method}
             reply == Resolve(files, method, values)
  <2>1. first \in matching /\ \A i \in matching : first <= i
    <3>1. matching \subseteq Nat
      BY <1>1
    <3>2. \E i \in matching : \A j \in matching : i <= j
      BY <1>4, <3>1, LeastExists
    <3> QED
      BY <3>2, Zenon DEF Min
  <2>2. first \in DOMAIN e /\ e[first] \in files /\ Matches(e[first], values)
    BY <1>2, <2>1
  <2>3. reply = IF sameMethod = {} THEN NotAllowed({e[i].method : i \in samePath})
                 ELSE Resolved(e[Min(sameMethod)], values)
    BY <1>4 DEF Resolve, e
  <2> HIDE DEF first, reply
  <2>4. \A g \in files : Matches(g, values) => ~Beats(g, e[first])
    <3> SUFFICES ASSUME NEW g \in files, Matches(g, values), Beats(g, e[first])
                 PROVE  FALSE
      OBVIOUS
    <3>1. PICK j \in DOMAIN e : e[j] = g
      BY <1>2
    <3>2. j \in matching /\ first <= j
      BY <2>1, <3>1
    <3>3. Before(Kinds(g), Kinds(e[first]))
      <4>1. Len(g.segments) = Len(e[first].segments)
        BY <2>2 DEF Matches
      <4> QED
        BY <2>2, <4>1, BeatsIsBefore
    <3>4. j # first
      BY <3>1 DEF Beats
    <3> QED
      BY <1>1, <1>2, <2>2, <3>1, <3>2, <3>3, <3>4 DEF Ordered
  <2>5. best = {f \in files : f.segments = path}
    <3>1. ASSUME NEW f \in best PROVE f.segments = path
      <4>1. /\ f \in files /\ Matches(f, values) /\ ~Beats(e[first], f)
            /\ ~Beats(f, e[first]) /\ SameDynamicNames(f, e[first])
        BY <2>2, <2>4 DEF Best, Accepted
      <4> QED
        BY <2>2, <4>1, EqualsHaveOnePath
    <3>2. ASSUME NEW f \in files, f.segments = path PROVE f \in best
      <4>1. /\ Matches(f, values) <=> Matches(e[first], values)
            /\ \A g \in files : Beats(g, f) <=> Beats(g, e[first])
        BY <3>2 DEF Matches, Beats, Places, IsDynamic
      <4> QED
        BY <2>2, <2>4, <4>1 DEF Best
    <3> QED
      BY <3>1, <3>2 DEF Best
  <2> HIDE DEF best
  <2>6. mine = {e[i] : i \in sameMethod} /\ best = {e[i] : i \in samePath}
    BY <1>2, <2>5
  <2>7. best # {} /\ \A f, g \in best : f.segments = g.segments
    BY <2>2, <2>5
  <2>8. {f.method : f \in best} = {e[i].method : i \in samePath}
    BY <2>6
  <2>9. CASE sameMethod = {}
    <3>1. mine = {}
      BY <2>6, <2>9
    <3>2. reply = NotAllowed({f.method : f \in best})
      BY <2>3, <2>8, <2>9
    <3> QED
      BY <2>7, <3>1, <3>2 DEF MostSpecific, best, reply
  <2>10. CASE sameMethod # {}
    <3> DEFINE chosen == e[Min(sameMethod)]
    <3>1. Min(sameMethod) \in sameMethod
      <4>1. sameMethod \subseteq Nat
        BY <1>1
      <4>2. \E i \in sameMethod : \A j \in sameMethod : i <= j
        BY <2>10, <4>1, LeastExists
      <4> QED
        BY <4>2, Zenon DEF Min
    <3>2. chosen \in mine /\ chosen \in files /\ chosen.segments = path
      BY <1>2, <2>6, <3>1
    <3>3. reply = Resolved(chosen, values)
      BY <2>3, <2>10
    <3> HIDE DEF chosen
    <3>4. Matches(chosen, values) /\ FileOk(chosen)
      BY <2>2, <3>2 DEF Matches, Places, IsDynamic, Accepted
    <3>5. ASSUME NEW n \in PathNames(chosen)
          PROVE  \E i \in DOMAIN values :
                    /\ chosen.segments[i] = Dynamic(n)
                    /\ n \in DOMAIN Captures(chosen, values)
                    /\ Captures(chosen, values)[n] = values[i]
      <4>1. n \in DynamicNames(chosen)
        BY <3>4 DEF FileOk, SegmentsAreReferences
      <4>2. PICK k \in Places(chosen) : IsDynamic(chosen, k) /\ chosen.segments[k].name = n
        BY <4>1 DEF DynamicNames
      <4>3. chosen.segments[k] = Dynamic(n)
        BY <3>2, <4>2, FileIsSeq DEF IsDynamic, Dynamic, Segment
      <4> DEFINE i == CHOOSE i \in Places(chosen) : chosen.segments[i] = Dynamic(n)
      <4>4. i \in Places(chosen) /\ chosen.segments[i] = Dynamic(n)
        BY <4>3
      <4>5. Captures(chosen, values)[n] = values[i] /\ n \in DOMAIN Captures(chosen, values)
        BY <4>1 DEF Captures
      <4>6. Places(chosen) = DOMAIN values
        BY <3>2, <3>4, FileIsSeq, LenProperties DEF Matches
      <4> HIDE DEF i
      <4> QED
        BY <4>4, <4>5, <4>6
    <3>6. reply.status = 200 /\ reply.endpoint = chosen
          /\ reply.parameters = Captures(chosen, values)
      BY <3>3 DEF Resolved
    <3>7. mine # {}
      BY <3>2
    <3> QED
      BY <2>7, <3>2, <3>5, <3>6, <3>7 DEF MostSpecific, best, reply
  <2> QED
    BY <2>9, <2>10
<1> QED
  BY <1>3, <1>4

-----------------------------------------------------------------------------
(* Parameters. *)

\* The values on a way, name by name.
LEMMA AlongRecursion ==
    ASSUME NEW v, NEW way, Len(way) \in Nat
    PROVE  /\ Along(v, way)[0] = v
           /\ \A i \in 1..Len(way) : Along(v, way)[i] = Field(Along(v, way)[i - 1], way[i])
<1> DEFINE N == Len(way)
           Is(f, k) == f = [i \in 0..k |-> IF i = 0 THEN v ELSE Field(f[i - 1], way[i])]
           Good == {k \in 0..N : \E f : Is(f, k)}
<1>1. 0 \in Good
  <2> DEFINE f == [i \in 0..0 |-> v]
  <2>1. Is(f, 0)
    OBVIOUS
  <2> HIDE DEF f, Is
  <2> QED
    BY <2>1
<1>2. ASSUME NEW k \in 0..(N - 1), k \in Good PROVE k + 1 \in Good
  <2>1. PICK g : Is(g, k)
    BY <1>2
  <2>2. \A i \in 0..k : g[i] = IF i = 0 THEN v ELSE Field(g[i - 1], way[i])
    BY <2>1
  <2> DEFINE f == [i \in 0..(k + 1) |->
                      IF i = k + 1 THEN Field(g[k], way[k + 1]) ELSE g[i]]
             h == [i \in 0..(k + 1) |->
                      IF i = 0 THEN v ELSE Field(f[i - 1], way[i])]
  <2>3. \A i \in 0..(k + 1) : f[i] = h[i]
    <3> TAKE i \in 0..(k + 1)
    <3>1. i # 0 => f[i - 1] = g[i - 1] /\ i - 1 # k + 1
      OBVIOUS
    <3> QED
      BY <2>2, <3>1
  <2>4. Is(f, k + 1)
    BY <2>3
  <2> HIDE DEF f, Is
  <2> QED
    BY <2>4
<1>3. N \in Good
  <2>1. N \in Nat
    OBVIOUS
  <2> HIDE DEF Good, N, Is
  <2>2. \A k \in 0..(N - 1) : k \in Good => k + 1 \in Good
    BY <1>2
  <2>3. \A k \in 0..N : k \in Good
    BY <1>1, <2>1, <2>2, Induction
  <2> QED
    BY <2>1, <2>3
<1>4. PICK f : f = [i \in 0..Len(way) |-> IF i = 0 THEN v ELSE Field(f[i - 1], way[i])]
  BY <1>3
<1> DEFINE at == Along(v, way)
<1>5. at = [i \in 0..Len(way) |-> IF i = 0 THEN v ELSE Field(at[i - 1], way[i])]
  BY <1>4, Zenon DEF Along
<1> HIDE DEF Good, at
<1>6. at[0] = v /\ \A i \in 1..Len(way) : at[i] = Field(at[i - 1], way[i])
  BY <1>5
<1> QED
  BY <1>6 DEF at

\* The document, parameter by parameter.
LEMMA InsertRecursion ==
    ASSUME NEW ps, Len(ps) \in Nat
    PROVE  /\ InsertBodies(ps)[0] = NoBody
           /\ \A i \in 1..Len(ps) : InsertBodies(ps)[i] = InsertBody(InsertBodies(ps)[i - 1], ps[i])
<1> DEFINE N == Len(ps)
           Is(f, k) == f = [i \in 0..k |-> IF i = 0 THEN NoBody ELSE InsertBody(f[i - 1], ps[i])]
           Good == {k \in 0..N : \E f : Is(f, k)}
<1>1. 0 \in Good
  <2> DEFINE f == [i \in 0..0 |-> NoBody]
  <2>1. Is(f, 0)
    OBVIOUS
  <2> HIDE DEF f, Is
  <2> QED
    BY <2>1
<1>2. ASSUME NEW k \in 0..(N - 1), k \in Good PROVE k + 1 \in Good
  <2>1. PICK g : Is(g, k)
    BY <1>2
  <2>2. \A i \in 0..k : g[i] = IF i = 0 THEN NoBody ELSE InsertBody(g[i - 1], ps[i])
    BY <2>1
  <2> DEFINE f == [i \in 0..(k + 1) |->
                      IF i = k + 1 THEN InsertBody(g[k], ps[k + 1]) ELSE g[i]]
             h == [i \in 0..(k + 1) |->
                      IF i = 0 THEN NoBody ELSE InsertBody(f[i - 1], ps[i])]
  <2>3. \A i \in 0..(k + 1) : f[i] = h[i]
    <3> TAKE i \in 0..(k + 1)
    <3>1. i # 0 => f[i - 1] = g[i - 1] /\ i - 1 # k + 1
      OBVIOUS
    <3> QED
      BY <2>2, <3>1
  <2>4. Is(f, k + 1)
    BY <2>3
  <2> HIDE DEF f, Is
  <2> QED
    BY <2>4
<1>3. N \in Good
  <2>1. N \in Nat
    OBVIOUS
  <2> HIDE DEF Good, N, Is
  <2>2. \A k \in 0..(N - 1) : k \in Good => k + 1 \in Good
    BY <1>2
  <2>3. \A k \in 0..N : k \in Good
    BY <1>1, <2>1, <2>2, Induction
  <2> QED
    BY <2>1, <2>3
<1>4. PICK f : f = [i \in 0..Len(ps) |-> IF i = 0 THEN NoBody ELSE InsertBody(f[i - 1], ps[i])]
  BY <1>3
<1> DEFINE doc == InsertBodies(ps)
<1>5. doc = [i \in 0..Len(ps) |-> IF i = 0 THEN NoBody ELSE InsertBody(doc[i - 1], ps[i])]
  BY <1>4, Zenon DEF InsertBodies
<1> HIDE DEF Good, doc
<1>6. doc[0] = NoBody /\ \A i \in 1..Len(ps) : doc[i] = InsertBody(doc[i - 1], ps[i])
  BY <1>5
<1> QED
  BY <1>6 DEF doc

\* Ways into a body.
Ways == Seq(STRING)

\* The first i names of a way.
Upto(w, i) == SubSeq(w, 1, i)

LEMMA UptoProperties ==
    ASSUME NEW w \in Ways, NEW i \in 0..Len(w)
    PROVE  /\ Upto(w, i) \in Ways /\ Len(Upto(w, i)) = i
           /\ \A k \in 1..i : Upto(w, i)[k] = w[k]
<1>1. \A k \in 1..i : w[k] \in STRING
  BY ElementOfSeq, LenProperties DEF Ways
<1> QED
  BY <1>1, SubSeqProperties DEF Upto, Ways

\* A way is the first names of another one, by its names.
LEMMA PrefixByNames ==
    ASSUME NEW v \in Ways, NEW w \in Ways
    PROVE  IsPrefix(v, w) <=> Len(v) <= Len(w) /\ \A k \in 1..Len(v) : v[k] = w[k]
<1>1. Len(v) \in Nat /\ Len(w) \in Nat
  BY LenProperties DEF Ways
<1>2. ASSUME Len(v) <= Len(w)
      PROVE  SubSeq(v, 1, Len(v)) = SubSeq(w, 1, Len(v))
             <=> \A k \in 1..Len(v) : v[k] = w[k]
  <2>1. Len(v) \in 0..Len(v) /\ Len(v) \in 0..Len(w)
    BY <1>1, <1>2
  <2>2. /\ Upto(v, Len(v)) \in Ways /\ Len(Upto(v, Len(v))) = Len(v)
        /\ \A k \in 1..Len(v) : Upto(v, Len(v))[k] = v[k]
    BY <2>1, UptoProperties
  <2>3. /\ Upto(w, Len(v)) \in Ways /\ Len(Upto(w, Len(v))) = Len(v)
        /\ \A k \in 1..Len(v) : Upto(w, Len(v))[k] = w[k]
    BY <2>1, UptoProperties
  <2>4. Upto(v, Len(v)) = Upto(w, Len(v)) <=> \A k \in 1..Len(v) : v[k] = w[k]
    <3>1. ASSUME \A k \in 1..Len(v) : v[k] = w[k]
          PROVE  Upto(v, Len(v)) = Upto(w, Len(v))
      <4>1. \A k \in 1..Len(v) : Upto(v, Len(v))[k] = Upto(w, Len(v))[k]
        BY <2>2, <2>3, <3>1
      <4> QED
        BY <2>2, <2>3, <4>1, SeqEqual DEF Ways
    <3> QED
      BY <2>2, <2>3, <3>1
  <2> QED
    BY <2>4 DEF Upto
<1> QED
  BY <1>2 DEF IsPrefix

\* The values along the first names of a way are those along the way.
LEMMA AlongUpto ==
    ASSUME NEW v, NEW w \in Ways, NEW n \in 0..Len(w)
    PROVE  At(v, Upto(w, n)) = Along(v, w)[n]
<1> DEFINE u == Upto(w, n)
           Good == {i \in 0..n : Along(v, u)[i] = Along(v, w)[i]}
<1>1. Len(w) \in Nat /\ n \in Nat /\ n <= Len(w)
  BY LenProperties DEF Ways
<1>2. Len(u) = n /\ \A k \in 1..n : u[k] = w[k]
  BY UptoProperties
<1> HIDE DEF u
<1>3. 0 \in Good
  BY <1>1, <1>2, AlongRecursion
<1>4. ASSUME NEW i \in 0..(n - 1), i \in Good PROVE i + 1 \in Good
  <2>0. /\ i + 1 \in 1..n /\ (i + 1) - 1 = i /\ n \in Nat
        /\ \A k \in 1..n : Along(v, u)[k] = Field(Along(v, u)[k - 1], u[k])
    <3>1. Len(u) \in Nat
      BY <1>1, <1>2
    <3>2. \A k \in 1..Len(u) : Along(v, u)[k] = Field(Along(v, u)[k - 1], u[k])
      BY <3>1, AlongRecursion
    <3> QED
      BY <1>1, <1>2, <3>2
  <2>1. Along(v, u)[i + 1] = Field(Along(v, u)[i], u[i + 1])
    BY <2>0
  <2>2. Along(v, w)[i + 1] = Field(Along(v, w)[i], w[i + 1])
    BY <1>1, AlongRecursion
  <2>3. u[i + 1] = w[i + 1] /\ i + 1 \in 0..n
    BY <1>1, <1>2
  <2> QED
    BY <1>4, <2>1, <2>2, <2>3
<1>5. \A i \in 0..n : i \in Good
  <2> HIDE DEF Good
  <2> QED
    BY <1>1, <1>3, <1>4, Induction
<1>6. n \in Good
  BY <1>1, <1>5
<1> QED
  BY <1>2, <1>6 DEF At, u

\* What lies before a value on a way is an object.
LEMMA ValueIsInside ==
    ASSUME NEW v, NEW w \in Ways, IsValue(At(v, w)), NEW n \in 0..(Len(w) - 1)
    PROVE  IsValue(Along(v, w)[n]) /\ Along(v, w)[n].json = "object"
<1> DEFINE N == Len(w)
           Good == {i \in 0..N : IsValue(Along(v, w)[N - i])}
<1>1. N \in Nat
  BY LenProperties DEF Ways
<1>2. \A i \in 1..N : Along(v, w)[i] = Field(Along(v, w)[i - 1], w[i])
  BY <1>1, AlongRecursion
<1> HIDE DEF N
<1>3. 0 \in Good
  BY <1>1 DEF At, N
<1>4. ASSUME NEW i \in 0..(N - 1), i \in Good PROVE i + 1 \in Good
  <2>1. N - i \in 1..N /\ i + 1 \in 0..N /\ N - i - 1 = N - (i + 1)
    BY <1>1
  <2>2. Along(v, w)[N - i] = Field(Along(v, w)[N - (i + 1)], w[N - i])
    BY <1>2, <2>1
  <2> QED
    BY <1>4, <2>1, <2>2 DEF Field
<1>5. \A i \in 0..N : i \in Good
  <2> HIDE DEF Good
  <2> QED
    BY <1>1, <1>3, <1>4, Induction
<1>6. \A i \in 0..N : IsValue(Along(v, w)[i])
  <2> TAKE i \in 0..N
  <2>1. N - i \in 0..N /\ N - (N - i) = i
    BY <1>1
  <2>2. N - i \in Good
    BY <1>5, <2>1
  <2> QED
    BY <2>1, <2>2
<1>7. n \in 0..N /\ n + 1 \in 1..N /\ n + 1 - 1 = n
  BY <1>1 DEF N
<1>8. IsValue(Field(Along(v, w)[n], w[n + 1])) /\ IsValue(Along(v, w)[n])
  <2>1. n + 1 \in 0..N
    BY <1>1, <1>7
  <2>2. Along(v, w)[n + 1] = Field(Along(v, w)[n], w[n + 1])
    BY <1>2, <1>7
  <2> QED
    BY <1>6, <1>7, <2>1, <2>2
<1> QED
  BY <1>8 DEF Field, IsValue

LEMMA UptoIsPrefix ==
    ASSUME NEW w \in Ways, NEW i \in 0..Len(w), NEW v \in Ways
    PROVE  /\ IsPrefix(Upto(w, i), w)
           /\ IsPrefix(v, Upto(w, i)) => IsPrefix(v, w) /\ Len(v) <= i
           /\ Upto(w, Len(w)) = w
<1>1. Len(w) \in Nat /\ Len(v) \in Nat
  BY LenProperties DEF Ways
<1>2. /\ Upto(w, i) \in Ways /\ Len(Upto(w, i)) = i
      /\ \A k \in 1..i : Upto(w, i)[k] = w[k]
  BY UptoProperties
<1>3. IsPrefix(Upto(w, i), w)
  BY <1>1, <1>2, PrefixByNames
<1>4. IsPrefix(v, Upto(w, i)) => IsPrefix(v, w) /\ Len(v) <= i
  <2> SUFFICES ASSUME IsPrefix(v, Upto(w, i)) PROVE IsPrefix(v, w) /\ Len(v) <= i
    OBVIOUS
  <2>1. Len(v) <= i /\ \A k \in 1..Len(v) : v[k] = Upto(w, i)[k]
    BY <1>2, PrefixByNames
  <2>2. \A k \in 1..Len(v) : v[k] = w[k]
    BY <1>1, <1>2, <2>1
  <2> QED
    BY <1>1, <2>1, <2>2, PrefixByNames
<1>5. Upto(w, Len(w)) = w
  <2>1. Len(w) \in 0..Len(w)
    BY <1>1
  <2>2. /\ Upto(w, Len(w)) \in Ways /\ Len(Upto(w, Len(w))) = Len(w)
        /\ \A k \in 1..Len(w) : Upto(w, Len(w))[k] = w[k]
    BY <2>1, UptoProperties
  <2> QED
    BY <2>2, SeqEqual DEF Ways
<1> QED
  BY <1>3, <1>4, <1>5

\* The document has exactly the ways of these parameters, with their types at
\* the ends and objects on the way.
Documented(doc, ps) ==
    /\ \A w \in DOMAIN doc : \E p \in ps : \E k \in 1..Len(p.fields) :
          w = Upto(p.fields, k)
    /\ \A p \in ps : \A k \in 1..Len(p.fields) : Upto(p.fields, k) \in DOMAIN doc
    /\ \A p \in ps : doc[p.fields] = p.ty
    /\ \A p \in ps : \A k \in 1..(Len(p.fields) - 1) : doc[Upto(p.fields, k)] = Inside

LEMMA DocumentsIsNoPanic ==
    ASSUME NEW ps, \A p \in ps : IsParameter(p), NEW doc, Documented(doc, ps)
    PROVE  doc # Panic
<1> SUFFICES ASSUME doc = Panic PROVE FALSE
  OBVIOUS
<1>1. <<>> \in DOMAIN doc
  BY DEF Panic
<1>2. PICK p \in ps : \E k \in 1..Len(p.fields) : <<>> = Upto(p.fields, k)
  BY <1>1 DEF Documented
<1>3. PICK k \in 1..Len(p.fields) : <<>> = Upto(p.fields, k)
  BY <1>2
<1>4. p.fields \in Ways /\ Len(p.fields) \in Nat
  BY LenProperties DEF IsParameter, Ways
<1>5. Len(Upto(p.fields, k)) = k
  BY <1>4, UptoProperties
<1>6. Len(<<>>) = 0
  OBVIOUS
<1> QED
  BY <1>3, <1>4, <1>5, <1>6

\* insert_body adds a parameter that is compatible with those before it, and
\* finds a list of required names in each of its parents.
LEMMA InsertDocuments ==
    ASSUME NEW ps, NEW p, NEW doc, Documented(doc, ps),
           \A q \in ps \cup {p} : IsParameter(q) /\ q.source = "body",
           \A q \in ps : Compatible(p, q)
    PROVE  Documented(InsertBody(doc, p), ps \cup {p})
<1> DEFINE parents == {SubSeq(p.fields, 1, i) : i \in 1..(Len(p.fields) - 1)}
           kept == {w \in DOMAIN doc : ~IsPrefix(p.fields, w)}
           new == [w \in kept \cup parents \cup {p.fields} |->
                     IF w = p.fields THEN p.ty ELSE IF w \in kept THEN doc[w] ELSE Inside]
<1>1. \A q \in ps \cup {p} : /\ q.fields \in Ways /\ Len(q.fields) \in Nat \ {0}
                             /\ Upto(q.fields, Len(q.fields)) = q.fields
  <2> TAKE q \in ps \cup {p}
  <2>1. q.fields \in Ways /\ q.fields # <<>>
    BY DEF IsParameter, Ways
  <2>2. Len(q.fields) \in Nat \ {0}
    BY <2>1, LenProperties, EmptySeq DEF Ways
  <2> QED
    BY <2>1, <2>2, UptoIsPrefix
<1>2. \A q \in ps : /\ p.fields = q.fields => p.ty = q.ty
                    /\ p.fields # q.fields => /\ ~IsPrefix(p.fields, q.fields)
                                              /\ ~IsPrefix(q.fields, p.fields)
  BY DEF Compatible
<1>3. ASSUME NEW q \in ps \cup {p}, NEW k \in 1..Len(q.fields)
      PROVE  /\ IsPrefix(Upto(q.fields, k), q.fields)
             /\ Len(Upto(q.fields, k)) = k
             /\ IsPrefix(p.fields, Upto(q.fields, k)) =>
                   IsPrefix(p.fields, q.fields) /\ Len(p.fields) <= k
  BY <1>1, UptoIsPrefix, UptoProperties
<1>4. parents = {Upto(p.fields, i) : i \in 1..(Len(p.fields) - 1)}
  BY DEF Upto
<1>5. \A w \in parents \cap DOMAIN doc : doc[w] = Inside
  <2> SUFFICES ASSUME NEW i \in 1..(Len(p.fields) - 1), Upto(p.fields, i) \in DOMAIN doc
               PROVE  doc[Upto(p.fields, i)] = Inside
    BY <1>4
  <2> DEFINE w == Upto(p.fields, i)
  <2>1. PICK q \in ps : \E k \in 1..Len(q.fields) : w = Upto(q.fields, k)
    BY DEF Documented
  <2>2. PICK k \in 1..Len(q.fields) : w = Upto(q.fields, k)
    BY <2>1
  <2>3. i \in 1..Len(p.fields) /\ i < Len(p.fields)
    BY <1>1
  <2>4. CASE k = Len(q.fields)
    <3>1. w = q.fields
      BY <1>1, <2>2, <2>4
    <3>2. IsPrefix(q.fields, p.fields) /\ Len(q.fields) = i
      BY <1>3, <2>3, <3>1
    <3> QED
      BY <1>2, <2>3, <3>2
  <2>5. CASE k # Len(q.fields)
    <3>1. k \in 1..(Len(q.fields) - 1)
      BY <1>1, <2>5
    <3> QED
      BY <2>2, <3>1 DEF Documented
  <2> QED
    BY <2>4, <2>5
<1>6. InsertBody(doc, p) = new
  <2>1. doc # Panic
    BY DocumentsIsNoPanic
  <2> QED
    BY <1>5, <2>1 DEF InsertBody
<1> HIDE DEF parents
<1>7. \A w \in DOMAIN new : \E q \in ps \cup {p} : \E k \in 1..Len(q.fields) :
         w = Upto(q.fields, k)
  <2> SUFFICES ASSUME NEW w \in kept \cup parents \cup {p.fields}
               PROVE  \E q \in ps \cup {p} : \E k \in 1..Len(q.fields) :
                         w = Upto(q.fields, k)
    OBVIOUS
  <2>1. CASE w \in kept
    BY <2>1 DEF Documented
  <2>2. CASE w \in parents
    BY <1>1, <1>4, <2>2
  <2>3. CASE w = p.fields
    BY <1>1, <2>3
  <2> QED
    BY <2>1, <2>2, <2>3
<1>8. ASSUME NEW q \in ps \cup {p}, NEW k \in 1..Len(q.fields)
      PROVE  Upto(q.fields, k) \in DOMAIN new
  <2>1. CASE q \in ps
    <3>1. Upto(q.fields, k) \in DOMAIN doc
      BY <2>1 DEF Documented
    <3>2. CASE IsPrefix(p.fields, Upto(q.fields, k))
      <4>1. p.fields = q.fields
        BY <1>2, <1>3, <2>1, <3>2
      <4>2. k = Len(q.fields)
        BY <1>1, <1>3, <3>2, <4>1
      <4> QED
        BY <1>1, <4>1, <4>2
    <3>3. CASE ~IsPrefix(p.fields, Upto(q.fields, k))
      BY <3>1, <3>3
    <3> QED
      BY <3>2, <3>3
  <2>2. CASE q = p
    <3>1. CASE k = Len(p.fields)
      BY <1>1, <2>2, <3>1
    <3>2. CASE k # Len(p.fields)
      <4>1. k \in 1..(Len(p.fields) - 1)
        BY <1>1, <2>2, <3>2
      <4> QED
        BY <1>4, <2>2, <4>1
    <3> QED
      BY <3>1, <3>2
  <2> QED
    BY <2>1, <2>2
<1>9. ASSUME NEW q \in ps \cup {p} PROVE new[q.fields] = q.ty
  <2>1. CASE q.fields = p.fields
    BY <1>2, <2>1
  <2>2. CASE q.fields # p.fields
    <3>1. q \in ps /\ ~IsPrefix(p.fields, q.fields)
      BY <1>2, <2>2
    <3>2. q.fields \in DOMAIN doc /\ doc[q.fields] = q.ty
      <4>1. Len(q.fields) \in 1..Len(q.fields)
        BY <1>1
      <4> QED
        BY <1>1, <3>1, <4>1 DEF Documented
    <3> QED
      BY <2>2, <3>1, <3>2
  <2> QED
    BY <2>1, <2>2
<1>10. ASSUME NEW q \in ps \cup {p}, NEW k \in 1..(Len(q.fields) - 1)
       PROVE  new[Upto(q.fields, k)] = Inside
  <2> DEFINE w == Upto(q.fields, k)
  <2>1. k \in 1..Len(q.fields) /\ k < Len(q.fields)
    BY <1>1
  <2>2. w \in DOMAIN new /\ Len(w) = k /\ IsPrefix(w, q.fields)
    BY <1>3, <1>8, <2>1
  <2>3. w # p.fields
    BY <1>1, <1>2, <2>1, <2>2
  <2>4. w \in DOMAIN doc => doc[w] = Inside
    <3>1. CASE q \in ps
      BY <3>1 DEF Documented
    <3>2. CASE q = p
      BY <1>4, <1>5, <3>2
    <3> QED
      BY <3>1, <3>2
  <2> QED
    BY <2>2, <2>3, <2>4
<1> HIDE DEF new
<1> QED
  BY <1>6, <1>7, <1>8, <1>9, <1>10 DEF Documented

\* Parameters can be sorted by their paths.
LEMMA SortedParameters ==
    ASSUME NEW ps, IsFiniteSet(ps), \A p \in ps : IsParameter(p)
    PROVE  /\ SortedByPath(ps) \in [1..Cardinality(ps) -> ps]
           /\ Range(SortedByPath(ps)) = ps
<1> DEFINE R == {e \in ps \X ps : Len(e[1].fields) < Len(e[2].fields)}
<1>1. \A p \in ps : Len(p.fields) \in Nat
  BY LenProperties DEF IsParameter, Ways
<1>2. Orders(R, ps)
  BY <1>1 DEF Orders
<1>3. PICK s : Sorts(s, ps, R)
  <2> HIDE DEF R
  <2> QED
    BY <1>2, SortedExists
<1>4. /\ s \in [1..Cardinality(ps) -> ps] /\ Range(s) = ps
      /\ \A i, j \in DOMAIN s : i < j => Len(s[i].fields) <= Len(s[j].fields)
  <2>1. /\ s \in [1..Cardinality(ps) -> ps] /\ Range(s) = ps
        /\ \A i, j \in 1..Cardinality(ps) : i < j => <<s[j], s[i]>> \notin R
    <3> HIDE DEF R
    <3> QED
      BY <1>3 DEF Sorts
  <2>2. \A i, j \in 1..Cardinality(ps) : i < j => Len(s[i].fields) <= Len(s[j].fields)
    <3> TAKE i, j \in 1..Cardinality(ps)
    <3>1. s[i] \in ps /\ s[j] \in ps
      BY <2>1
    <3>2. i < j => ~(Len(s[j].fields) < Len(s[i].fields))
      BY <2>1, <3>1
    <3> QED
      BY <1>1, <3>1, <3>2
  <2> QED
    BY <2>1, <2>2
<1> HIDE DEF R
<1>5. \E t \in [1..Cardinality(ps) -> ps] :
         /\ Range(t) = ps
         /\ \A i, j \in DOMAIN t : i < j => Len(t[i].fields) <= Len(t[j].fields)
  BY <1>4
<1> QED
  BY <1>5, Zenon DEF SortedByPath

\* The schema of the body documents all the parameters in it.
LEMMA SchemaDocuments ==
    ASSUME NEW params, IsFiniteSet(params), \A p \in params : IsParameter(p),
           ValidateParameters(params)
    PROVE  Documented(BodySchema(params), {p \in params : p.source = "body"})
<1> DEFINE ps == {p \in params : p.source = "body"}
           s == SortedByPath(ps)
           N == Cardinality(ps)
           Till(i) == {s[j] : j \in 1..i}
           Good == {i \in 0..N : Documented(InsertBodies(s)[i], Till(i))}
<1>1. /\ \A p \in ps : IsParameter(p) /\ p.source = "body"
      /\ \A p, q \in ps : Compatible(p, q)
  BY DEF ValidateParameters
<1>2. IsFiniteSet(ps)
  BY FS_Subset
<1> HIDE DEF ps
<1>3. s \in [1..N -> ps] /\ Range(s) = ps /\ N \in Nat
  BY <1>1, <1>2, SortedParameters, FS_CardinalityType
<1>4. Len(s) = N /\ \A i \in 1..N : s[i] \in ps
  BY <1>3
<1> HIDE DEF s, N
<1>5. 0 \in Good
  <2>1. InsertBodies(s)[0] = NoBody
    BY <1>3, <1>4, InsertRecursion
  <2>2. Till(0) = {}
    OBVIOUS
  <2>3. Documented(NoBody, {})
    BY DEF Documented, NoBody
  <2>4. 0 \in 0..N
    BY <1>3
  <2> HIDE DEF Till
  <2> QED
    BY <2>1, <2>2, <2>3, <2>4
<1>6. ASSUME NEW i \in 0..(N - 1), i \in Good PROVE i + 1 \in Good
  <2>1. /\ i + 1 \in 1..N /\ i + 1 - 1 = i /\ i + 1 \in 0..N /\ i \in 0..N
    BY <1>3
  <2>2. InsertBodies(s)[i + 1] = InsertBody(InsertBodies(s)[i], s[i + 1])
    BY <1>3, <1>4, <2>1, InsertRecursion
  <2>3. Till(i + 1) = Till(i) \cup {s[i + 1]}
    BY <1>3
  <2>4. \A q \in Till(i) \cup {s[i + 1]} : q \in ps
    BY <1>3, <1>4, <2>1
  <2>5. Documented(InsertBodies(s)[i], Till(i))
    BY <1>6
  <2> HIDE DEF Till
  <2>6. Documented(InsertBody(InsertBodies(s)[i], s[i + 1]), Till(i) \cup {s[i + 1]})
    BY <1>1, <2>4, <2>5, InsertDocuments
  <2> QED
    BY <2>1, <2>2, <2>3, <2>6
<1>7. \A i \in 0..N : i \in Good
  <2> HIDE DEF Good
  <2> QED
    BY <1>3, <1>5, <1>6, Induction
<1>8. N \in Good
  <2> HIDE DEF Good
  <2> QED
    BY <1>3, <1>7
<1>9. Till(N) = ps
  BY <1>3 DEF Range
<1>10. Documented(InsertBodies(s)[Len(s)], ps)
  BY <1>4, <1>8, <1>9
<1> QED
  BY <1>10 DEF BodySchema, s, ps

\* The schema of a type and its check differ for 1.0 as a 64 bit integer only.
LEMMA CheckIsDescribed ==
    ASSUME NEW ty \in Type, NEW v
    PROVE  /\ Check(ty, v) => Described(ty, v)
           /\ Described(ty, v) /\ ~Check(ty, v) =>
                /\ ty.scalar = "int64"
                /\ v.json = "integral" \/ (v.json = "array" /\ "integral" \in v.items)
<1>1. CASE ty.scalar = "int64"
  BY <1>1 DEF Check, Described, Fits, DescribedScalar, CheckScalar
<1>2. CASE ty.scalar # "int64"
  BY <1>2 DEF Check, Described, Fits, DescribedScalar
<1> QED
  BY <1>1, <1>2

\* What the OpenAPI document describes is what validate_input accepts.
THEOREM Agreement ==
    ASSUME NEW params, IsFiniteSet(params), \A p \in params : IsParameter(p),
           \A p \in params : Declarable(p), ValidateParameters(params), NEW sent
    PROVE  Agree(params, sent, ValidateInput(params, sent))
<1> DEFINE doc == BodySchema(params)
           ps == {p \in params : p.source = "body"}
           texts == {p \in params : p.source # "body"}
           body == sent.body
           described == /\ \A p \in texts : IsValue(Read(p, sent))
                        /\ DescribedBody(doc, body)
<1>1. Documented(doc, ps)
  BY SchemaDocuments
<1>2. \A p \in ps : /\ p \in params /\ IsParameter(p) /\ p.source = "body" /\ p.ty \in Type
                    /\ p.fields \in Ways /\ Len(p.fields) \in Nat \ {0}
                    /\ Upto(p.fields, Len(p.fields)) = p.fields
  <2> TAKE p \in ps
  <2>1. p.fields \in Ways /\ p.fields # <<>>
    BY DEF IsParameter, Ways
  <2>2. Len(p.fields) \in Nat \ {0}
    BY <2>1, LenProperties, EmptySeq DEF Ways
  <2> QED
    BY <2>1, <2>2, UptoIsPrefix DEF IsParameter, Ways
<1>3. doc # Panic
  BY <1>1, <1>2, DocumentsIsNoPanic
<1> HIDE DEF doc
<1>4. \A p \in ps : Read(p, sent) = ReadBody(p, body)
  BY DEF Read
<1>5. \A ty \in Type : ty # Inside
  BY DEF Type, Inside
<1>6. ASSUME NEW p \in ps, IsValue(Read(p, sent))
      PROVE  IsValue(At(body, p.fields)) /\ Check(p.ty, At(body, p.fields))
  BY <1>4, <1>6 DEF ReadBody, IsValue
<1>7. ASSUME ValidateInput(params, sent) PROVE described
  <2>1. \A p \in params : IsValue(Read(p, sent))
    BY <1>7 DEF ValidateInput
  <2>2. ASSUME NEW w \in DOMAIN doc
        PROVE  /\ IsValue(At(body, w))
               /\ IF doc[w] = Inside THEN At(body, w).json = "object"
                  ELSE Described(doc[w], At(body, w))
    <3>1. PICK p \in ps : \E k \in 1..Len(p.fields) : w = Upto(p.fields, k)
      BY <1>1 DEF Documented
    <3>2. PICK k \in 1..Len(p.fields) : w = Upto(p.fields, k)
      BY <3>1
    <3>3. IsValue(At(body, p.fields)) /\ Check(p.ty, At(body, p.fields))
      BY <1>2, <1>6, <2>1
    <3>4. CASE k = Len(p.fields)
      <4>1. w = p.fields /\ doc[w] = p.ty
        BY <1>1, <1>2, <3>2, <3>4 DEF Documented
      <4>2. Described(p.ty, At(body, p.fields)) /\ doc[w] # Inside
        BY <1>2, <1>5, <3>3, <4>1, CheckIsDescribed
      <4> QED
        BY <3>3, <4>1, <4>2
    <3>5. CASE k # Len(p.fields)
      <4>1. k \in 1..(Len(p.fields) - 1) /\ k \in 0..(Len(p.fields) - 1)
            /\ k \in 0..Len(p.fields)
        BY <1>2, <3>5
      <4>2. doc[w] = Inside
        BY <1>1, <3>2, <4>1 DEF Documented
      <4>3. At(body, w) = Along(body, p.fields)[k]
        BY <1>2, <3>2, <4>1, AlongUpto
      <4>4. IsValue(Along(body, p.fields)[k]) /\ Along(body, p.fields)[k].json = "object"
        BY <1>2, <3>3, <4>1, ValueIsInside
      <4> QED
        BY <4>2, <4>3, <4>4
    <3> QED
      BY <3>4, <3>5
  <2>3. DescribedBody(doc, body)
    BY <2>2 DEF DescribedBody
  <2> QED
    BY <2>1, <2>3
<1>8. ASSUME described, ~ValidateInput(params, sent)
      PROVE  \E p \in params : p.source = "body" /\ IntegralForInt64(p, body)
  <2>1. PICK p \in params : ~IsValue(Read(p, sent))
    BY <1>8 DEF ValidateInput
  <2>2. p \in ps
    BY <1>8, <2>1
  <2>3. p.fields \in DOMAIN doc /\ doc[p.fields] = p.ty /\ p.ty # Inside
    <3>1. Len(p.fields) \in 1..Len(p.fields)
      BY <1>2, <2>2
    <3> QED
      BY <1>1, <1>2, <1>5, <2>2, <3>1 DEF Documented
  <2>4. IsValue(At(body, p.fields)) /\ Described(p.ty, At(body, p.fields))
    BY <1>8, <2>3 DEF DescribedBody
  <2>5. ~Check(p.ty, At(body, p.fields))
    BY <1>4, <2>1, <2>2, <2>4 DEF ReadBody
  <2> QED
    BY <1>2, <2>2, <2>4, <2>5, CheckIsDescribed DEF IntegralForInt64
<1>9. ASSUME NEW p \in texts, IsValue(Read(p, sent))
      PROVE  Described(p.ty, Read(p, sent))
  <2>1. p.ty = Scalar(p.ty.scalar)
    BY DEF Declarable
  <2>2. Read(p, sent) = ReadText(p, sent[p.source])
    BY DEF Read
  <2>3. \/ p.ty.scalar = "string" /\ Read(p, sent) = Leaf("string")
        \/ \E text \in CheckScalar(p.ty.scalar) : Read(p, sent) = Leaf(text)
    BY <1>9, <2>2 DEF ReadText, IsValue
  <2>4. \E text \in CheckScalar(p.ty.scalar) : Read(p, sent) = Leaf(text)
    BY <2>3 DEF CheckScalar
  <2>5. PICK text \in CheckScalar(p.ty.scalar) : Read(p, sent) = Leaf(text)
    BY <2>4
  <2>6. p.ty \in Type /\ ~p.ty.array
    BY <2>1 DEF Scalar, IsParameter, Ways
  <2>7. Check(p.ty, Read(p, sent))
    BY <2>5, <2>6 DEF Check, Fits, Leaf
  <2> QED
    BY <2>6, <2>7, CheckIsDescribed
<1> HIDE DEF described
<1> QED
  BY <1>3, <1>7, <1>8, <1>9 DEF Agree, doc, described

-----------------------------------------------------------------------------
(* The passes of compile. *)

\* The first pass, item by item.
LEMMA ScannedRecursion ==
    ASSUME NEW source, Len(source) \in Nat
    PROVE  /\ Scanned(source)[0] = Unscanned
           /\ \A i \in 1..Len(source) : Scanned(source)[i] = ScanItem(Scanned(source)[i - 1], source[i])
<1> DEFINE N == Len(source)
           Is(f, k) == f = [i \in 0..k |-> IF i = 0 THEN Unscanned ELSE ScanItem(f[i - 1], source[i])]
           Good == {k \in 0..N : \E f : Is(f, k)}
<1>1. 0 \in Good
  <2> DEFINE f == [i \in 0..0 |-> Unscanned]
  <2>1. Is(f, 0)
    OBVIOUS
  <2> HIDE DEF f, Is
  <2> QED
    BY <2>1
<1>2. ASSUME NEW k \in 0..(N - 1), k \in Good PROVE k + 1 \in Good
  <2>1. PICK g : Is(g, k)
    BY <1>2
  <2>2. \A i \in 0..k : g[i] = IF i = 0 THEN Unscanned ELSE ScanItem(g[i - 1], source[i])
    BY <2>1
  <2> DEFINE f == [i \in 0..(k + 1) |->
                      IF i = k + 1 THEN ScanItem(g[k], source[k + 1]) ELSE g[i]]
             h == [i \in 0..(k + 1) |-> IF i = 0 THEN Unscanned ELSE ScanItem(f[i - 1], source[i])]
  <2>3. \A i \in 0..(k + 1) : f[i] = h[i]
    <3> TAKE i \in 0..(k + 1)
    <3>1. i # 0 => f[i - 1] = g[i - 1] /\ i - 1 # k + 1
      OBVIOUS
    <3> QED
      BY <2>2, <3>1
  <2>4. Is(f, k + 1)
    BY <2>3
  <2> HIDE DEF f, Is
  <2> QED
    BY <2>4
<1>3. N \in Good
  <2>1. N \in Nat
    OBVIOUS
  <2> HIDE DEF Good, N, Is
  <2>2. \A k \in 0..(N - 1) : k \in Good => k + 1 \in Good
    BY <1>2
  <2>3. \A k \in 0..N : k \in Good
    BY <1>1, <2>1, <2>2, Induction
  <2> QED
    BY <2>1, <2>3
<1>4. PICK f : f = [i \in 0..Len(source) |-> IF i = 0 THEN Unscanned ELSE ScanItem(f[i - 1], source[i])]
  BY <1>3
<1> DEFINE r == Scanned(source)
<1>5. r = [i \in 0..Len(source) |-> IF i = 0 THEN Unscanned ELSE ScanItem(r[i - 1], source[i])]
  BY <1>4, Zenon DEF Scanned
<1> HIDE DEF Good, r
<1>6. r[0] = Unscanned /\ \A i \in 1..Len(source) : r[i] = ScanItem(r[i - 1], source[i])
  BY <1>5
<1> QED
  BY <1>6 DEF r

\* The second pass, token by token.
LEMMA CutRecursion ==
    ASSUME NEW s, Len(Tokens(s)) \in Nat
    PROVE  /\ Cut(s)[0] = Uncut
           /\ \A i \in 1..Len(Tokens(s)) : Cut(s)[i] = CutToken(s, Cut(s)[i - 1], Tokens(s)[i])
<1> DEFINE N == Len(Tokens(s))
           Is(f, k) == f = [i \in 0..k |-> IF i = 0 THEN Uncut ELSE CutToken(s, f[i - 1], Tokens(s)[i])]
           Good == {k \in 0..N : \E f : Is(f, k)}
<1>1. 0 \in Good
  <2> DEFINE f == [i \in 0..0 |-> Uncut]
  <2>1. Is(f, 0)
    OBVIOUS
  <2> HIDE DEF f, Is
  <2> QED
    BY <2>1
<1>2. ASSUME NEW k \in 0..(N - 1), k \in Good PROVE k + 1 \in Good
  <2>1. PICK g : Is(g, k)
    BY <1>2
  <2>2. \A i \in 0..k : g[i] = IF i = 0 THEN Uncut ELSE CutToken(s, g[i - 1], Tokens(s)[i])
    BY <2>1
  <2> DEFINE f == [i \in 0..(k + 1) |->
                      IF i = k + 1 THEN CutToken(s, g[k], Tokens(s)[k + 1]) ELSE g[i]]
             h == [i \in 0..(k + 1) |-> IF i = 0 THEN Uncut ELSE CutToken(s, f[i - 1], Tokens(s)[i])]
  <2>3. \A i \in 0..(k + 1) : f[i] = h[i]
    <3> TAKE i \in 0..(k + 1)
    <3>1. i # 0 => f[i - 1] = g[i - 1] /\ i - 1 # k + 1
      OBVIOUS
    <3> QED
      BY <2>2, <3>1
  <2>4. Is(f, k + 1)
    BY <2>3
  <2> HIDE DEF f, Is
  <2> QED
    BY <2>4
<1>3. N \in Good
  <2>1. N \in Nat
    OBVIOUS
  <2> HIDE DEF Good, N, Is
  <2>2. \A k \in 0..(N - 1) : k \in Good => k + 1 \in Good
    BY <1>2
  <2>3. \A k \in 0..N : k \in Good
    BY <1>1, <2>1, <2>2, Induction
  <2> QED
    BY <2>1, <2>3
<1>4. PICK f : f = [i \in 0..Len(Tokens(s)) |-> IF i = 0 THEN Uncut ELSE CutToken(s, f[i - 1], Tokens(s)[i])]
  BY <1>3
<1> DEFINE r == Cut(s)
<1>5. r = [i \in 0..Len(Tokens(s)) |-> IF i = 0 THEN Uncut ELSE CutToken(s, r[i - 1], Tokens(s)[i])]
  BY <1>4, Zenon DEF Cut
<1> HIDE DEF Good, r
<1>6. r[0] = Uncut /\ \A i \in 1..Len(Tokens(s)) : r[i] = CutToken(s, r[i - 1], Tokens(s)[i])
  BY <1>5
<1> QED
  BY <1>6 DEF r

\* The parameters of the first statements are counted one statement after the other.
LEMMA BindingsRecursion ==
    ASSUME NEW output, Len(output) \in Nat
    PROVE  /\ Bindings(output)[0] = 0
           /\ \A i \in 1..Len(output) : Bindings(output)[i] = Bindings(output)[i - 1] + Len(output[i].parameters)
<1> DEFINE N == Len(output)
           Is(f, k) == f = [i \in 0..k |-> IF i = 0 THEN 0 ELSE f[i - 1] + Len(output[i].parameters)]
           Good == {k \in 0..N : \E f : Is(f, k)}
<1>1. 0 \in Good
  <2> DEFINE f == [i \in 0..0 |-> 0]
  <2>1. Is(f, 0)
    OBVIOUS
  <2> HIDE DEF f, Is
  <2> QED
    BY <2>1
<1>2. ASSUME NEW k \in 0..(N - 1), k \in Good PROVE k + 1 \in Good
  <2>1. PICK g : Is(g, k)
    BY <1>2
  <2>2. \A i \in 0..k : g[i] = IF i = 0 THEN 0 ELSE g[i - 1] + Len(output[i].parameters)
    BY <2>1
  <2> DEFINE f == [i \in 0..(k + 1) |->
                      IF i = k + 1 THEN g[k] + Len(output[k + 1].parameters) ELSE g[i]]
             h == [i \in 0..(k + 1) |-> IF i = 0 THEN 0 ELSE f[i - 1] + Len(output[i].parameters)]
  <2>3. \A i \in 0..(k + 1) : f[i] = h[i]
    <3> TAKE i \in 0..(k + 1)
    <3>1. i # 0 => f[i - 1] = g[i - 1] /\ i - 1 # k + 1
      OBVIOUS
    <3> QED
      BY <2>2, <3>1
  <2>4. Is(f, k + 1)
    BY <2>3
  <2> HIDE DEF f, Is
  <2> QED
    BY <2>4
<1>3. N \in Good
  <2>1. N \in Nat
    OBVIOUS
  <2> HIDE DEF Good, N, Is
  <2>2. \A k \in 0..(N - 1) : k \in Good => k + 1 \in Good
    BY <1>2
  <2>3. \A k \in 0..N : k \in Good
    BY <1>1, <2>1, <2>2, Induction
  <2> QED
    BY <2>1, <2>3
<1>4. PICK f : f = [i \in 0..Len(output) |-> IF i = 0 THEN 0 ELSE f[i - 1] + Len(output[i].parameters)]
  BY <1>3
<1> DEFINE r == Bindings(output)
<1>5. r = [i \in 0..Len(output) |-> IF i = 0 THEN 0 ELSE r[i - 1] + Len(output[i].parameters)]
  BY <1>4, Zenon DEF Bindings
<1> HIDE DEF Good, r
<1>6. r[0] = 0 /\ \A i \in 1..Len(output) : r[i] = r[i - 1] + Len(output[i].parameters)
  BY <1>5
<1> QED
  BY <1>6 DEF r

-----------------------------------------------------------------------------
(* The source and where its statements begin. *)

IsReference(source, i) == source[i].kind = "reference"

LEMMA SourceIsSeq ==
    ASSUME NEW source, Lexical(source)
    PROVE  /\ Len(source) \in Nat /\ DOMAIN source = 1..Len(source)
           /\ \A i \in 1..Len(source) : /\ LexicalItem(source[i])
                                        /\ source[i] \in Range(source)
                                        /\ source[i] = SemiColon <=> source[i].kind = "semicolon"
<1>1. Len(source) \in Nat /\ DOMAIN source = 1..Len(source)
  BY LenProperties DEF Lexical
<1>2. \A i \in 1..Len(source) : LexicalItem(source[i]) /\ source[i] \in Range(source)
  BY <1>1 DEF Lexical, Range
<1> QED
  BY <1>1, <1>2 DEF LexicalItem, SemiColon

\* A statement begins behind the last end before it.
LEMMA BeginIsLast ==
    ASSUME NEW source, Lexical(source), NEW e \in 1..(Len(source) + 1)
    PROVE  /\ Begin(source, e) \in 0..(e - 1)
           /\ \A d \in Ends(source) : d < e => d <= Begin(source, e)
           /\ Begin(source, e) = 0 \/ Begin(source, e) \in Ends(source)
<1> DEFINE S == {0} \cup {d \in Ends(source) : d < e}
<1>1. Len(source) \in Nat
  BY SourceIsSeq
<1>2. e - 1 \in Nat /\ S \subseteq 0..(e - 1) /\ S # {}
  BY <1>1 DEF Ends
<1>3. Max(S) \in S /\ \A y \in S : y <= Max(S)
  <2> HIDE DEF S
  <2> QED
    BY <1>2, GreatestExists
<1> QED
  BY <1>2, <1>3 DEF Begin

LEMMA BeginStep ==
    ASSUME NEW source, Lexical(source)
    PROVE  /\ Begin(source, 1) = 0
           /\ \A e \in 1..Len(source) :
                 Begin(source, e + 1) = IF source[e] = SemiColon THEN e ELSE Begin(source, e)
<1>1. Len(source) \in Nat
  BY SourceIsSeq
<1>2. Begin(source, 1) = 0
  BY <1>1, BeginIsLast
<1>3. ASSUME NEW e \in 1..Len(source)
      PROVE  Begin(source, e + 1) = IF source[e] = SemiColon THEN e ELSE Begin(source, e)
  <2>1. e \in 1..(Len(source) + 1) /\ e + 1 \in 1..(Len(source) + 1)
        /\ e # Len(source) + 1
    BY <1>1
  <2>2. /\ Begin(source, e) \in 0..(e - 1)
        /\ \A d \in Ends(source) : d < e => d <= Begin(source, e)
        /\ Begin(source, e) = 0 \/ Begin(source, e) \in Ends(source)
    BY <2>1, BeginIsLast
  <2>3. /\ Begin(source, e + 1) \in 0..e
        /\ \A d \in Ends(source) : d < e + 1 => d <= Begin(source, e + 1)
        /\ Begin(source, e + 1) = 0 \/ Begin(source, e + 1) \in Ends(source)
    <3>1. /\ Begin(source, e + 1) \in 0..(e + 1 - 1)
          /\ \A d \in Ends(source) : d < e + 1 => d <= Begin(source, e + 1)
          /\ Begin(source, e + 1) = 0 \/ Begin(source, e + 1) \in Ends(source)
      BY <2>1, BeginIsLast
    <3> QED
      BY <3>1
  <2>4. e \in Ends(source) <=> source[e] = SemiColon
    BY <2>1 DEF Ends
  <2>5. Ends(source) \subseteq Nat
    BY <1>1 DEF Ends
  <2>6. CASE source[e] = SemiColon
    BY <2>3, <2>4, <2>5, <2>6
  <2>7. CASE source[e] # SemiColon
    <3>1. Begin(source, e + 1) # e
      BY <2>3, <2>4, <2>7
    <3>2. Begin(source, e + 1) <= Begin(source, e)
      BY <2>2, <2>3, <3>1
    <3>3. Begin(source, e) <= Begin(source, e + 1)
      BY <2>2, <2>3
    <3> QED
      BY <2>2, <2>3, <2>7, <3>2, <3>3
  <2> QED
    BY <2>6, <2>7
<1> QED
  BY <1>2, <1>3

-----------------------------------------------------------------------------
(* The first pass. *)

\* What the passes write and bind.
Output(source) ==
    Range(source) \cup {Word} \cup
    [kind: {"internal", "placeholder"}, n: Nat,
     place: {source[i].place : i \in DOMAIN source}, tail: Tails]
Given(source) == {source[i].of : i \in {j \in DOMAIN source : IsReference(source, j)}}

ScanType(source) ==
    [rewritten: Seq(Output(source)), parameters: Seq(Given(source)),
     original: Seq(Output(source)), originals: Seq(Seq(Output(source))), local: Nat]

\* One item more, field by field.
ScanStep(source, i, s, t) ==
    /\ t \in ScanType(source)
    /\ IsReference(source, i) =>
          /\ t.rewritten = Append(s.rewritten,
                                  Internal(Len(s.parameters) + 1, source[i].place,
                                           source[i].tail))
          /\ t.parameters = Append(s.parameters, source[i].of)
          /\ t.original = Append(s.original,
                                 Placeholder(s.local + 1, source[i].place, source[i].tail))
          /\ t.originals = s.originals
          /\ t.local = s.local + 1
    /\ source[i] = SemiColon =>
          /\ t.rewritten = Append(s.rewritten, source[i])
          /\ t.parameters = s.parameters
          /\ t.original = <<>>
          /\ t.originals = Append(s.originals, s.original)
          /\ t.local = 0
    /\ ~IsReference(source, i) /\ source[i] # SemiColon =>
          /\ t.rewritten = Append(s.rewritten, source[i])
          /\ t.parameters = s.parameters
          /\ t.original = Append(s.original, source[i])
          /\ t.originals = s.originals
          /\ t.local = s.local

LEMMA ScanItemStep ==
    ASSUME NEW source, Lexical(source), NEW i \in 1..Len(source),
           NEW s \in ScanType(source), NEW t, t = ScanItem(s, source[i])
    PROVE  ScanStep(source, i, s, t)
<1> DEFINE O == Output(source)
           G == Given(source)
           T == [rewritten: Seq(O), parameters: Seq(G), original: Seq(O),
                 originals: Seq(Seq(O)), local: Nat]
<1>1. /\ LexicalItem(source[i]) /\ source[i] \in Range(source) /\ i \in DOMAIN source
      /\ source[i] = SemiColon <=> source[i].kind = "semicolon"
  BY SourceIsSeq
<1>2. /\ source[i] \in O
      /\ IsReference(source, i) =>
            /\ source[i].of \in G
            /\ \A n \in Nat : /\ Internal(n, source[i].place, source[i].tail) \in O
                              /\ Placeholder(n, source[i].place, source[i].tail) \in O
  BY <1>1 DEF Output, Internal, Placeholder, Given, LexicalItem, IsReference
<1> HIDE DEF O, G
<1>3. s \in T
  BY DEF ScanType, O, G
<1>4. s.rewritten \in Seq(O) /\ s.parameters \in Seq(G) /\ s.original \in Seq(O)
      /\ s.originals \in Seq(Seq(O)) /\ s.local \in Nat
  BY <1>3
<1>5. CASE IsReference(source, i)
  <2>1. t = ScanReference(s, source[i])
    BY <1>5 DEF ScanItem, IsReference
  <2>2. /\ t.rewritten = Append(s.rewritten,
                                Internal(Len(s.parameters) + 1, source[i].place,
                                           source[i].tail))
        /\ t.parameters = Append(s.parameters, source[i].of)
        /\ t.original = Append(s.original,
                               Placeholder(s.local + 1, source[i].place, source[i].tail))
        /\ t.originals = s.originals
        /\ t.local = s.local + 1
        /\ t = [rewritten |-> t.rewritten, parameters |-> t.parameters,
                original |-> t.original, originals |-> t.originals, local |-> t.local]
    BY <1>3, <2>1 DEF ScanReference
  <2>3. Len(s.parameters) + 1 \in Nat /\ s.local + 1 \in Nat
    BY <1>4, LenProperties
  <2>4. t \in T
    <3>1. t.rewritten \in Seq(O) /\ t.parameters \in Seq(G) /\ t.original \in Seq(O)
          /\ t.originals \in Seq(Seq(O)) /\ t.local \in Nat
      BY <1>2, <1>4, <1>5, <2>2, <2>3, AppendProperties
    <3> QED
      BY <2>2, <3>1
  <2>5. source[i] # SemiColon
    BY <1>1, <1>5 DEF IsReference
  <2> QED
    BY <1>5, <2>2, <2>4, <2>5 DEF ScanStep, ScanType, O, G
<1>6. CASE source[i] = SemiColon
  <2>1. t = ScanSemiColon(s)
    BY <1>1, <1>6 DEF ScanItem
  <2>2. /\ t.rewritten = Append(s.rewritten, source[i])
        /\ t.parameters = s.parameters
        /\ t.original = <<>>
        /\ t.originals = Append(s.originals, s.original)
        /\ t.local = 0
        /\ t = [rewritten |-> t.rewritten, parameters |-> t.parameters,
                original |-> t.original, originals |-> t.originals, local |-> t.local]
    BY <1>3, <1>6, <2>1 DEF ScanSemiColon
  <2>3. t \in T
    <3>1. t.rewritten \in Seq(O) /\ t.parameters \in Seq(G) /\ t.original \in Seq(O)
          /\ t.originals \in Seq(Seq(O)) /\ t.local \in Nat
      BY <1>2, <1>4, <2>2, AppendProperties
    <3> QED
      BY <2>2, <3>1
  <2>4. ~IsReference(source, i)
    BY <1>1, <1>6 DEF IsReference
  <2> QED
    BY <1>6, <2>2, <2>3, <2>4 DEF ScanStep, ScanType, O, G
<1>7. CASE ~IsReference(source, i) /\ source[i] # SemiColon
  <2>1. t = [s EXCEPT !.rewritten = Append(@, source[i]), !.original = Append(@, source[i])]
    BY <1>1, <1>7 DEF ScanItem, IsReference
  <2>2. /\ t.rewritten = Append(s.rewritten, source[i])
        /\ t.parameters = s.parameters
        /\ t.original = Append(s.original, source[i])
        /\ t.originals = s.originals
        /\ t.local = s.local
        /\ t = [rewritten |-> t.rewritten, parameters |-> t.parameters,
                original |-> t.original, originals |-> t.originals, local |-> t.local]
    BY <1>3, <2>1
  <2>3. t \in T
    <3>1. t.rewritten \in Seq(O) /\ t.parameters \in Seq(G) /\ t.original \in Seq(O)
          /\ t.originals \in Seq(Seq(O)) /\ t.local \in Nat
      BY <1>2, <1>4, <2>2, AppendProperties
    <3> QED
      BY <2>2, <3>1
  <2> QED
    BY <1>7, <2>2, <2>3 DEF ScanStep, ScanType, O, G
<1> QED
  BY <1>5, <1>6, <1>7

\* What the passes make of an item, by the numbers the first pass has reached.
Rewritten(source, i) ==
    IF IsReference(source, i)
    THEN Internal(Len(Scanned(source)[i].parameters), source[i].place, source[i].tail)
    ELSE source[i]
Token(source, i) == TokenOf(Rewritten(source, i))
Shown(source, i) ==
    IF IsReference(source, i)
    THEN Placeholder(Scanned(source)[i].local, source[i].place, source[i].tail)
    ELSE source[i]

\* After i items: every one is rewritten, every reference has its parameter, the
\* statement that is being read is shown from its beginning with numbers of its
\* own, and the statements that have ended are kept.
ScannedInv(source, i, s) ==
    /\ s \in ScanType(source)
    /\ Len(s.rewritten) = i /\ \A j \in 1..i : s.rewritten[j] = Rewritten(source, j)
    /\ \A j \in 1..i : IsReference(source, j) =>
          /\ Len(Scanned(source)[j].parameters) \in 1..Len(s.parameters)
          /\ s.parameters[Len(Scanned(source)[j].parameters)] = source[j].of
    /\ Len(s.original) = i - Begin(source, i + 1)
    /\ \A j \in (Begin(source, i + 1) + 1)..i :
          /\ s.original[j - Begin(source, i + 1)] = Shown(source, j)
          /\ IsReference(source, j) => Scanned(source)[j].local \in 1..s.local
    /\ \A e \in 1..i : source[e] = SemiColon =>
          /\ Len(Scanned(source)[e - 1].originals) + 1 \in 1..Len(s.originals)
          /\ s.originals[Len(Scanned(source)[e - 1].originals) + 1]
                = Scanned(source)[e - 1].original

LEMMA ScannedInvHolds ==
    ASSUME NEW source, Lexical(source)
    PROVE  \A i \in 0..Len(source) : ScannedInv(source, i, Scanned(source)[i])
<1> DEFINE L == Len(source)
           S(i) == Scanned(source)[i]
           Good == {i \in 0..L : ScannedInv(source, i, S(i))}
<1>1. L \in Nat
  BY SourceIsSeq
<1>2. S(0) = Unscanned /\ \A i \in 1..L : S(i) = ScanItem(S(i - 1), source[i])
  BY <1>1, ScannedRecursion
<1>3. /\ Begin(source, 1) = 0
      /\ \A e \in 1..L : Begin(source, e + 1) = IF source[e] = SemiColon THEN e ELSE Begin(source, e)
      /\ \A e \in 1..(L + 1) : Begin(source, e) \in 0..(e - 1)
  BY BeginStep, BeginIsLast
<1> HIDE DEF L, S
<1>4. 0 \in Good
  <2>1. Unscanned \in ScanType(source)
    BY DEF Unscanned, ScanType
  <2>2. ScannedInv(source, 0, Unscanned)
    BY <1>3, <2>1 DEF ScannedInv, Unscanned
  <2> QED
    BY <1>1, <1>2, <2>2
<1>5. ASSUME NEW i \in 0..(L - 1), i \in Good PROVE i + 1 \in Good
  <2> DEFINE k == i + 1
             s == S(i)
             t == S(k)
             b == Begin(source, k)
             c == Begin(source, k + 1)
  <2>1. k \in 1..L /\ k - 1 = i /\ k \in 0..L /\ i \in Nat /\ k \in 1..(L + 1)
    BY <1>1
  <2>2. ScannedInv(source, i, s)
    BY <1>5
  <2>3. t = ScanItem(s, source[k])
    BY <1>2, <2>1
  <2>4. b \in 0..i /\ c = IF source[k] = SemiColon THEN k ELSE b
    BY <1>3, <2>1
  <2>5. /\ s \in ScanType(source)
        /\ Len(s.rewritten) = i /\ \A j \in 1..i : s.rewritten[j] = Rewritten(source, j)
        /\ \A j \in 1..i : IsReference(source, j) =>
              /\ Len(S(j).parameters) \in 1..Len(s.parameters)
              /\ s.parameters[Len(S(j).parameters)] = source[j].of
        /\ Len(s.original) = i - b
        /\ \A j \in (b + 1)..i :
              /\ s.original[j - b] = Shown(source, j)
              /\ IsReference(source, j) => S(j).local \in 1..s.local
        /\ \A e \in 1..i : source[e] = SemiColon =>
              /\ Len(S(e - 1).originals) + 1 \in 1..Len(s.originals)
              /\ s.originals[Len(S(e - 1).originals) + 1] = S(e - 1).original
    BY <2>2 DEF ScannedInv, S
  <2>6. /\ s.rewritten \in Seq(Output(source)) /\ s.parameters \in Seq(Given(source))
        /\ s.original \in Seq(Output(source)) /\ s.originals \in Seq(Seq(Output(source)))
        /\ s.local \in Nat /\ Len(s.parameters) \in Nat /\ Len(s.originals) \in Nat
    <3>1. /\ s.rewritten \in Seq(Output(source)) /\ s.parameters \in Seq(Given(source))
          /\ s.original \in Seq(Output(source)) /\ s.originals \in Seq(Seq(Output(source)))
          /\ s.local \in Nat
      BY <2>5 DEF ScanType
    <3> QED
      BY <3>1, LenProperties
  <2>7. /\ t \in ScanType(source)
        /\ IsReference(source, k) =>
              /\ t.rewritten = Append(s.rewritten,
                                      Internal(Len(s.parameters) + 1, source[k].place,
                                               source[k].tail))
              /\ t.parameters = Append(s.parameters, source[k].of)
              /\ t.original = Append(s.original, Placeholder(s.local + 1, source[k].place,
                                                       source[k].tail))
              /\ t.originals = s.originals
              /\ t.local = s.local + 1
        /\ source[k] = SemiColon =>
              /\ t.rewritten = Append(s.rewritten, source[k])
              /\ t.parameters = s.parameters
              /\ t.original = <<>>
              /\ t.originals = Append(s.originals, s.original)
              /\ t.local = 0
        /\ ~IsReference(source, k) /\ source[k] # SemiColon =>
              /\ t.rewritten = Append(s.rewritten, source[k])
              /\ t.parameters = s.parameters
              /\ t.original = Append(s.original, source[k])
              /\ t.originals = s.originals
              /\ t.local = s.local
    <3>1. k \in 1..Len(source) /\ s \in ScanType(source)
      BY <2>1, <2>5 DEF L
    <3> HIDE DEF s, t, k
    <3>2. ScanStep(source, k, s, t)
      BY <2>3, <3>1, ScanItemStep
    <3> QED
      BY <3>2 DEF ScanStep
  <2>8. source[k] = SemiColon => ~IsReference(source, k)
    BY DEF IsReference, SemiColon
  <2>9. /\ source[k] \in Output(source)
        /\ IsReference(source, k) =>
              /\ source[k].of \in Given(source)
              /\ \A n \in Nat :
                    /\ Internal(n, source[k].place, source[k].tail) \in Output(source)
                    /\ Placeholder(n, source[k].place, source[k].tail) \in Output(source)
    <3>1. k \in 1..Len(source)
      BY <2>1 DEF L
    <3>2. LexicalItem(source[k]) /\ source[k] \in Range(source) /\ k \in DOMAIN source
      BY <3>1, SourceIsSeq
    <3> QED
      BY <3>2 DEF Output, Internal, Placeholder, Given, LexicalItem, IsReference
  <2> HIDE DEF s, t, b, c
  <2>10. /\ Len(t.parameters) = IF IsReference(source, k) THEN Len(s.parameters) + 1
                                ELSE Len(s.parameters)
         /\ \A m \in 1..Len(s.parameters) : t.parameters[m] = s.parameters[m]
         /\ IsReference(source, k) => t.parameters[Len(s.parameters) + 1] = source[k].of
    <3>1. CASE IsReference(source, k)
      <4> DEFINE q == s.parameters
                 x == source[k].of
      <4>1. q \in Seq(Given(source)) /\ x \in Given(source)
        BY <2>6, <2>9, <3>1
      <4>2. t.parameters = Append(q, x)
        BY <2>7, <3>1
      <4> HIDE DEF q, x
      <4>3. /\ Len(t.parameters) = Len(q) + 1 /\ t.parameters[Len(q) + 1] = x
            /\ \A m \in 1..Len(q) : t.parameters[m] = q[m]
        BY <4>1, <4>2, AppendProperties
      <4> QED
        BY <3>1, <4>3 DEF q, x
    <3>2. CASE ~IsReference(source, k)
      <4>1. t.parameters = s.parameters
        BY <2>7, <3>2
      <4> QED
        BY <3>2, <4>1
    <3> QED
      BY <3>1, <3>2
  <2>11. Len(t.rewritten) = k /\ \A j \in 1..k : t.rewritten[j] = Rewritten(source, j)
    <3> DEFINE x == Rewritten(source, k)
    <3>1. t.rewritten = Append(s.rewritten, x)
      BY <2>7, <2>8, <2>10 DEF Rewritten, S, t
    <3>2. x \in Output(source)
      <4>1. Len(t.parameters) \in Nat
        BY <2>6, <2>10
      <4> QED
        BY <2>9, <4>1 DEF Rewritten, S, t
    <3> HIDE DEF x
    <3>3. /\ Len(Append(s.rewritten, x)) = i + 1
          /\ \A j \in 1..i : Append(s.rewritten, x)[j] = s.rewritten[j]
          /\ Append(s.rewritten, x)[i + 1] = x
      <4> DEFINE q == s.rewritten
      <4>1. q \in Seq(Output(source)) /\ Len(q) = i
        BY <2>5, <2>6
      <4> HIDE DEF q
      <4>2. /\ Len(Append(q, x)) = i + 1
            /\ \A j \in 1..i : Append(q, x)[j] = q[j]
            /\ Append(q, x)[i + 1] = x
        BY <3>2, <4>1, AppendProperties
      <4> QED
        BY <4>2 DEF q
    <3> QED
      BY <2>1, <2>5, <3>1, <3>3 DEF x
  <2>12. \A j \in 1..k : IsReference(source, j) =>
            /\ Len(S(j).parameters) \in 1..Len(t.parameters)
            /\ t.parameters[Len(S(j).parameters)] = source[j].of
    <3> SUFFICES ASSUME NEW j \in 1..k, IsReference(source, j)
                 PROVE  /\ Len(S(j).parameters) \in 1..Len(t.parameters)
                        /\ t.parameters[Len(S(j).parameters)] = source[j].of
      OBVIOUS
    <3>1. CASE j = k
      BY <2>6, <2>10, <3>1 DEF t
    <3>2. CASE j # k
      <4>1. j \in 1..i
        BY <2>1, <3>2
      <4> DEFINE m == Len(S(j).parameters)
      <4>2. m \in 1..Len(s.parameters) /\ s.parameters[m] = source[j].of
        BY <2>5, <4>1
      <4> HIDE DEF m
      <4>3. t.parameters[m] = source[j].of
        BY <2>10, <4>2
      <4>4. m \in 1..Len(t.parameters)
        BY <2>6, <2>10, <4>2
      <4> QED
        BY <4>3, <4>4 DEF m
    <3> QED
      BY <3>1, <3>2
  <2>13. /\ Len(t.original) = k - c
         /\ \A j \in (c + 1)..k :
               /\ t.original[j - c] = Shown(source, j)
               /\ IsReference(source, j) => S(j).local \in 1..t.local
    <3>1. CASE source[k] = SemiColon
      <4>1. Len(t.original) = 0 /\ c = k
        BY <2>4, <2>7, <3>1
      <4> QED
        BY <2>1, <4>1
    <3>2. CASE source[k] # SemiColon
      <4> DEFINE x == Shown(source, k)
      <4>1. t.original = Append(s.original, x) /\ c = b
        <5>1. c = b
          BY <2>4, <3>2
        <5>2. x = IF IsReference(source, k) THEN Placeholder(t.local, source[k].place, source[k].tail)
                  ELSE source[k]
          BY DEF Shown, S, t
        <5>3. CASE IsReference(source, k)
          BY <2>7, <5>1, <5>2, <5>3
        <5>4. CASE ~IsReference(source, k)
          BY <2>7, <3>2, <5>1, <5>2, <5>4
        <5> QED
          BY <5>3, <5>4
      <4>2. x \in Output(source) /\ t.local \in Nat /\ s.local <= t.local
            /\ (IsReference(source, k) => t.local \in 1..t.local)
        <5>1. /\ t.local \in Nat /\ s.local <= t.local
              /\ IsReference(source, k) => t.local \in 1..t.local
          <6>1. t.local = s.local \/ t.local = s.local + 1
            BY <2>7, <3>2
          <6>2. IsReference(source, k) => t.local = s.local + 1
            BY <2>7
          <6> QED
            BY <2>6, <6>1, <6>2
        <5>2. x = IF IsReference(source, k) THEN Placeholder(t.local, source[k].place, source[k].tail)
                  ELSE source[k]
          BY DEF Shown, S, t
        <5> QED
          BY <2>9, <5>1, <5>2
      <4> HIDE DEF x
      <4>3. /\ Len(Append(s.original, x)) = i - b + 1
            /\ \A m \in 1..(i - b) : Append(s.original, x)[m] = s.original[m]
            /\ Append(s.original, x)[i - b + 1] = x
        BY <2>5, <2>6, <4>2, AppendProperties
      <4>4. Len(t.original) = k - c
        BY <2>1, <2>4, <4>1, <4>3
      <4>5. ASSUME NEW j \in (c + 1)..k
            PROVE  /\ t.original[j - c] = Shown(source, j)
                   /\ IsReference(source, j) => S(j).local \in 1..t.local
        <5>1. CASE j = k
          <6>1. j - c = i - b + 1
            BY <2>1, <2>4, <4>1, <5>1
          <6> QED
            BY <4>1, <4>2, <4>3, <5>1, <6>1 DEF x, t
        <5>2. CASE j # k
          <6>1. j \in (b + 1)..i /\ j - c \in 1..(i - b) /\ j - c = j - b
            BY <2>1, <2>4, <4>1, <5>2
          <6> QED
            BY <2>5, <2>6, <4>1, <4>2, <4>3, <6>1
        <5> QED
          BY <5>1, <5>2
      <4> QED
        BY <4>4, <4>5
    <3> QED
      BY <3>1, <3>2
  <2>14. \A e \in 1..k : source[e] = SemiColon =>
            /\ Len(S(e - 1).originals) + 1 \in 1..Len(t.originals)
            /\ t.originals[Len(S(e - 1).originals) + 1] = S(e - 1).original
    <3>1. /\ Len(t.originals) = IF source[k] = SemiColon THEN Len(s.originals) + 1
                                ELSE Len(s.originals)
          /\ \A m \in 1..Len(s.originals) : t.originals[m] = s.originals[m]
          /\ source[k] = SemiColon => t.originals[Len(s.originals) + 1] = s.original
      <4>1. CASE source[k] = SemiColon
        <5> DEFINE q == s.originals
                   x == s.original
        <5>1. q \in Seq(Seq(Output(source))) /\ x \in Seq(Output(source))
          BY <2>6
        <5>2. t.originals = Append(q, x)
          BY <2>7, <4>1
        <5> HIDE DEF q, x
        <5>3. /\ Len(t.originals) = Len(q) + 1 /\ t.originals[Len(q) + 1] = x
              /\ \A m \in 1..Len(q) : t.originals[m] = q[m]
          BY <5>1, <5>2, AppendProperties
        <5> QED
          BY <4>1, <5>3 DEF q, x
      <4>2. CASE source[k] # SemiColon
        <5>1. t.originals = s.originals
          BY <2>7, <4>2
        <5> QED
          BY <4>2, <5>1
      <4> QED
        BY <4>1, <4>2
    <3> SUFFICES ASSUME NEW e \in 1..k, source[e] = SemiColon
                 PROVE  /\ Len(S(e - 1).originals) + 1 \in 1..Len(t.originals)
                        /\ t.originals[Len(S(e - 1).originals) + 1] = S(e - 1).original
      OBVIOUS
    <3>2. CASE e = k
      <4>1. S(e - 1) = s
        BY <2>1, <3>2 DEF s
      <4> QED
        BY <2>6, <3>1, <3>2, <4>1
    <3>3. CASE e # k
      <4>1. e \in 1..i
        BY <2>1, <3>3
      <4> DEFINE m == Len(S(e - 1).originals) + 1
      <4>2. m \in 1..Len(s.originals) /\ s.originals[m] = S(e - 1).original
        BY <2>5, <4>1
      <4> HIDE DEF m
      <4>3. t.originals[m] = S(e - 1).original
        BY <3>1, <4>2
      <4>4. m \in 1..Len(t.originals)
        BY <2>6, <3>1, <4>2
      <4> QED
        BY <4>3, <4>4 DEF m
    <3> QED
      BY <3>2, <3>3
  <2>15. ScannedInv(source, k, t)
    BY <2>7, <2>11, <2>12, <2>13, <2>14 DEF ScannedInv, S, c
  <2> QED
    BY <2>1, <2>15 DEF t
<1>6. \A i \in 0..L : i \in Good
  <2> HIDE DEF Good
  <2> QED
    BY <1>1, <1>4, <1>5, Induction
<1> QED
  BY <1>6 DEF S, L

\* The numbers that the first pass reaches, item by item.
NumbersStep(source, i, s, t) ==
    /\ Len(s.parameters) \in Nat /\ Len(s.originals) \in Nat /\ s.local \in Nat
    /\ IsReference(source, i) =>
          /\ Len(t.parameters) = Len(s.parameters) + 1
          /\ Len(t.originals) = Len(s.originals) /\ t.local = s.local + 1
    /\ source[i] = SemiColon =>
          /\ Len(t.parameters) = Len(s.parameters)
          /\ Len(t.originals) = Len(s.originals) + 1 /\ t.local = 0
    /\ ~IsReference(source, i) /\ source[i] # SemiColon =>
          /\ Len(t.parameters) = Len(s.parameters)
          /\ Len(t.originals) = Len(s.originals) /\ t.local = s.local
ScanNumbers(source, i) ==
    NumbersStep(source, i, Scanned(source)[i - 1], Scanned(source)[i])

LEMMA ScanNumbersHold ==
    ASSUME NEW source, Lexical(source)
    PROVE  /\ Scanned(source)[0] = Unscanned
           /\ \A i \in 1..Len(source) : ScanNumbers(source, i)
<1>1. Len(source) \in Nat
  BY SourceIsSeq
<1>2. /\ Scanned(source)[0] = Unscanned
      /\ \A i \in 1..Len(source) : Scanned(source)[i] = ScanItem(Scanned(source)[i - 1], source[i])
  BY <1>1, ScannedRecursion
<1>3. ASSUME NEW i \in 1..Len(source) PROVE ScanNumbers(source, i)
  <2> DEFINE s == Scanned(source)[i - 1]
             t == Scanned(source)[i]
  <2>1. i - 1 \in 0..Len(source)
    BY <1>1
  <2>2. s \in ScanType(source)
    BY <2>1, ScannedInvHolds DEF ScannedInv
  <2>3. t = ScanItem(s, source[i])
    BY <1>2
  <2> HIDE DEF s, t
  <2>4. ScanStep(source, i, s, t)
    BY <2>2, <2>3, ScanItemStep
  <2>5. /\ s.parameters \in Seq(Given(source)) /\ s.originals \in Seq(Seq(Output(source)))
        /\ s.original \in Seq(Output(source)) /\ s.local \in Nat
    BY <2>2 DEF ScanType
  <2>6. Len(s.parameters) \in Nat /\ Len(s.originals) \in Nat
    BY <2>5, LenProperties
  <2>7. IsReference(source, i) => source[i].of \in Given(source)
    BY SourceIsSeq DEF Given
  <2>8. source[i] = SemiColon => ~IsReference(source, i)
    BY DEF IsReference, SemiColon
  <2>9. IsReference(source, i) => Len(t.parameters) = Len(s.parameters) + 1
    <3> DEFINE q == s.parameters
               x == source[i].of
    <3> HAVE IsReference(source, i)
    <3>1. t.parameters = Append(q, x) /\ q \in Seq(Given(source)) /\ x \in Given(source)
      BY <2>4, <2>5, <2>7 DEF ScanStep
    <3> HIDE DEF q, x
    <3>2. Len(t.parameters) = Len(q) + 1
      BY <3>1, AppendProperties
    <3> QED
      BY <3>2 DEF q
  <2>10. source[i] = SemiColon => Len(t.originals) = Len(s.originals) + 1
    <3> DEFINE q == s.originals
               x == s.original
    <3> HAVE source[i] = SemiColon
    <3>1. t.originals = Append(q, x) /\ q \in Seq(Seq(Output(source))) /\ x \in Seq(Output(source))
      BY <2>4, <2>5 DEF ScanStep
    <3> HIDE DEF q, x
    <3>2. Len(t.originals) = Len(q) + 1
      BY <3>1, AppendProperties
    <3> QED
      BY <3>2 DEF q
  <2>11. /\ ~IsReference(source, i) => t.parameters = s.parameters
         /\ source[i] # SemiColon => t.originals = s.originals
         /\ source[i] = SemiColon => t.local = 0
         /\ IsReference(source, i) => t.local = s.local + 1
         /\ ~IsReference(source, i) /\ source[i] # SemiColon => t.local = s.local
    BY <2>4, <2>8 DEF ScanStep
  <2>12. NumbersStep(source, i, s, t)
    BY <2>5, <2>6, <2>8, <2>9, <2>10, <2>11 DEF NumbersStep
  <2> QED
    BY <2>12 DEF ScanNumbers, s, t
<1> QED
  BY <1>2, <1>3

\* What the second pass finds: the tokens, the parameters by their numbers, and
\* the texts of the statements.
ScanFacts(source, s) ==
    /\ Len(Tokens(s)) = Len(source) + 1
    /\ \A i \in 1..Len(source) : Tokens(s)[i] = Token(source, i)
    /\ Tokens(s)[Len(source) + 1] = SemiColon
    /\ s.parameters \in Seq(Given(source))
    /\ s.parameters = Scanned(source)[Len(source)].parameters
    /\ ToSet(s.parameters) = Given(source)
    /\ \A j \in 1..Len(source) : IsReference(source, j) =>
          /\ Len(Scanned(source)[j].parameters) \in DOMAIN s.parameters
          /\ s.parameters[Len(Scanned(source)[j].parameters)] = source[j].of
    /\ \A e \in Ends(source) :
          /\ Len(Scanned(source)[e - 1].originals) + 1 \in DOMAIN s.originals
          /\ s.originals[Len(Scanned(source)[e - 1].originals) + 1]
                = Scanned(source)[e - 1].original
    /\ s.originals \in Seq(Seq(Output(source)))

LEMMA ScanFactsHold ==
    ASSUME NEW source, Lexical(source)
    PROVE  ScanFacts(source, Scan(source))
<1> DEFINE L == Len(source)
           S(i) == Scanned(source)[i]
           s == Scan(source)
           t == S(L)
<1>1. L \in Nat /\ L \in 0..L /\ DOMAIN source = 1..L
  BY SourceIsSeq
<1>2. ScannedInv(source, L, t)
  BY <1>1, ScannedInvHolds
<1>3. s = [t EXCEPT !.originals = Append(@, t.original)]
  BY DEF Scan
<1> HIDE DEF L, s, t, S
<1>4. /\ t \in ScanType(source)
      /\ Len(t.rewritten) = L /\ \A j \in 1..L : t.rewritten[j] = Rewritten(source, j)
      /\ \A j \in 1..L : IsReference(source, j) =>
            /\ Len(S(j).parameters) \in 1..Len(t.parameters)
            /\ t.parameters[Len(S(j).parameters)] = source[j].of
      /\ \A e \in 1..L : source[e] = SemiColon =>
            /\ Len(S(e - 1).originals) + 1 \in 1..Len(t.originals)
            /\ t.originals[Len(S(e - 1).originals) + 1] = S(e - 1).original
  BY <1>2 DEF ScannedInv, S
<1>5. /\ t.rewritten \in Seq(Output(source)) /\ t.parameters \in Seq(Given(source))
      /\ t.original \in Seq(Output(source)) /\ t.originals \in Seq(Seq(Output(source)))
      /\ s.rewritten = t.rewritten /\ s.parameters = t.parameters
      /\ s.originals = Append(t.originals, t.original)
  BY <1>3, <1>4 DEF ScanType
<1>6. /\ Len(Tokens(s)) = L + 1 /\ Tokens(s)[L + 1] = SemiColon
      /\ \A i \in 1..L : Tokens(s)[i] = Token(source, i)
  <2>1. Tokens(s) = [i \in 1..(L + 1) |->
                       IF i = L + 1 THEN SemiColon ELSE TokenOf(t.rewritten[i])]
    BY <1>4, <1>5 DEF Tokens
  <2>2. L + 1 \in Nat /\ L + 1 \in 1..(L + 1)
        /\ \A i \in 1..L : i \in 1..(L + 1) /\ i # L + 1
    BY <1>1
  <2>3. Len(Tokens(s)) = L + 1
    BY <2>1, <2>2
  <2>4. \A i \in 1..L : TokenOf(t.rewritten[i]) = Token(source, i)
    BY <1>4 DEF Token
  <2> QED
    BY <2>1, <2>2, <2>3, <2>4
<1>7. DOMAIN t.parameters = 1..Len(t.parameters)
  BY <1>5, LenProperties
<1>8. \A j \in 1..L : IsReference(source, j) =>
         /\ Len(S(j).parameters) \in DOMAIN s.parameters
         /\ s.parameters[Len(S(j).parameters)] = source[j].of
  BY <1>4, <1>5, <1>7
<1>9. ToSet(s.parameters) = Given(source)
  <2>1. ToSet(s.parameters) \subseteq Given(source)
    <3> SUFFICES ASSUME NEW m \in DOMAIN s.parameters
                 PROVE  s.parameters[m] \in Given(source)
      BY DEF ToSet
    <3> QED
      BY <1>5, <1>7, ElementOfSeq
  <2>2. Given(source) \subseteq ToSet(s.parameters)
    <3> SUFFICES ASSUME NEW j \in DOMAIN source, IsReference(source, j)
                 PROVE  source[j].of \in ToSet(s.parameters)
      BY DEF Given
    <3> QED
      BY <1>1, <1>8 DEF ToSet
  <2> QED
    BY <2>1, <2>2
<1>10. ASSUME NEW e \in Ends(source)
       PROVE  /\ Len(S(e - 1).originals) + 1 \in DOMAIN s.originals
              /\ s.originals[Len(S(e - 1).originals) + 1] = S(e - 1).original
  <2> DEFINE q == t.originals
             x == t.original
  <2>1. q \in Seq(Seq(Output(source))) /\ x \in Seq(Output(source))
    BY <1>5
  <2>2. s.originals = Append(q, x)
    BY <1>5
  <2> HIDE DEF q, x
  <2>3. /\ DOMAIN s.originals = 1..(Len(q) + 1) /\ s.originals[Len(q) + 1] = x
        /\ \A m \in 1..Len(q) : s.originals[m] = q[m]
        /\ Len(q) \in Nat
    <3>1. /\ Append(q, x) \in Seq(Seq(Output(source)))
          /\ Len(Append(q, x)) = Len(q) + 1 /\ Append(q, x)[Len(q) + 1] = x
          /\ \A m \in 1..Len(q) : Append(q, x)[m] = q[m]
          /\ Len(q) \in Nat
      BY <2>1, AppendProperties, LenProperties
    <3>2. DOMAIN Append(q, x) = 1..Len(Append(q, x))
      BY <3>1, LenProperties
    <3> QED
      BY <2>2, <3>1, <3>2
  <2>4. CASE e = L + 1
    <3>1. e - 1 = L
      BY <1>1, <2>4
    <3>2. S(e - 1) = t
      BY <3>1 DEF t
    <3> QED
      BY <2>3, <3>2 DEF q, x
  <2>5. CASE e # L + 1
    <3>1. e \in 1..L /\ source[e] = SemiColon
      BY <1>1, <2>5 DEF Ends, L
    <3> DEFINE m == Len(S(e - 1).originals) + 1
    <3>2. m \in 1..Len(q) /\ q[m] = S(e - 1).original
      BY <1>4, <3>1 DEF q
    <3> HIDE DEF m
    <3>3. m \in 1..(Len(q) + 1) /\ s.originals[m] = S(e - 1).original
      BY <2>3, <3>2
    <3> QED
      BY <2>3, <3>3 DEF m
  <2> QED
    BY <2>4, <2>5
<1>11. s.originals \in Seq(Seq(Output(source)))
  BY <1>5, AppendProperties
<1> QED
  BY <1>5, <1>6, <1>8, <1>9, <1>10, <1>11 DEF ScanFacts, s, t, S, L

-----------------------------------------------------------------------------
(* The second pass. *)

\* The tokens are numbered as the references are, as long as a reference stands
\* alone.
Clean(source) ==
    \A i \in DOMAIN source :
       /\ IsReference(source, i) => source[i].place # "word" /\ source[i].tail = Alone
       /\ source[i].kind = "native" => source[i].place = "operator"

LEMMA NumbersAreNat ==
    ASSUME NEW source, Lexical(source), NEW j \in 0..Len(source)
    PROVE  Len(Scanned(source)[j].parameters) \in Nat
<1>1. ScannedInv(source, j, Scanned(source)[j])
  BY SourceIsSeq, ScannedInvHolds
<1>2. Scanned(source)[j].parameters \in Seq(Given(source))
  BY <1>1 DEF ScannedInv, ScanType
<1> QED
  BY <1>2, LenProperties

LEMMA TokenCases ==
    ASSUME NEW source, Lexical(source), NEW j \in 1..Len(source)
    PROVE  /\ Token(source, j) \in Output(source)
           /\ Token(source, j).kind = "semicolon" <=> source[j] = SemiColon
           /\ Token(source, j).kind = "internal" <=>
                 IsReference(source, j) /\ source[j].place # "word"
           /\ IsReference(source, j) /\ source[j].place = "word" => Token(source, j) = Word
           /\ IsReference(source, j) /\ source[j].place # "word" =>
                 Token(source, j) =
                    Internal(Glued(Len(Scanned(source)[j].parameters), source[j].tail),
                             source[j].place, Alone)
           /\ ~IsReference(source, j) => Token(source, j) = source[j]
<1> DEFINE n == Len(Scanned(source)[j].parameters)
           x == source[j]
<1>1. /\ LexicalItem(x) /\ x \in Range(source) /\ j \in DOMAIN source
      /\ x = SemiColon <=> x.kind = "semicolon"
  BY SourceIsSeq
<1>2. n \in Nat
  <2>1. j \in 0..Len(source)
    BY SourceIsSeq
  <2> QED
    BY <2>1, NumbersAreNat
<1> HIDE DEF n
<1>3. CASE IsReference(source, j) /\ x.place = "word"
  <2>1. Rewritten(source, j) = Internal(n, x.place, x.tail)
    BY <1>3 DEF Rewritten, n
  <2>2. Token(source, j) = Word
    BY <1>3, <2>1 DEF Token, TokenOf, Internal
  <2>3. Word \in Output(source) /\ Word.kind = "word"
    BY DEF Output, Word
  <2> QED
    BY <1>1, <1>3, <2>2, <2>3 DEF IsReference
<1>4. CASE IsReference(source, j) /\ x.place # "word"
  <2> DEFINE g == Glued(n, x.tail)
             y == Internal(g, x.place, Alone)
  <2>1. Rewritten(source, j) = Internal(n, x.place, x.tail)
    BY <1>4 DEF Rewritten, n
  <2>2. Token(source, j) = y
    BY <1>4, <2>1 DEF Token, TokenOf, Internal
  <2>3. x.tail \in Tails
    BY <1>1, <1>4 DEF LexicalItem, IsReference
  <2>4. x.tail.shift \in Nat /\ x.tail.add \in Nat
    BY <2>3 DEF Tails, Alone, Letters
  <2>5. g \in Nat
    BY <1>2, <2>4 DEF Glued
  <2>6. Alone \in Tails
    BY DEF Tails
  <2> HIDE DEF g
  <2>7. y \in Output(source) /\ y.kind = "internal"
    BY <1>1, <2>5, <2>6 DEF Output, Internal
  <2> QED
    BY <1>1, <1>4, <2>2, <2>7 DEF IsReference, g, n
<1>5. CASE ~IsReference(source, j)
  <2>1. Rewritten(source, j) = x
    BY <1>5 DEF Rewritten
  <2>2. x.kind # "internal"
    BY <1>1 DEF LexicalItem
  <2>3. Token(source, j) = x
    BY <2>1, <2>2 DEF Token, TokenOf
  <2> QED
    BY <1>1, <1>5, <2>2, <2>3 DEF Output
<1> QED
  BY <1>3, <1>4, <1>5

LEMMA TokenKinds ==
    ASSUME NEW source, Lexical(source), Clean(source), NEW j \in 1..Len(source)
    PROVE  /\ Token(source, j) \in Output(source)
           /\ Token(source, j).kind = "comment" <=> source[j].kind = "comment"
           /\ Token(source, j).kind = "keyword" <=> source[j].kind = "keyword"
           /\ Token(source, j).kind = "semicolon" <=> source[j] = SemiColon
           /\ Token(source, j).kind = "internal" <=> IsReference(source, j)
           /\ IsReference(source, j) =>
                 /\ Token(source, j).place = source[j].place
                 /\ Token(source, j).n = Len(Scanned(source)[j].parameters)
           /\ ~IsReference(source, j) => Token(source, j) = source[j]
           /\ Token(source, j) # Native("token") /\ Token(source, j) # Native("value")
<1> DEFINE n == Len(Scanned(source)[j].parameters)
           x == source[j]
           y == Token(source, j)
<1>1. /\ IsReference(source, j) => x.place # "word" /\ x.tail = Alone
      /\ x.kind = "native" => x.place = "operator"
  BY SourceIsSeq DEF Clean
<1>2. n \in Nat
  <2>1. j \in 0..Len(source)
    BY SourceIsSeq
  <2> QED
    BY <2>1, NumbersAreNat
<1>3. Glued(n, Alone) = n
  <2> HIDE DEF n
  <2> QED
    BY <1>2 DEF Glued, Alone
<1>4. /\ y \in Output(source)
      /\ y.kind = "semicolon" <=> x = SemiColon
      /\ y.kind = "internal" <=> IsReference(source, j)
      /\ IsReference(source, j) => y = Internal(n, x.place, Alone)
      /\ ~IsReference(source, j) => y = x
  BY <1>1, <1>3, TokenCases
<1> HIDE DEF n, y
<1>5. CASE IsReference(source, j)
  BY <1>4, <1>5 DEF IsReference, Internal, Native, n, y
<1>6. CASE ~IsReference(source, j)
  BY <1>1, <1>4, <1>6 DEF Native, y
<1> QED
  BY <1>5, <1>6

\* A statement is the items between two ends.
LEMMA PartItems ==
    ASSUME NEW source, Lexical(source), NEW e \in Ends(source)
    PROVE  /\ Begin(source, e) \in 0..(e - 1)
           /\ e \in 1..(Len(source) + 1)
           /\ Len(Part(source, e)) = e - 1 - Begin(source, e)
           /\ DOMAIN Part(source, e) = 1..(e - 1 - Begin(source, e))
           /\ Part(source, e) = [k \in 1..(e - 1 - Begin(source, e)) |-> Part(source, e)[k]]
           /\ \A k \in 1..(e - 1 - Begin(source, e)) :
                 /\ Begin(source, e) + k \in 1..Len(source)
                 /\ Part(source, e)[k] = source[Begin(source, e) + k]
<1> DEFINE b == Begin(source, e)
           p == Part(source, e)
<1>1. Len(source) \in Nat /\ source \in Seq(Range(source)) /\ e \in 1..(Len(source) + 1)
  BY SourceIsSeq DEF Lexical, Ends
<1>2. b \in 0..(e - 1)
  BY <1>1, BeginIsLast
<1>3. p = SubSeq(source, b + 1, e - 1)
  BY DEF Part
<1> HIDE DEF b, p
<1>4. p = [k \in 1..(e - 1 - b) |-> source[b + k]]
  <2>1. 1 + (e - 1) - (b + 1) = e - 1 - b
    BY <1>1, <1>2
  <2>2. p = [k \in 1..(1 + (e - 1) - (b + 1)) |-> source[k + (b + 1) - 1]]
    BY <1>1, <1>2, <1>3
  <2>3. \A k \in 1..(e - 1 - b) : k + (b + 1) - 1 = b + k
    BY <1>1, <1>2
  <2> QED
    BY <2>1, <2>2, <2>3
<1>5. e - 1 - b \in Nat /\ \A k \in 1..(e - 1 - b) : b + k \in 1..Len(source)
  BY <1>1, <1>2
<1>6. Len(p) = e - 1 - b
  BY <1>4, <1>5
<1> QED
  BY <1>1, <1>2, <1>4, <1>5, <1>6 DEF b, p

\* The tokens of what has been read of a statement, and its parameters.
CutTokens(source, i, tokens) ==
    /\ tokens \in Seq(Output(source))
    /\ Len(tokens) = i - Begin(source, i + 1)
    /\ \A j \in (Begin(source, i + 1) + 1)..i :
          tokens[j - Begin(source, i + 1)] = Token(source, j)
CutBound(source, i, bound) ==
    /\ bound \in Seq(Given(source))
    /\ Len(bound) = Scanned(source)[i].local
    /\ \A j \in (Begin(source, i + 1) + 1)..i : IsReference(source, j) =>
          /\ Scanned(source)[j].local \in 1..Len(bound)
          /\ bound[Scanned(source)[j].local] = source[j].of
Internals(tokens) == {k \in DOMAIN tokens : tokens[k].kind = "internal"}

LEMMA InternalsFinite ==
    ASSUME NEW O, NEW tokens \in Seq(O)
    PROVE  /\ IsFiniteSet(Internals(tokens)) /\ Cardinality(Internals(tokens)) \in Nat
           /\ Internals(<<>>) = {} /\ Cardinality(Internals(<<>>)) = 0
           /\ \A x \in O :
                 Cardinality(Internals(Append(tokens, x))) =
                    IF x.kind = "internal" THEN Cardinality(Internals(tokens)) + 1
                    ELSE Cardinality(Internals(tokens))
<1> DEFINE n == Len(tokens)
<1>1. n \in Nat /\ DOMAIN tokens = 1..n
  BY LenProperties
<1>2. IsFiniteSet(1..n)
  BY <1>1, FS_Interval
<1>3. IsFiniteSet(Internals(tokens))
  BY <1>1, <1>2, FS_Subset DEF Internals
<1>4. Cardinality(Internals(tokens)) \in Nat
  BY <1>3, FS_CardinalityType
<1>5. Internals(<<>>) = {}
  BY DEF Internals
<1>6. ASSUME NEW x \in O
      PROVE  Cardinality(Internals(Append(tokens, x))) =
                IF x.kind = "internal" THEN Cardinality(Internals(tokens)) + 1
                ELSE Cardinality(Internals(tokens))
  <2> DEFINE u == Append(tokens, x)
             I == Internals(tokens)
  <2>1. u \in Seq(O) /\ Len(u) = n + 1 /\ u[n + 1] = x /\ \A k \in 1..n : u[k] = tokens[k]
    BY AppendProperties
  <2>2. DOMAIN u = 1..(n + 1)
    BY <2>1, LenProperties
  <2> HIDE DEF u
  <2>3. Internals(u) = IF x.kind = "internal" THEN I \cup {n + 1} ELSE I
    <3>1. \A k \in 1..(n + 1) : k \in 1..n \/ k = n + 1
      BY <1>1
    <3>2. \A k \in 1..n : k \in 1..(n + 1) /\ k # n + 1
      BY <1>1
    <3>3. n + 1 \in 1..(n + 1)
      BY <1>1
    <3> HIDE DEF n
    <3> QED
      BY <1>1, <2>1, <2>2, <3>1, <3>2, <3>3 DEF Internals
  <2>4. n + 1 \notin I
    BY <1>1 DEF Internals
  <2>5. Cardinality(I \cup {n + 1}) = Cardinality(I) + 1
    <3> HIDE DEF I, n
    <3> QED
      BY <1>3, <2>4, FS_AddElement DEF I
  <2> QED
    BY <2>3, <2>5 DEF u
<1> QED
  BY <1>3, <1>4, <1>5, <1>6, FS_EmptySet

\* What is said of a written statement: it is a statement, its references are
\* values.
PartOk(source, e) ==
    LET part == Part(source, e)
    IN  /\ First(part).kind = "keyword" /\ First(part).word # "BEGIN"
        /\ \A j \in DOMAIN part : part[j].kind = "reference" => part[j].place = "value"

\* At its end, the tokens of a statement say the same.
LEMMA PartAgrees ==
    ASSUME NEW source, Lexical(source), Clean(source), NEW e \in Ends(source), NEW c,
           CutTokens(source, e - 1, c.tokens),
           Len(c.bound) = Cardinality(Internals(c.tokens))
    PROVE  /\ Visible(c.tokens) = {} <=> e \notin Written(source)
           /\ Visible(c.tokens) = {} => Len(c.bound) = 0
           /\ e \in Written(source) => (StatementOk(c) <=> PartOk(source, e))
<1> DEFINE b == Begin(source, e)
           p == Part(source, e)
           n == e - 1 - b
           q == c.tokens
<1>1. /\ b \in 0..(e - 1) /\ e \in 1..(Len(source) + 1)
      /\ DOMAIN p = 1..n
      /\ \A k \in 1..n : b + k \in 1..Len(source) /\ p[k] = source[b + k]
  BY PartItems
<1>2. Len(source) \in Nat
  BY SourceIsSeq
<1>3. n \in Nat /\ e - 1 + 1 = e
  BY <1>1, <1>2
<1>4. /\ q \in Seq(Output(source)) /\ Len(q) = n
      /\ \A j \in (b + 1)..(e - 1) : q[j - b] = Token(source, j)
  BY <1>3 DEF CutTokens
<1>5. DOMAIN q = 1..n
  BY <1>4, LenProperties
<1>7. ASSUME NEW k \in 1..n PROVE q[k] = Token(source, b + k)
  <2> DEFINE j == b + k
  <2>1. j \in (b + 1)..(e - 1) /\ j - b = k
    BY <1>1, <1>2, <1>3
  <2> HIDE DEF j
  <2>2. q[j - b] = Token(source, j)
    BY <1>4, <2>1
  <2> QED
    BY <2>1, <2>2 DEF j
<1> DEFINE a(k) == b + k
<1>8. \A k \in 1..n : a(k) \in 1..Len(source) /\ p[k] = source[a(k)] /\ q[k] = Token(source, a(k))
  BY <1>1, <1>7
<1> HIDE DEF a, p, q, n
<1>9. \A k \in 1..n :
         /\ q[k].kind = "comment" <=> p[k].kind = "comment"
         /\ q[k].kind = "keyword" <=> p[k].kind = "keyword"
         /\ q[k].kind = "internal" <=> p[k].kind = "reference"
         /\ p[k].kind = "reference" => q[k].place = p[k].place
         /\ p[k].kind # "reference" => q[k] = p[k]
         /\ q[k] # Native("value")
  BY <1>8, TokenKinds DEF IsReference
<1>10. Visible(q) = Visible(p)
  BY <1>1, <1>5, <1>9 DEF Visible, p
<1>11. Visible(q) = {} <=> e \notin Written(source)
  BY <1>10 DEF Written, p
<1>12. Internals(q) \subseteq Visible(q)
  BY DEF Internals, Visible
<1>13. Visible(q) = {} => Len(c.bound) = 0
  <2> HAVE Visible(q) = {}
  <2>1. Internals(q) = {}
    BY <1>12
  <2>2. Cardinality({}) = 0
    BY FS_EmptySet
  <2> QED
    BY <2>1, <2>2 DEF q
<1>14. ASSUME e \in Written(source) PROVE StatementOk(c) <=> PartOk(source, e)
  <2> DEFINE V == Visible(q)
             m == Min(V)
  <2>1. V # {} /\ V \subseteq 1..n
    BY <1>5, <1>11, <1>14 DEF Visible
  <2>2. m \in V
    <3>1. V \subseteq Nat
      BY <1>3, <2>1
    <3> HIDE DEF V
    <3>2. \E x \in V : \A y \in V : x <= y
      BY <2>1, <3>1, LeastExists
    <3> QED
      BY <3>2, Zenon DEF Min
  <2>3. First(q) = q[m] /\ First(p) = p[m]
    BY <1>10 DEF First
  <2> HIDE DEF V, m
  <2>4. m \in 1..n
    BY <2>1, <2>2
  <2>5. /\ First(q).kind = "keyword" <=> First(p).kind = "keyword"
        /\ First(p).kind = "keyword" => First(q) = First(p)
    BY <1>9, <2>3, <2>4
  <2> DEFINE I == Internals(q)
             W == {k \in DOMAIN q : q[k].kind = "internal" /\ q[k].place = "value"}
  <2>6. (Values(q) = Len(c.bound)) <=> W = I
    <3>1. Values(q) = Cardinality(W) /\ W \subseteq I /\ Len(c.bound) = Cardinality(I)
      BY DEF Values, Internals, q
    <3>2. IsFiniteSet(I)
      BY <1>4, InternalsFinite
    <3> HIDE DEF I, W
    <3>3. Cardinality(I) = Cardinality(W) => I = W
      BY <3>1, <3>2, FS_Subset
    <3> QED
      BY <3>1, <3>3
  <2>7. W = I <=> \A k \in 1..n : p[k].kind = "reference" => p[k].place = "value"
    <3>1. W = I <=> \A k \in 1..n : q[k].kind = "internal" => q[k].place = "value"
      BY <1>5 DEF Internals
    <3> QED
      BY <1>9, <3>1
  <2>8. StatementOk(c) <=> /\ First(q).kind = "keyword" /\ First(q).word # "BEGIN"
                           /\ Values(q) = Len(c.bound)
    BY <1>5, <1>9 DEF StatementOk, Parses, TransactionStatement, q
  <2>9. PartOk(source, e) <=>
            /\ First(p).kind = "keyword" /\ First(p).word # "BEGIN"
            /\ \A k \in 1..n : p[k].kind = "reference" => p[k].place = "value"
    BY <1>1 DEF PartOk, p
  <2> HIDE DEF I, W
  <2> QED
    BY <2>5, <2>6, <2>7, <2>8, <2>9
<1> QED
  BY <1>11, <1>13, <1>14 DEF q

\* The second pass, and the statement it makes of a written one.
Statement(source) ==
    [sql: Seq(Output(source)), parameters: Seq(Given(source)), rows: BOOLEAN]
CutType(source) ==
    [next: Nat, tokens: Seq(Output(source)), bound: Seq(Given(source)),
     output: Seq(Statement(source)), ok: BOOLEAN]
StatementOf(source, e, x) ==
    /\ x.sql = Scanned(source)[e - 1].original
    /\ CutBound(source, e - 1, x.parameters)

\* The written statements that have ended, and what has been made of them.
Done(source, i) == {e \in Written(source) : e <= i}
OutInv(source, i, output) ==
    /\ Len(output) = Cardinality(Done(source, i))
    /\ \A e \in Done(source, i) :
          /\ Number(source, e) \in 1..Len(output)
          /\ StatementOf(source, e, output[Number(source, e)])
    /\ \A m \in 1..Len(output) : \E e \in Done(source, i) : m = Number(source, e)
CountInv(output, n) ==
    Bindings(output)[Len(output)] \in Nat /\ Bindings(output)[Len(output)] = n

\* After i tokens: no statement that has ended is wrong; the one that is being
\* read has its tokens and its parameters.
CutOk(source, i, c) ==
    /\ c \in CutType(source)
    /\ c.next = Len(Scanned(source)[i].originals) + 1
    /\ CutTokens(source, i, c.tokens)
    /\ CutBound(source, i, c.bound)
    /\ Len(c.bound) = Cardinality(Internals(c.tokens))
    /\ OutInv(source, i, c.output)
    /\ CountInv(c.output, Len(Scanned(source)[i].parameters) - Len(c.bound))
NoneWrong(source, i) == \A e \in Done(source, i) : PartOk(source, e)
CutInv(source, i, c) ==
    /\ c.ok \in BOOLEAN
    /\ c.ok <=> NoneWrong(source, i)
    /\ c.ok => CutOk(source, i, c)

\* The same behind the end e of a statement.
EndOk(source, e, c) ==
    /\ c \in CutType(source)
    /\ c.next = Len(Scanned(source)[e - 1].originals) + 2
    /\ c.tokens = <<>> /\ c.bound = <<>>
    /\ OutInv(source, e, c.output)
    /\ CountInv(c.output, Len(Scanned(source)[e - 1].parameters))
EndInv(source, e, c) ==
    /\ c.ok \in BOOLEAN
    /\ c.ok <=> NoneWrong(source, e)
    /\ c.ok => EndOk(source, e, c)

LEMMA DoneSteps ==
    ASSUME NEW source, Lexical(source)
    PROVE  /\ Done(source, 0) = {}
           /\ \A i \in 1..(Len(source) + 1) :
                 Done(source, i) = IF i \in Written(source) THEN Done(source, i - 1) \cup {i}
                                   ELSE Done(source, i - 1)
           /\ \A i \in 0..(Len(source) + 1) : IsFiniteSet(Done(source, i))
           /\ Done(source, Len(source) + 1) = Written(source)
           /\ \A i \in 0..(Len(source) + 1) : Done(source, i) \subseteq 1..i
<1>1. Len(source) \in Nat
  BY SourceIsSeq
<1>2. Written(source) \subseteq 1..(Len(source) + 1)
  BY DEF Written, Ends
<1>3. IsFiniteSet(1..(Len(source) + 1))
  BY <1>1, FS_Interval
<1>4. ASSUME NEW i \in 0..(Len(source) + 1) PROVE IsFiniteSet(Done(source, i))
  <2>1. Done(source, i) \subseteq 1..(Len(source) + 1)
    BY <1>2 DEF Done
  <2> QED
    BY <1>3, <2>1, FS_Subset
<1>5. ASSUME NEW i \in 1..(Len(source) + 1)
      PROVE  Done(source, i) = IF i \in Written(source) THEN Done(source, i - 1) \cup {i}
                               ELSE Done(source, i - 1)
  <2>1. \A e \in Written(source) : e <= i <=> (e <= i - 1 \/ e = i)
    BY <1>1, <1>2
  <2> QED
    BY <2>1 DEF Done
<1>6. Done(source, 0) = {} /\ Done(source, Len(source) + 1) = Written(source)
  BY <1>1, <1>2 DEF Done
<1>7. \A i \in 0..(Len(source) + 1) : Done(source, i) \subseteq 1..i
  BY <1>1, <1>2 DEF Done
<1> QED
  BY <1>4, <1>5, <1>6, <1>7

\* A statement more adds its parameters to the count.
LEMMA BindingsAppend ==
    ASSUME NEW T, NEW o \in Seq(T), NEW x \in T
    PROVE  Bindings(Append(o, x))[Len(o) + 1] = Bindings(o)[Len(o)] + Len(x.parameters)
<1> DEFINE u == Append(o, x)
           n == Len(o)
           Good == {k \in 0..n : Bindings(u)[k] = Bindings(o)[k]}
<1>1. n \in Nat /\ Len(u) = n + 1 /\ u[n + 1] = x /\ \A k \in 1..n : u[k] = o[k]
  BY AppendProperties, LenProperties
<1> HIDE DEF u
<1>2. /\ Bindings(u)[0] = 0
      /\ \A i \in 1..(n + 1) : Bindings(u)[i] = Bindings(u)[i - 1] + Len(u[i].parameters)
  <2>1. Len(u) \in Nat
    BY <1>1
  <2> QED
    BY <1>1, <2>1, BindingsRecursion
<1>3. /\ Bindings(o)[0] = 0
      /\ \A i \in 1..n : Bindings(o)[i] = Bindings(o)[i - 1] + Len(o[i].parameters)
  BY <1>1, BindingsRecursion
<1> HIDE DEF n
<1>4. 0 \in Good
  BY <1>1, <1>2, <1>3
<1>5. ASSUME NEW k \in 0..(n - 1), k \in Good PROVE k + 1 \in Good
  <2>1. k + 1 \in 1..n /\ k + 1 \in 1..(n + 1) /\ k + 1 \in 0..n /\ k + 1 - 1 = k
    BY <1>1
  <2> DEFINE j == k + 1
  <2>2. j \in 1..n /\ j \in 1..(n + 1) /\ j - 1 = k
    BY <2>1
  <2> HIDE DEF j
  <2>3. Bindings(u)[j] = Bindings(o)[j]
    BY <1>1, <1>2, <1>3, <1>5, <2>2
  <2> QED
    BY <2>1, <2>3 DEF j
<1>6. \A k \in 0..n : k \in Good
  <2> HIDE DEF Good
  <2> QED
    BY <1>1, <1>4, <1>5, Induction
<1>7. Bindings(u)[n] = Bindings(o)[n]
  BY <1>1, <1>6
<1>8. n + 1 \in 1..(n + 1) /\ n + 1 - 1 = n
  BY <1>1
<1>9. Bindings(u)[n + 1] = Bindings(u)[n] + Len(x.parameters)
  <2> DEFINE j == n + 1
  <2>1. j \in 1..(n + 1) /\ j - 1 = n /\ u[j] = x
    BY <1>1, <1>8
  <2> HIDE DEF j
  <2>2. Bindings(u)[j] = Bindings(u)[n] + Len(x.parameters)
    BY <1>2, <2>1
  <2> QED
    BY <2>2 DEF j
<1> QED
  BY <1>7, <1>9 DEF u, n

\* What a statement more adds to the output.
LEMMA OutAppend ==
    ASSUME NEW source, Lexical(source), NEW e \in Written(source),
           NEW o \in Seq(Statement(source)), NEW x \in Statement(source),
           OutInv(source, e - 1, o), StatementOf(source, e, x)
    PROVE  OutInv(source, e, Append(o, x))
<1> DEFINE u == Append(o, x)
           n == Len(o)
           D == Done(source, e - 1)
<1>1. e \in 1..(Len(source) + 1) /\ Len(source) \in Nat
  BY SourceIsSeq DEF Written, Ends
<1>2. e - 1 \in 0..(Len(source) + 1) /\ e - 1 \in Nat /\ e \in Nat
  BY <1>1
<1>3. /\ Done(source, e) = D \cup {e} /\ IsFiniteSet(D) /\ D \subseteq 1..(e - 1)
  BY <1>1, <1>2, DoneSteps
<1>4. e \notin D
  BY <1>2, <1>3
<1>5. n \in Nat /\ Len(u) = n + 1 /\ u[n + 1] = x /\ \A k \in 1..n : u[k] = o[k]
  BY AppendProperties, LenProperties
<1>6. /\ n = Cardinality(D)
      /\ \A d \in D : Number(source, d) \in 1..n /\ StatementOf(source, d, o[Number(source, d)])
      /\ \A m \in 1..n : \E d \in D : m = Number(source, d)
  BY DEF OutInv
<1> HIDE DEF u, n, D
<1>7. Cardinality(D \cup {e}) = n + 1
  BY <1>3, <1>4, <1>6, FS_AddElement
<1>8. Number(source, e) = n + 1
  BY <1>3, <1>7 DEF Number, Done
<1>9. ASSUME NEW d \in D \cup {e}
      PROVE  Number(source, d) \in 1..(n + 1) /\ StatementOf(source, d, u[Number(source, d)])
  <2>1. CASE d = e
    BY <1>5, <1>8, <2>1
  <2>2. CASE d # e
    <3>1. Number(source, d) \in 1..n /\ StatementOf(source, d, o[Number(source, d)])
      BY <1>6, <2>2
    <3>2. u[Number(source, d)] = o[Number(source, d)]
      BY <1>5, <3>1
    <3> QED
      BY <1>5, <3>1, <3>2
  <2> QED
    BY <2>1, <2>2
<1>10. ASSUME NEW m \in 1..(n + 1) PROVE \E d \in D \cup {e} : m = Number(source, d)
  <2>1. m = n + 1 \/ m \in 1..n
    BY <1>5
  <2> QED
    BY <1>6, <1>8, <2>1
<1> QED
  BY <1>3, <1>5, <1>7, <1>9, <1>10 DEF OutInv, u

\* One item more of the statement that is being read.
LEMMA TokensAppend ==
    ASSUME NEW source, Lexical(source), NEW i \in 1..Len(source), source[i] # SemiColon,
           NEW q, CutTokens(source, i - 1, q)
    PROVE  CutTokens(source, i, Append(q, Token(source, i)))
<1> DEFINE b == Begin(source, i)
           x == Token(source, i)
           u == Append(q, x)
<1>1. Len(source) \in Nat /\ i \in Nat /\ i - 1 + 1 = i /\ i \in 1..(Len(source) + 1)
  BY SourceIsSeq
<1>2. Begin(source, i + 1) = b /\ b \in 0..(i - 1)
  BY <1>1, BeginStep, BeginIsLast
<1>3. q \in Seq(Output(source)) /\ Len(q) = i - 1 - b
      /\ \A j \in (b + 1)..(i - 1) : q[j - b] = Token(source, j)
  BY <1>1 DEF CutTokens
<1>4. x \in Output(source)
  BY TokenCases
<1> HIDE DEF x, b
<1>5. /\ u \in Seq(Output(source)) /\ Len(u) = Len(q) + 1 /\ u[Len(q) + 1] = x
      /\ \A k \in 1..Len(q) : u[k] = q[k]
  BY <1>3, <1>4, AppendProperties
<1> HIDE DEF u
<1>6. Len(u) = i - b /\ u[i - b] = x /\ \A k \in 1..(i - 1 - b) : u[k] = q[k]
  BY <1>1, <1>2, <1>3, <1>5
<1>7. ASSUME NEW j \in (b + 1)..i PROVE u[j - b] = Token(source, j)
  <2>1. CASE j = i
    BY <1>6, <2>1 DEF x
  <2>2. CASE j # i
    <3>1. j \in (b + 1)..(i - 1) /\ j - b \in 1..(i - 1 - b)
      BY <1>1, <1>2, <2>2
    <3> QED
      BY <1>3, <1>6, <3>1
  <2> QED
    BY <2>1, <2>2
<1> QED
  BY <1>2, <1>5, <1>6, <1>7 DEF CutTokens, u, x

LEMMA BoundStep ==
    ASSUME NEW source, Lexical(source), NEW i \in 1..Len(source), source[i] # SemiColon,
           NEW q, CutBound(source, i - 1, q)
    PROVE  /\ IsReference(source, i) => CutBound(source, i, Append(q, source[i].of))
           /\ ~IsReference(source, i) => CutBound(source, i, q)
<1> DEFINE S(j) == Scanned(source)[j]
           b == Begin(source, i)
           n == S(i - 1).local
<1>1. Len(source) \in Nat /\ i \in Nat /\ i - 1 + 1 = i /\ i \in 1..(Len(source) + 1)
  BY SourceIsSeq
<1>2. Begin(source, i + 1) = b /\ b \in 0..(i - 1)
  BY <1>1, BeginStep, BeginIsLast
<1>3. q \in Seq(Given(source)) /\ Len(q) = n
      /\ \A j \in (b + 1)..(i - 1) : IsReference(source, j) =>
            S(j).local \in 1..n /\ q[S(j).local] = source[j].of
  BY <1>1 DEF CutBound
<1>4. n \in Nat /\ (IsReference(source, i) => S(i).local = n + 1)
      /\ (~IsReference(source, i) => S(i).local = n)
  <2>1. ScanNumbers(source, i)
    BY ScanNumbersHold
  <2> QED
    BY <2>1 DEF ScanNumbers, NumbersStep
<1>5. \A j \in (b + 1)..i : j = i \/ j \in (b + 1)..(i - 1)
  BY <1>1, <1>2
<1> HIDE DEF S, b, n
<1>6. ASSUME IsReference(source, i) PROVE CutBound(source, i, Append(q, source[i].of))
  <2> DEFINE x == source[i].of
             u == Append(q, x)
  <2>1. x \in Given(source)
    BY <1>6, SourceIsSeq DEF Given
  <2> HIDE DEF x
  <2>2. /\ u \in Seq(Given(source)) /\ Len(u) = n + 1 /\ u[n + 1] = x
        /\ \A k \in 1..n : u[k] = q[k]
    BY <1>3, <2>1, AppendProperties
  <2> HIDE DEF u
  <2>3. ASSUME NEW j \in (b + 1)..i, IsReference(source, j)
        PROVE  S(j).local \in 1..(n + 1) /\ u[S(j).local] = source[j].of
    <3>1. CASE j = i
      BY <1>4, <1>6, <2>2, <3>1 DEF x
    <3>2. CASE j # i
      <4> DEFINE m == S(j).local
      <4>1. m \in 1..n /\ q[m] = source[j].of
        BY <1>3, <1>5, <2>3, <3>2
      <4> HIDE DEF m
      <4>2. m \in 1..(n + 1) /\ u[m] = source[j].of
        BY <1>4, <2>2, <4>1
      <4> QED
        BY <4>2 DEF m
    <3> QED
      BY <3>1, <3>2
  <2>4. Len(u) = S(i).local
    BY <1>4, <1>6, <2>2
  <2> QED
    BY <1>2, <2>2, <2>3, <2>4 DEF CutBound, u, x, S
<1>7. ASSUME ~IsReference(source, i) PROVE CutBound(source, i, q)
  <2>1. ASSUME NEW j \in (b + 1)..i, IsReference(source, j)
        PROVE  S(j).local \in 1..n /\ q[S(j).local] = source[j].of
    BY <1>3, <1>5, <1>7, <2>1
  <2>2. Len(q) = S(i).local
    BY <1>3, <1>4, <1>7
  <2> QED
    BY <1>2, <1>3, <2>1, <2>2 DEF CutBound, S
<1> QED
  BY <1>6, <1>7

LEMMA CutItemStep ==
    ASSUME NEW source, Lexical(source), Clean(source), NEW s, ScanFacts(source, s),
           NEW i \in 1..Len(source), source[i] # SemiColon,
           NEW c, CutInv(source, i - 1, c), NEW t, t = CutToken(s, c, Token(source, i))
    PROVE  CutInv(source, i, t)
<1> DEFINE S(j) == Scanned(source)[j]
           x == Token(source, i)
<1>1. Len(source) \in Nat /\ i \in 1..(Len(source) + 1) /\ i # Len(source) + 1
  BY SourceIsSeq
<1>2. Done(source, i) = Done(source, i - 1)
  <2>1. i \notin Written(source)
    BY <1>1 DEF Written, Ends
  <2> QED
    BY <1>1, <2>1, DoneSteps
<1>3. NoneWrong(source, i) <=> NoneWrong(source, i - 1)
  BY <1>2 DEF NoneWrong
<1>4. /\ x \in Output(source) /\ x.kind # "semicolon"
      /\ x.kind = "internal" <=> IsReference(source, i)
      /\ IsReference(source, i) =>
            /\ x.n \in DOMAIN s.parameters /\ s.parameters[x.n] = source[i].of
      /\ x # Native("token")
  BY TokenKinds DEF ScanFacts
<1>5. /\ Len(S(i - 1).parameters) \in Nat
      /\ IsReference(source, i) => Len(S(i).parameters) = Len(S(i - 1).parameters) + 1
      /\ ~IsReference(source, i) => Len(S(i).parameters) = Len(S(i - 1).parameters)
      /\ Len(S(i).originals) = Len(S(i - 1).originals)
  <2>1. ScanNumbers(source, i)
    BY ScanNumbersHold
  <2> QED
    BY <2>1 DEF ScanNumbers, NumbersStep
<1>6. CASE ~c.ok
  <2>1. t = c
    BY <1>6 DEF CutToken
  <2> QED
    BY <1>3, <1>6, <2>1 DEF CutInv
<1>7. CASE c.ok
  <2>1. CutOk(source, i - 1, c) /\ NoneWrong(source, i)
    BY <1>3, <1>7 DEF CutInv
  <2>2. /\ c \in CutType(source) /\ c.next = Len(S(i - 1).originals) + 1
        /\ CutTokens(source, i - 1, c.tokens) /\ CutBound(source, i - 1, c.bound)
        /\ Len(c.bound) = Cardinality(Internals(c.tokens))
        /\ OutInv(source, i - 1, c.output)
        /\ CountInv(c.output, Len(S(i - 1).parameters) - Len(c.bound))
    BY <2>1 DEF CutOk
  <2> HIDE DEF S, x
  <2>3. OutInv(source, i, c.output)
    BY <1>2, <2>2 DEF OutInv
  <2>4. /\ c.tokens \in Seq(Output(source)) /\ c.bound \in Seq(Given(source))
        /\ c.output \in Seq(Statement(source)) /\ c.next \in Nat
    BY <2>2 DEF CutType
  <2>5. Len(c.bound) \in Nat
    BY <2>4, LenProperties
  <2>6. CutTokens(source, i, Append(c.tokens, x))
    BY <2>2, TokensAppend DEF x
  <2>7. Append(c.tokens, x) \in Seq(Output(source))
    BY <2>6 DEF CutTokens
  <2>8. Cardinality(Internals(Append(c.tokens, x))) =
           IF x.kind = "internal" THEN Len(c.bound) + 1 ELSE Len(c.bound)
    <3> DEFINE q == c.tokens
               O == Output(source)
    <3>1. q \in Seq(O) /\ x \in O /\ Len(c.bound) = Cardinality(Internals(q))
      BY <1>4, <2>2, <2>4
    <3> HIDE DEF q, O
    <3>2. Cardinality(Internals(Append(q, x))) =
             IF x.kind = "internal" THEN Cardinality(Internals(q)) + 1
             ELSE Cardinality(Internals(q))
      BY <3>1, InternalsFinite
    <3> QED
      BY <3>1, <3>2 DEF q
  <2>9. CASE IsReference(source, i)
    <3> DEFINE y == source[i].of
    <3>1. t = [c EXCEPT !.tokens = Append(@, x), !.bound = Append(@, s.parameters[x.n])]
      BY <1>4, <1>7, <2>9 DEF CutToken, x
    <3>2. s.parameters[x.n] = y
      BY <1>4, <2>9
    <3>3. /\ t.tokens = Append(c.tokens, x) /\ t.bound = Append(c.bound, y)
          /\ t.next = c.next /\ t.output = c.output /\ t.ok = c.ok
          /\ t = [next |-> t.next, tokens |-> t.tokens, bound |-> t.bound,
                  output |-> t.output, ok |-> t.ok]
      BY <2>2, <3>1, <3>2 DEF CutType
    <3>4. CutBound(source, i, t.bound)
      BY <2>2, <2>9, <3>3, BoundStep
    <3>5. t.bound \in Seq(Given(source))
      BY <3>4 DEF CutBound
    <3>6. Len(t.bound) = Len(c.bound) + 1
      <4> DEFINE q == c.bound
      <4>1. q \in Seq(Given(source)) /\ y \in Given(source) /\ t.bound = Append(q, y)
        BY <2>4, <2>9, <3>3, SourceIsSeq DEF Given
      <4> HIDE DEF q, y
      <4>2. Len(t.bound) = Len(q) + 1
        BY <4>1, AppendProperties
      <4> QED
        BY <4>2 DEF q
    <3>7. t \in CutType(source)
      BY <1>7, <2>4, <2>7, <3>3, <3>5 DEF CutType
    <3>8. Len(t.bound) = Cardinality(Internals(t.tokens))
      BY <1>4, <2>8, <2>9, <3>3, <3>6
    <3>9. CountInv(t.output, Len(S(i).parameters) - Len(t.bound))
      <4>1. Len(S(i).parameters) - Len(t.bound) = Len(S(i - 1).parameters) - Len(c.bound)
        BY <1>5, <2>5, <2>9, <3>6
      <4> QED
        BY <2>2, <3>3, <4>1
    <3>10. t.next = Len(S(i).originals) + 1
      BY <1>5, <2>2, <3>3
    <3>11. CutOk(source, i, t)
      BY <2>3, <2>6, <3>3, <3>4, <3>7, <3>8, <3>9, <3>10 DEF CutOk, S
    <3> QED
      BY <1>7, <2>1, <3>3, <3>11 DEF CutInv
  <2>10. CASE ~IsReference(source, i)
    <3>1. t = [c EXCEPT !.tokens = Append(@, x)]
      BY <1>4, <1>7, <2>10 DEF CutToken, x
    <3>2. /\ t.tokens = Append(c.tokens, x) /\ t.bound = c.bound
          /\ t.next = c.next /\ t.output = c.output /\ t.ok = c.ok
          /\ t = [next |-> t.next, tokens |-> t.tokens, bound |-> t.bound,
                  output |-> t.output, ok |-> t.ok]
      BY <2>2, <3>1 DEF CutType
    <3>3. CutBound(source, i, t.bound)
      BY <2>2, <2>10, <3>2, BoundStep
    <3>4. t \in CutType(source)
      BY <1>7, <2>4, <2>7, <3>2 DEF CutType
    <3>5. Len(t.bound) = Cardinality(Internals(t.tokens))
      BY <1>4, <2>8, <2>10, <3>2
    <3>6. CountInv(t.output, Len(S(i).parameters) - Len(t.bound))
      BY <1>5, <2>2, <2>10, <3>2
    <3>7. t.next = Len(S(i).originals) + 1
      BY <1>5, <2>2, <3>2
    <3>8. CutOk(source, i, t)
      BY <2>3, <2>6, <3>2, <3>3, <3>4, <3>5, <3>6, <3>7 DEF CutOk, S
    <3> QED
      BY <1>7, <2>1, <3>2, <3>8 DEF CutInv
  <2> QED
    BY <2>9, <2>10
<1> QED
  BY <1>6, <1>7 DEF CutInv

\* The end of a statement.
LEMMA CutEndStep ==
    ASSUME NEW source, Lexical(source), Clean(source), NEW s, ScanFacts(source, s),
           NEW e \in Ends(source), NEW c, CutInv(source, e - 1, c),
           NEW t, t = CutToken(s, c, SemiColon)
    PROVE  EndInv(source, e, t)
<1> DEFINE S(j) == Scanned(source)[j]
           W == e \in Written(source)
<1>1. Len(source) \in Nat /\ e \in 1..(Len(source) + 1) /\ e - 1 \in 0..Len(source)
  BY SourceIsSeq DEF Ends
<1>2. Done(source, e) = IF W THEN Done(source, e - 1) \cup {e} ELSE Done(source, e - 1)
  BY <1>1, DoneSteps
<1>3. NoneWrong(source, e) <=> NoneWrong(source, e - 1) /\ (W => PartOk(source, e))
  BY <1>2 DEF NoneWrong
<1>5. CASE ~c.ok
  <2>1. t = c
    BY <1>5 DEF CutToken
  <2> QED
    BY <1>3, <1>5, <2>1 DEF CutInv, EndInv
<1>6. CASE c.ok
  <2>1. CutOk(source, e - 1, c) /\ NoneWrong(source, e - 1)
    BY <1>6 DEF CutInv
  <2>2. /\ c \in CutType(source) /\ c.next = Len(S(e - 1).originals) + 1
        /\ CutTokens(source, e - 1, c.tokens) /\ CutBound(source, e - 1, c.bound)
        /\ Len(c.bound) = Cardinality(Internals(c.tokens))
        /\ OutInv(source, e - 1, c.output)
        /\ CountInv(c.output, Len(S(e - 1).parameters) - Len(c.bound))
    BY <2>1 DEF CutOk
  <2>3. t = EndStatement(s, c)
    BY <1>6 DEF CutToken, SemiColon, Native
  <2>4. c.next \in DOMAIN s.originals /\ s.originals[c.next] = S(e - 1).original
    BY <2>2 DEF ScanFacts
  <2> DEFINE empty == Visible(c.tokens) = {}
             x == [sql |-> s.originals[c.next], parameters |-> c.bound,
                   rows |-> ReturnsRows(c.tokens)]
  <2>5. /\ empty <=> ~W
        /\ empty => Len(c.bound) = 0
        /\ W => (StatementOk(c) <=> PartOk(source, e))
    BY <2>2, PartAgrees
  <2>6. t = IF ~empty /\ ~StatementOk(c) THEN Failed(c)
            ELSE [c EXCEPT !.next = @ + 1, !.tokens = <<>>, !.bound = <<>>,
                           !.output = IF empty THEN @ ELSE Append(@, x)]
    BY <2>3, <2>4 DEF EndStatement
  <2>7. /\ c.tokens \in Seq(Output(source)) /\ c.bound \in Seq(Given(source))
        /\ c.output \in Seq(Statement(source)) /\ c.next \in Nat
    BY <2>2 DEF CutType
  <2>8. Len(S(e - 1).parameters) \in Nat /\ S(e - 1).original \in Seq(Output(source))
    <3>1. ScannedInv(source, e - 1, S(e - 1))
      BY <1>1, ScannedInvHolds
    <3>2. S(e - 1).parameters \in Seq(Given(source)) /\ S(e - 1).original \in Seq(Output(source))
      BY <3>1 DEF ScannedInv, ScanType
    <3> QED
      BY <3>2, LenProperties
  <2>9. Len(c.bound) \in Nat
    BY <2>7, LenProperties
  <2> HIDE DEF S, empty, x
  <2>10. CASE ~empty /\ ~StatementOk(c)
    <3>1. t = Failed(c)
      BY <2>6, <2>10
    <3>2. t.ok = FALSE
      BY <2>2, <3>1 DEF Failed, CutType
    <3> QED
      BY <1>3, <2>5, <2>10, <3>2 DEF EndInv
  <2>11. CASE empty
    <3>1. t = [c EXCEPT !.next = @ + 1, !.tokens = <<>>, !.bound = <<>>, !.output = @]
      BY <2>6, <2>11
    <3>2. /\ t.tokens = <<>> /\ t.bound = <<>> /\ t.next = c.next + 1
          /\ t.output = c.output /\ t.ok = c.ok
          /\ t = [next |-> t.next, tokens |-> t.tokens, bound |-> t.bound,
                  output |-> t.output, ok |-> t.ok]
      BY <2>2, <3>1 DEF CutType
    <3>3. t \in CutType(source)
      <4>1. t.next \in Nat /\ t.tokens \in Seq(Output(source)) /\ t.bound \in Seq(Given(source))
            /\ t.output \in Seq(Statement(source)) /\ t.ok \in BOOLEAN
        BY <1>6, <2>7, <3>2, EmptySeq
      <4> QED
        BY <3>2, <4>1 DEF CutType
    <3>4. OutInv(source, e, t.output)
      BY <1>2, <2>2, <2>5, <2>11, <3>2 DEF OutInv
    <3>5. CountInv(t.output, Len(S(e - 1).parameters))
      <4> DEFINE n == Len(S(e - 1).parameters)
      <4>1. n - Len(c.bound) = n
        <5>1. n \in Nat /\ Len(c.bound) = 0
          BY <2>5, <2>8, <2>11
        <5> HIDE DEF n
        <5> QED
          BY <5>1
      <4> QED
        BY <2>2, <3>2, <4>1
    <3>6. t.next = Len(S(e - 1).originals) + 2
      BY <2>2, <2>7, <3>2
    <3>7. EndOk(source, e, t)
      BY <3>2, <3>3, <3>4, <3>5, <3>6 DEF EndOk, S
    <3> QED
      BY <1>3, <1>6, <2>1, <2>5, <2>11, <3>2, <3>7 DEF EndInv
  <2>12. CASE ~empty /\ StatementOk(c)
    <3>1. t = [c EXCEPT !.next = @ + 1, !.tokens = <<>>, !.bound = <<>>,
                        !.output = Append(@, x)]
      BY <2>6, <2>12
    <3>2. /\ t.tokens = <<>> /\ t.bound = <<>> /\ t.next = c.next + 1
          /\ t.output = Append(c.output, x) /\ t.ok = c.ok
          /\ t = [next |-> t.next, tokens |-> t.tokens, bound |-> t.bound,
                  output |-> t.output, ok |-> t.ok]
      BY <2>2, <3>1 DEF CutType
    <3>3. x.sql = S(e - 1).original /\ x.parameters = c.bound
      BY <2>4 DEF x
    <3>4. x \in Statement(source)
      BY <2>4, <2>7, <2>8 DEF x, Statement, ReturnsRows
    <3>5. StatementOf(source, e, x)
      BY <2>2, <3>3 DEF StatementOf, S
    <3> HIDE DEF W
    <3> DEFINE o == c.output
               T == Statement(source)
    <3>6. OutInv(source, e, t.output)
      <4>1. e \in Written(source) /\ o \in Seq(T) /\ OutInv(source, e - 1, o)
            /\ t.output = Append(o, x)
        BY <2>2, <2>5, <2>7, <2>12, <3>2 DEF W
      <4> HIDE DEF o
      <4> QED
        BY <3>4, <3>5, <4>1, OutAppend
    <3>7. t.output \in Seq(T) /\ Len(t.output) = Len(o) + 1
          /\ Bindings(t.output)[Len(o) + 1] = Bindings(o)[Len(o)] + Len(x.parameters)
      <4>1. o \in Seq(T) /\ x \in T /\ t.output = Append(o, x)
        BY <2>7, <3>2, <3>4
      <4> HIDE DEF o, T
      <4>2. Append(o, x) \in Seq(T) /\ Len(Append(o, x)) = Len(o) + 1
        BY <4>1, AppendProperties
      <4>3. Bindings(Append(o, x))[Len(o) + 1] = Bindings(o)[Len(o)] + Len(x.parameters)
        BY <4>1, BindingsAppend
      <4> QED
        BY <4>1, <4>2, <4>3
    <3>8. CountInv(t.output, Len(S(e - 1).parameters))
      <4>1. Bindings(o)[Len(o)] = Len(S(e - 1).parameters) - Len(c.bound)
        BY <2>2 DEF CountInv
      <4>2. Bindings(t.output)[Len(t.output)] = Len(S(e - 1).parameters)
        <5> HIDE DEF o
        <5> QED
          BY <2>8, <2>9, <3>3, <3>7, <4>1
      <4> QED
        BY <2>8, <4>2 DEF CountInv
    <3>9. t \in CutType(source)
      <4>1. t.next \in Nat /\ t.tokens \in Seq(Output(source)) /\ t.bound \in Seq(Given(source))
            /\ t.output \in Seq(Statement(source)) /\ t.ok \in BOOLEAN
        BY <1>6, <2>7, <3>2, <3>7, EmptySeq
      <4> QED
        BY <3>2, <4>1 DEF CutType
    <3>10. t.next = Len(S(e - 1).originals) + 2
      BY <2>2, <2>7, <3>2
    <3>11. EndOk(source, e, t)
      BY <3>2, <3>6, <3>8, <3>9, <3>10 DEF EndOk, S
    <3> QED
      BY <1>3, <1>6, <2>1, <2>5, <2>12, <3>2, <3>11 DEF EndInv, W
  <2> QED
    BY <2>10, <2>11, <2>12
<1> QED
  BY <1>5, <1>6 DEF CutInv

\* Behind an end the next statement is empty.
LEMMA NextStatement ==
    ASSUME NEW source, Lexical(source), NEW e \in 1..Len(source), source[e] = SemiColon,
           NEW c, EndInv(source, e, c)
    PROVE  CutInv(source, e, c)
<1> DEFINE S(j) == Scanned(source)[j]
<1>1. Len(source) \in Nat
  BY SourceIsSeq
<1>2. Begin(source, e + 1) = e
  BY BeginStep
<1>3. /\ Len(S(e - 1).parameters) \in Nat /\ Len(S(e - 1).originals) \in Nat
      /\ Len(S(e).parameters) = Len(S(e - 1).parameters)
      /\ Len(S(e).originals) = Len(S(e - 1).originals) + 1 /\ S(e).local = 0
  <2>1. ScanNumbers(source, e)
    BY ScanNumbersHold
  <2> QED
    BY <2>1 DEF ScanNumbers, NumbersStep
<1> HIDE DEF S
<1>4. ASSUME c.ok PROVE CutOk(source, e, c)
  <2>1. /\ c \in CutType(source) /\ c.next = Len(S(e - 1).originals) + 2
        /\ c.tokens = <<>> /\ c.bound = <<>> /\ OutInv(source, e, c.output)
        /\ CountInv(c.output, Len(S(e - 1).parameters))
    BY <1>4 DEF EndInv, EndOk, S
  <2>2. CutTokens(source, e, c.tokens)
    BY <1>1, <1>2, <2>1 DEF CutTokens
  <2>3. CutBound(source, e, c.bound)
    BY <1>1, <1>2, <1>3, <2>1 DEF CutBound, S
  <2>4. Len(c.bound) = Cardinality(Internals(c.tokens)) /\ Len(c.bound) = 0
    <3>1. <<>> \in Seq(Output(source))
      OBVIOUS
    <3>2. Cardinality(Internals(<<>>)) = 0
      BY <3>1, InternalsFinite
    <3> QED
      BY <2>1, <3>2
  <2>5. CountInv(c.output, Len(S(e).parameters) - Len(c.bound))
    <3>1. Len(S(e).parameters) - Len(c.bound) = Len(S(e - 1).parameters)
      BY <1>3, <2>4
    <3> QED
      BY <2>1, <3>1
  <2>6. c.next = Len(S(e).originals) + 1
    BY <1>3, <2>1
  <2> QED
    BY <2>1, <2>2, <2>3, <2>4, <2>5, <2>6 DEF CutOk, S
<1> QED
  BY <1>4 DEF EndInv, CutInv

LEMMA CutInvHolds ==
    ASSUME NEW source, Lexical(source), Clean(source)
    PROVE  EndInv(source, Len(source) + 1, Cut(Scan(source))[Len(source) + 1])
<1> DEFINE L == Len(source)
           s == Scan(source)
           C(i) == Cut(s)[i]
           Good == {i \in 0..L : CutInv(source, i, C(i))}
<1>1. L \in Nat
  BY SourceIsSeq
<1>2. ScanFacts(source, s)
  BY ScanFactsHold
<1>3. /\ Len(Tokens(s)) = L + 1 /\ Tokens(s)[L + 1] = SemiColon
      /\ \A i \in 1..L : Tokens(s)[i] = Token(source, i)
  BY <1>2 DEF ScanFacts
<1> HIDE DEF L, s
<1>4. C(0) = Uncut /\ \A i \in 1..(L + 1) : C(i) = CutToken(s, C(i - 1), Tokens(s)[i])
  <2>1. Len(Tokens(s)) \in Nat
    BY <1>1, <1>3
  <2> QED
    BY <1>3, <2>1, CutRecursion
<1> HIDE DEF C
<1>5. 0 \in Good
  <2>1. Scanned(source)[0] = Unscanned /\ Begin(source, 1) = 0 /\ Done(source, 0) = {}
    BY ScanNumbersHold, BeginStep, DoneSteps
  <2>2. /\ Len(Unscanned.originals) = 0 /\ Len(Unscanned.parameters) = 0 /\ Unscanned.local = 0
    BY DEF Unscanned
  <2>3. /\ Uncut.next = 1 /\ Uncut.tokens = <<>> /\ Uncut.bound = <<>> /\ Uncut.output = <<>>
        /\ Uncut.ok = TRUE /\ Uncut \in CutType(source)
    BY DEF Uncut, CutType
  <2>4. CutTokens(source, 0, <<>>)
    BY <2>1 DEF CutTokens
  <2>5. CutBound(source, 0, <<>>)
    BY <2>1, <2>2 DEF CutBound
  <2>6. Len(<<>>) = Cardinality(Internals(<<>>)) /\ Len(<<>>) = 0
    <3>1. <<>> \in Seq(Output(source))
      OBVIOUS
    <3>2. Cardinality(Internals(<<>>)) = 0
      BY <3>1, InternalsFinite
    <3> QED
      BY <3>2
  <2>7. OutInv(source, 0, <<>>)
    <3>1. Len(<<>>) = Cardinality({}) /\ 1..Len(<<>>) = {}
      BY <2>6, FS_EmptySet
    <3> QED
      BY <2>1, <3>1 DEF OutInv
  <2>8. CountInv(<<>>, 0)
    <3>1. Len(<<>>) = 0 /\ Len(<<>>) \in Nat
      OBVIOUS
    <3>2. Bindings(<<>>)[0] = 0
      BY <3>1, BindingsRecursion
    <3> QED
      BY <3>1, <3>2 DEF CountInv
  <2>9. CutOk(source, 0, Uncut)
    <3>1. Len(Scanned(source)[0].parameters) - Len(Uncut.bound) = 0
          /\ Uncut.next = Len(Scanned(source)[0].originals) + 1
      <4> DEFINE n == Len(Scanned(source)[0].parameters)
                 m == Len(Scanned(source)[0].originals)
                 k == Len(Uncut.bound)
                 x == Uncut.next
      <4>1. n = 0 /\ m = 0 /\ k = 0 /\ x = 1
        BY <2>1, <2>2, <2>3
      <4> HIDE DEF n, m, k, x
      <4>2. n - k = 0 /\ x = m + 1
        BY <4>1
      <4> QED
        BY <4>2 DEF n, m, k, x
    <3> QED
      BY <2>3, <2>4, <2>5, <2>6, <2>7, <2>8, <3>1 DEF CutOk
  <2>10. NoneWrong(source, 0)
    BY <2>1 DEF NoneWrong
  <2>11. CutInv(source, 0, Uncut)
    BY <2>3, <2>9, <2>10 DEF CutInv
  <2> QED
    BY <1>1, <1>4, <2>11
<1>6. ASSUME NEW i \in 0..(L - 1), i \in Good PROVE i + 1 \in Good
  <2> DEFINE k == i + 1
             c == C(i)
             t == C(k)
  <2>1. k \in 1..L /\ k - 1 = i /\ k \in 0..L /\ k \in 1..(L + 1)
    BY <1>1
  <2>2. CutInv(source, k - 1, c)
    BY <1>6, <2>1
  <2>3. t = CutToken(s, c, Token(source, k))
    BY <1>3, <1>4, <2>1
  <2> HIDE DEF k, c, t
  <2>4. CASE source[k] = SemiColon
    <3>1. Token(source, k) = SemiColon
      BY <2>4 DEF Token, TokenOf, Rewritten, IsReference, SemiColon
    <3>2. k \in Ends(source)
      BY <2>1, <2>4 DEF Ends, L
    <3>3. EndInv(source, k, t)
      BY <1>2, <2>2, <2>3, <3>1, <3>2, CutEndStep
    <3>4. CutInv(source, k, t)
      BY <2>1, <2>4, <3>3, NextStatement DEF L
    <3> QED
      BY <2>1, <3>4 DEF k, t
  <2>5. CASE source[k] # SemiColon
    <3>1. CutInv(source, k, t)
      BY <1>2, <2>1, <2>2, <2>3, <2>5, CutItemStep DEF L
    <3> QED
      BY <2>1, <3>1 DEF k, t
  <2> QED
    BY <2>4, <2>5
<1>7. L \in Good
  <2> HIDE DEF Good
  <2>1. \A i \in 0..L : i \in Good
    BY <1>1, <1>5, <1>6, Induction
  <2> QED
    BY <1>1, <2>1
<1>8. CutInv(source, (L + 1) - 1, C(L))
  <2>1. (L + 1) - 1 = L
    BY <1>1
  <2> QED
    BY <1>7, <2>1
<1>9. C(L + 1) = CutToken(s, C(L), SemiColon)
  <2> DEFINE k == L + 1
  <2>1. k \in 1..(L + 1) /\ k - 1 = L /\ Tokens(s)[k] = SemiColon
    BY <1>1, <1>3
  <2> HIDE DEF k
  <2>2. C(k) = CutToken(s, C(L), SemiColon)
    BY <1>4, <2>1
  <2> QED
    BY <2>2 DEF k
<1>10. L + 1 \in Ends(source)
  BY <1>1 DEF Ends, L
<1>11. EndInv(source, L + 1, C(L + 1))
  <2> DEFINE e == L + 1
             c == C(L)
             t == C(L + 1)
  <2>1. e \in Ends(source) /\ CutInv(source, e - 1, c) /\ t = CutToken(s, c, SemiColon)
    BY <1>8, <1>9, <1>10
  <2> HIDE DEF e, c, t
  <2>2. EndInv(source, e, t)
    BY <1>2, <2>1, CutEndStep
  <2> QED
    BY <2>2 DEF e, t
<1> QED
  BY <1>11 DEF C, s, L

\* A statement with the text and the parameters of a written one is executed as
\* it is written.
LEMMA StatementIsWritten ==
    ASSUME NEW source, Lexical(source), Clean(source), NEW e \in Ends(source), NEW x, StatementOf(source, e, x)
    PROVE  /\ Bound(x) = Part(source, e)
           /\ \A j \in DOMAIN x.sql : x.sql[j].kind = "placeholder" =>
                 Glued(x.sql[j].n, x.sql[j].tail) \in DOMAIN x.parameters
<1> DEFINE S(j) == Scanned(source)[j]
           b == Begin(source, e)
           p == Part(source, e)
           n == e - 1 - b
           q == x.parameters
<1>1. /\ b \in 0..(e - 1) /\ e \in 1..(Len(source) + 1)
      /\ DOMAIN p = 1..n /\ p = [k \in 1..n |-> p[k]]
      /\ \A k \in 1..n : b + k \in 1..Len(source) /\ p[k] = source[b + k]
  BY PartItems
<1>2. Len(source) \in Nat
  BY SourceIsSeq
<1>3. e - 1 + 1 = e /\ e - 1 \in 0..Len(source) /\ n \in Nat
  BY <1>1, <1>2
<1>4. ScannedInv(source, e - 1, S(e - 1))
  BY <1>3, ScannedInvHolds
<1>5. /\ x.sql \in Seq(Output(source)) /\ Len(x.sql) = n
      /\ \A j \in (b + 1)..(e - 1) : x.sql[j - b] = Shown(source, j)
  BY <1>3, <1>4 DEF ScannedInv, ScanType, StatementOf
<1>6. DOMAIN x.sql = 1..n
  BY <1>5, LenProperties
<1>7. /\ q \in Seq(Given(source))
      /\ \A j \in (b + 1)..(e - 1) : IsReference(source, j) =>
            S(j).local \in 1..Len(q) /\ q[S(j).local] = source[j].of
  BY <1>3 DEF StatementOf, CutBound
<1>8. DOMAIN q = 1..Len(q)
  BY <1>7, LenProperties
<1>9. ASSUME NEW k \in 1..n
      PROVE  /\ x.sql[k].kind = "placeholder" =>
                   /\ Glued(x.sql[k].n, x.sql[k].tail) \in DOMAIN q
                   /\ Reference(q[Glued(x.sql[k].n, x.sql[k].tail)],
                                x.sql[k].place, x.sql[k].tail) = p[k]
             /\ x.sql[k].kind # "placeholder" => x.sql[k] = p[k]
  <2> DEFINE j == b + k
             y == x.sql[k]
  <2>1. j \in (b + 1)..(e - 1) /\ j - b = k
    BY <1>1, <1>2, <1>3
  <2>2. j \in 1..Len(source) /\ p[k] = source[j]
    BY <1>1
  <2> HIDE DEF j
  <2>3. y = Shown(source, j)
    BY <1>5, <2>1
  <2>4. LexicalItem(source[j])
    BY <2>2, SourceIsSeq
  <2> HIDE DEF y
  <2>5. CASE IsReference(source, j)
    <3>1. y = Placeholder(S(j).local, source[j].place, source[j].tail)
      BY <2>3, <2>5 DEF Shown
    <3>2. y.kind = "placeholder" /\ y.n = S(j).local /\ y.place = source[j].place
          /\ y.tail = source[j].tail
      BY <3>1 DEF Placeholder
    <3>3. y.n \in 1..Len(q) /\ q[y.n] = source[j].of /\ Len(q) \in Nat
      BY <1>7, <2>1, <2>5, <3>2, LenProperties
    <3>4. source[j] = Reference(source[j].of, source[j].place, source[j].tail)
      BY <2>4, <2>5 DEF LexicalItem, IsReference
    <3>5. y.tail = Alone
      BY <2>2, <2>5, <3>2, SourceIsSeq DEF Clean
    <3>6. Glued(y.n, y.tail) = y.n
      <4> DEFINE m == y.n
      <4>1. m \in Nat
        BY <3>3
      <4> HIDE DEF m
      <4>2. Glued(m, Alone) = m
        BY <4>1 DEF Glued, Alone
      <4> QED
        BY <3>5, <4>2 DEF m
    <3> QED
      BY <1>8, <2>2, <3>2, <3>3, <3>4, <3>6 DEF y
  <2>6. CASE ~IsReference(source, j)
    <3>1. y = source[j] /\ source[j].kind # "placeholder"
      BY <2>3, <2>4, <2>6 DEF Shown, LexicalItem
    <3> QED
      BY <2>2, <3>1 DEF y
  <2> QED
    BY <2>5, <2>6
<1> HIDE DEF p, n, q
<1>10. \A k \in 1..n : p[k] = IF x.sql[k].kind = "placeholder"
                              THEN Reference(q[Glued(x.sql[k].n, x.sql[k].tail)],
                                             x.sql[k].place, x.sql[k].tail)
                              ELSE x.sql[k]
  BY <1>9
<1>11. Bound(x) = [k \in 1..n |-> p[k]]
  BY <1>6, <1>10 DEF Bound, q
<1> QED
  BY <1>1, <1>6, <1>9, <1>11 DEF p, q

-----------------------------------------------------------------------------
(* Files in which a reference does not stand alone. *)

\* A reference has the number that the first pass has reached.
LEMMA ReferencesCounted ==
    ASSUME NEW source, Lexical(source)
    PROVE  /\ \A i \in 0..Len(source) : Len(Scanned(source)[i].parameters) = NumberOf(source, i)
           /\ Len(Scanned(source)[Len(source)].parameters) = Cardinality(References(source))
<1> DEFINE L == Len(source)
           N(i) == Len(Scanned(source)[i].parameters)
           R(i) == {j \in References(source) : j <= i}
           Good == {i \in 0..L : IsFiniteSet(R(i)) /\ N(i) = Cardinality(R(i))}
<1>1. L \in Nat /\ DOMAIN source = 1..L
  BY SourceIsSeq
<1>2. References(source) \subseteq 1..L
  BY <1>1 DEF References
<1>3. 0 \in Good
  <2>1. R(0) = {}
    BY <1>1, <1>2
  <2>2. N(0) = 0
    <3>1. Scanned(source)[0] = Unscanned
      BY ScanNumbersHold
    <3> QED
      BY <3>1 DEF Unscanned
  <2> HIDE DEF R, N
  <2> QED
    BY <1>1, <2>1, <2>2, FS_EmptySet
<1>4. ASSUME NEW i \in 0..(L - 1), i \in Good PROVE i + 1 \in Good
  <2> DEFINE k == i + 1
  <2>1. k \in 1..L /\ k - 1 = i /\ k \in 0..L /\ i \in Nat
    BY <1>1
  <2>2. /\ N(i) \in Nat
        /\ IsReference(source, k) => N(k) = N(i) + 1
        /\ ~IsReference(source, k) => N(k) = N(i)
    <3> HIDE DEF k
    <3>1. ScanNumbers(source, k)
      BY <2>1, ScanNumbersHold
    <3> QED
      BY <2>1, <3>1 DEF ScanNumbers, NumbersStep
  <2>3. R(k) = IF IsReference(source, k) THEN R(i) \cup {k} ELSE R(i)
    <3>1. \A j \in References(source) : j <= k <=> (j <= i \/ j = k)
      BY <1>2, <2>1
    <3>2. k \in References(source) <=> IsReference(source, k)
      BY <1>1, <2>1 DEF References, IsReference
    <3>3. \A j \in R(i) : j <= i
      OBVIOUS
    <3> QED
      BY <2>1, <3>1, <3>2, <3>3
  <2>4. k \notin R(i) /\ IsFiniteSet(R(i)) /\ N(i) = Cardinality(R(i))
    BY <1>4, <2>1
  <2> HIDE DEF k, R, N
  <2>5. IsFiniteSet(R(i) \cup {k}) /\ Cardinality(R(i) \cup {k}) = N(i) + 1
    BY <2>4, FS_AddElement
  <2>6. k \in Good
    BY <2>1, <2>2, <2>3, <2>4, <2>5
  <2> QED
    BY <2>6 DEF k
<1>5. \A i \in 0..L : i \in Good
  <2> HIDE DEF Good
  <2> QED
    BY <1>1, <1>3, <1>4, Induction
<1>6. R(L) = References(source)
  BY <1>1, <1>2
<1>7. \A i \in 0..L : N(i) = NumberOf(source, i)
  BY <1>5 DEF NumberOf
<1>8. N(L) = Cardinality(References(source))
  <2>1. L \in Good
    BY <1>1, <1>5
  <2> HIDE DEF N, R
  <2> QED
    BY <1>6, <2>1
<1> QED
  BY <1>7, <1>8

\* What the second pass has refused so far: parameters of the database's own
\* that are tokens, and references with something behind them.
Refused(source, j) ==
    \/ source[j] = Native("token")
    \/ IsReference(source, j) /\ source[j].place # "word" /\ source[j].tail # Alone
\* What ParameterVisitor will refuse, and what the count of the bound parameters
\* will miss.
Foreign(source, j) == source[j] = Native("value")
Missed(source, j) == IsReference(source, j) /\ source[j].place = "word"
Counted(c) == Bindings(c.output)[Len(c.output)] + Len(c.bound)
Passed(source, i, c) ==
    /\ \A j \in 1..i : ~Refused(source, j)
    /\ (\E j \in 1..i : Foreign(source, j)) =>
          \E k \in DOMAIN c.tokens : c.tokens[k] = Native("value")
    /\ Bindings(c.output)[Len(c.output)] \in Nat
    /\ Counted(c) <= Len(Scanned(source)[i].parameters)
    /\ (\E j \in 1..i : Missed(source, j)) => Counted(c) < Len(Scanned(source)[i].parameters)
PassedInv(source, i, c) == c \in CutType(source) /\ (c.ok => Passed(source, i, c))

\* A token more.
Longer(c, x) == [c EXCEPT !.tokens = Append(@, x)]
OneMore(source, c, x, t) ==
    /\ t \in CutType(source)
    /\ t.bound = c.bound /\ t.output = c.output /\ t.ok = c.ok
    /\ \A v : (\E k \in DOMAIN t.tokens : t.tokens[k] = v) <=>
              (x = v \/ \E k \in DOMAIN c.tokens : c.tokens[k] = v)

LEMMA TokenMore ==
    ASSUME NEW source, NEW c \in CutType(source), NEW x \in Output(source)
    PROVE  OneMore(source, c, x, Longer(c, x))
<1> DEFINE t == Longer(c, x)
           q == c.tokens
           u == Append(q, x)
<1>1. /\ c.next \in Nat /\ q \in Seq(Output(source)) /\ c.bound \in Seq(Given(source))
      /\ c.output \in Seq(Statement(source)) /\ c.ok \in BOOLEAN
      /\ c = [next |-> c.next, tokens |-> c.tokens, bound |-> c.bound,
              output |-> c.output, ok |-> c.ok]
  BY DEF CutType
<1>2. /\ t.tokens = u /\ t.bound = c.bound /\ t.output = c.output /\ t.ok = c.ok
      /\ t.next = c.next
      /\ t = [next |-> t.next, tokens |-> t.tokens, bound |-> t.bound,
              output |-> t.output, ok |-> t.ok]
  <2>1. t = [c EXCEPT !.tokens = Append(@, x)]
    BY DEF Longer
  <2> HIDE DEF t
  <2> QED
    BY <2>1 DEF CutType
<1> HIDE DEF q, t
<1>3. /\ u \in Seq(Output(source)) /\ Len(u) = Len(q) + 1 /\ u[Len(q) + 1] = x
      /\ \A k \in 1..Len(q) : u[k] = q[k]
  BY <1>1, AppendProperties
<1> HIDE DEF u
<1>4. Len(q) \in Nat /\ DOMAIN q = 1..Len(q) /\ DOMAIN u = 1..(Len(q) + 1)
  <2>1. Len(q) \in Nat /\ DOMAIN q = 1..Len(q) /\ DOMAIN u = 1..Len(u)
    BY <1>1, <1>3, LenProperties
  <2> QED
    BY <1>3, <2>1
<1>5. t \in CutType(source)
  BY <1>1, <1>2, <1>3 DEF CutType
<1>6. ASSUME NEW v
      PROVE  (\E k \in DOMAIN u : u[k] = v) <=> (x = v \/ \E k \in DOMAIN q : q[k] = v)
  <2> DEFINE n == Len(q)
  <2>1. /\ \A k \in 1..(n + 1) : k = n + 1 \/ k \in 1..n
        /\ \A k \in 1..n : k \in 1..(n + 1)
        /\ n + 1 \in 1..(n + 1)
    BY <1>4
  <2> HIDE DEF n
  <2> QED
    BY <1>3, <1>4, <2>1 DEF n
<1> QED
  BY <1>2, <1>5, <1>6 DEF OneMore, q, t

LEMMA PassItem ==
    ASSUME NEW source, Lexical(source), ~Confused(source), NEW s, ScanFacts(source, s),
           NEW i \in 1..Len(source), source[i] # SemiColon,
           NEW c, PassedInv(source, i - 1, c), NEW t, t = CutToken(s, c, Token(source, i))
    PROVE  PassedInv(source, i, t)
<1> DEFINE S(j) == Scanned(source)[j]
           x == Token(source, i)
           n == Len(S(i - 1).parameters)
           m == Len(S(i).parameters)
           u == Longer(c, x)
           B == Bindings(c.output)[Len(c.output)]
<1>1. Len(source) \in Nat /\ DOMAIN source = 1..Len(source) /\ LexicalItem(source[i])
  BY SourceIsSeq
<1>2. /\ x \in Output(source) /\ x.kind # "semicolon"
      /\ x.kind = "internal" <=> IsReference(source, i) /\ source[i].place # "word"
      /\ IsReference(source, i) /\ source[i].place = "word" => x = Word
      /\ IsReference(source, i) /\ source[i].place # "word" =>
            x = Internal(Glued(m, source[i].tail), source[i].place, Alone)
      /\ ~IsReference(source, i) => x = source[i]
  BY TokenCases
<1>3. /\ n \in Nat /\ (IsReference(source, i) => m = n + 1)
      /\ (~IsReference(source, i) => m = n)
  <2>1. ScanNumbers(source, i)
    BY ScanNumbersHold
  <2> QED
    BY <2>1 DEF ScanNumbers, NumbersStep
<1>4. \A j \in 1..i : j = i \/ j \in 1..(i - 1)
  BY <1>1
<1>5. \A j \in 1..(i - 1) : j \in 1..i
  BY <1>1
<1>6. c \in CutType(source)
  BY DEF PassedInv
<1>7. /\ c.tokens \in Seq(Output(source)) /\ c.bound \in Seq(Given(source))
      /\ c.output \in Seq(Statement(source)) /\ c.ok \in BOOLEAN /\ c.next \in Nat
      /\ c = [next |-> c.next, tokens |-> c.tokens, bound |-> c.bound,
              output |-> c.output, ok |-> c.ok]
  BY <1>6 DEF CutType
<1>8. Len(c.bound) \in Nat
  BY <1>7, LenProperties
<1>9. /\ u \in CutType(source) /\ u.bound = c.bound /\ u.output = c.output /\ u.ok = c.ok
      /\ \A v : (\E k \in DOMAIN u.tokens : u.tokens[k] = v) <=>
                (x = v \/ \E k \in DOMAIN c.tokens : c.tokens[k] = v)
  <2>1. OneMore(source, c, x, u)
    BY <1>2, <1>6, TokenMore
  <2> HIDE DEF x, u
  <2> QED
    BY <2>1 DEF OneMore
<1>10. Failed(c) \in CutType(source) /\ ~Failed(c).ok
  BY <1>6 DEF Failed, CutType
<1> HIDE DEF x, u
<1>11. CASE ~c.ok
  <2>1. t = c
    BY <1>11 DEF CutToken
  <2> QED
    BY <1>6, <1>11, <2>1 DEF PassedInv
<1>12. CASE c.ok
  <2>1. /\ \A j \in 1..(i - 1) : ~Refused(source, j)
        /\ (\E j \in 1..(i - 1) : Foreign(source, j)) =>
              \E k \in DOMAIN c.tokens : c.tokens[k] = Native("value")
        /\ B \in Nat /\ B + Len(c.bound) <= n
        /\ (\E j \in 1..(i - 1) : Missed(source, j)) => B + Len(c.bound) < n
    BY <1>12 DEF PassedInv, Passed, Counted
  <2>2. CASE IsReference(source, i) /\ source[i].place # "word"
    <3> DEFINE g == Glued(m, source[i].tail)
    <3>1. x.kind = "internal" /\ x.n = g /\ x # Native("value")
      BY <1>2, <2>2 DEF Internal, Native
    <3>2. CASE g \notin DOMAIN s.parameters
      <4>1. t = Failed(c)
        BY <1>12, <3>1, <3>2 DEF CutToken, Native, x
      <4> QED
        BY <1>10, <4>1 DEF PassedInv
    <3>3. CASE g \in DOMAIN s.parameters
      <4> DEFINE y == s.parameters[g]
      <4>1. t = [c EXCEPT !.tokens = Append(@, x), !.bound = Append(@, y)]
        BY <1>12, <3>1, <3>3 DEF CutToken, Native, x
      <4>2. /\ s.parameters \in Seq(Given(source))
            /\ s.parameters = S(Len(source)).parameters
        BY DEF ScanFacts
      <4>3. y \in Given(source) /\ DOMAIN s.parameters = 1..Len(s.parameters)
        BY <3>3, <4>2, LenProperties, ElementOfSeq
      <4>4. Len(s.parameters) = Cardinality(References(source)) /\ m = NumberOf(source, i)
        BY <1>1, <4>2, ReferencesCounted
      <4>5. i \in References(source)
        BY <1>1, <2>2 DEF References, IsReference
      <4>6. source[i].tail = Alone
        <5>1. g \in 1..Cardinality(References(source))
          BY <3>3, <4>3, <4>4
        <5> QED
          BY <4>4, <4>5, <5>1 DEF Confused
      <4> HIDE DEF y
      <4>7. /\ t.tokens = u.tokens /\ t.bound = Append(c.bound, y) /\ t.output = c.output
            /\ t.ok = c.ok /\ t.next = u.next
            /\ t = [next |-> t.next, tokens |-> t.tokens, bound |-> t.bound,
                    output |-> t.output, ok |-> t.ok]
        BY <1>7, <4>1 DEF u, Longer
      <4>8. t.bound \in Seq(Given(source)) /\ Len(t.bound) = Len(c.bound) + 1
        BY <1>7, <4>3, <4>7, AppendProperties
      <4>9. t \in CutType(source)
        <5>1. u.next \in Nat /\ u.tokens \in Seq(Output(source))
          BY <1>9 DEF CutType
        <5> QED
          BY <1>7, <4>7, <4>8, <5>1 DEF CutType
      <4>10. ~Refused(source, i) /\ ~Foreign(source, i) /\ ~Missed(source, i)
        BY <2>2, <4>6 DEF Refused, Foreign, Missed, IsReference, Native
      <4>11. m = n + 1 /\ Counted(t) = B + Len(c.bound) + 1
        BY <1>3, <1>8, <2>1, <2>2, <4>7, <4>8 DEF Counted
      <4>12. Passed(source, i, t)
        <5>1. \A j \in 1..i : ~Refused(source, j)
          BY <1>4, <2>1, <4>10
        <5>2. (\E j \in 1..i : Foreign(source, j)) =>
                 \E k \in DOMAIN t.tokens : t.tokens[k] = Native("value")
          BY <1>4, <1>9, <2>1, <4>7, <4>10
        <5>3. Bindings(t.output)[Len(t.output)] \in Nat
          BY <2>1, <4>7
        <5>4. Counted(t) <= m /\ ((\E j \in 1..i : Missed(source, j)) => Counted(t) < m)
          <6>1. (\E j \in 1..i : Missed(source, j)) => B + Len(c.bound) < n
            BY <1>4, <2>1, <4>10
          <6> HIDE DEF B, n, m
          <6> QED
            BY <1>3, <1>8, <2>1, <4>11, <6>1
        <5> QED
          BY <5>1, <5>2, <5>3, <5>4 DEF Passed
      <4> QED
        BY <4>9, <4>12 DEF PassedInv
    <3> QED
      BY <3>2, <3>3
  <2>3. CASE ~(IsReference(source, i) /\ source[i].place # "word")
    <3>1. x.kind # "internal" /\ x.kind # "semicolon"
      BY <1>2, <2>3
    <3>2. CASE x = Native("token")
      <4>1. t = Failed(c)
        BY <1>12, <3>1, <3>2 DEF CutToken, x
      <4> QED
        BY <1>10, <4>1 DEF PassedInv
    <3>3. CASE x # Native("token")
      <4>1. t = u
        BY <1>12, <3>1, <3>3 DEF CutToken, x, u, Longer
      <4>2. Foreign(source, i) => x = Native("value")
        BY <1>2 DEF Foreign, IsReference, Native
      <4>3. ~Refused(source, i)
        <5>1. source[i] = Native("token") => ~IsReference(source, i)
          BY DEF IsReference, Native
        <5> QED
          BY <1>2, <2>3, <3>3, <5>1 DEF Refused
      <4>4. Counted(t) = B + Len(c.bound)
        BY <1>9, <4>1 DEF Counted
      <4>5. Passed(source, i, t)
        <5>1. \A j \in 1..i : ~Refused(source, j)
          BY <1>4, <2>1, <4>3
        <5>2. (\E j \in 1..i : Foreign(source, j)) =>
                 \E k \in DOMAIN t.tokens : t.tokens[k] = Native("value")
          BY <1>4, <1>9, <2>1, <4>1, <4>2
        <5>3. Bindings(t.output)[Len(t.output)] \in Nat
          BY <1>9, <2>1, <4>1
        <5>4. Counted(t) <= m /\ ((\E j \in 1..i : Missed(source, j)) => Counted(t) < m)
          <6>1. (\E j \in 1..i : Missed(source, j)) =>
                   Missed(source, i) \/ B + Len(c.bound) < n
            BY <1>4, <2>1
          <6>2. Missed(source, i) => m = n + 1
            BY <1>3 DEF Missed
          <6>3. m = n \/ m = n + 1
            BY <1>3
          <6> HIDE DEF B, n, m
          <6> QED
            BY <1>3, <1>8, <2>1, <4>4, <6>1, <6>2, <6>3
        <5> QED
          BY <5>1, <5>2, <5>3, <5>4 DEF Passed
      <4> QED
        BY <1>9, <4>1, <4>5 DEF PassedInv
    <3> QED
      BY <3>2, <3>3
  <2> QED
    BY <2>2, <2>3
<1> QED
  BY <1>7, <1>11, <1>12

\* The end of a statement: one with a parameter that ParameterVisitor refuses is
\* refused.
LEMMA PassEnd ==
    ASSUME NEW source, Lexical(source), NEW s, ScanFacts(source, s),
           NEW e \in 1..(Len(source) + 1), NEW c, PassedInv(source, e - 1, c),
           NEW t, t = CutToken(s, c, SemiColon)
    PROVE  /\ PassedInv(source, e - 1, t)
           /\ t.ok => \A j \in 1..(e - 1) : ~Foreign(source, j)
<1> DEFINE n == Len(Scanned(source)[e - 1].parameters)
           B == Bindings(c.output)[Len(c.output)]
           x == [sql |-> s.originals[c.next], parameters |-> c.bound,
                 rows |-> ReturnsRows(c.tokens)]
           empty == Visible(c.tokens) = {}
<1>1. c \in CutType(source)
  BY DEF PassedInv
<1>2. /\ c.tokens \in Seq(Output(source)) /\ c.bound \in Seq(Given(source))
      /\ c.output \in Seq(Statement(source)) /\ c.ok \in BOOLEAN /\ c.next \in Nat
      /\ c = [next |-> c.next, tokens |-> c.tokens, bound |-> c.bound,
              output |-> c.output, ok |-> c.ok]
  BY <1>1 DEF CutType
<1>3. Len(c.bound) \in Nat
  BY <1>2, LenProperties
<1>4. Failed(c) \in CutType(source) /\ ~Failed(c).ok
  BY <1>1 DEF Failed, CutType
<1>5. n \in Nat
  <2>1. e - 1 \in 0..Len(source)
    BY SourceIsSeq
  <2> QED
    BY <2>1, NumbersAreNat
<1>6. CASE ~c.ok
  <2>1. t = c
    BY <1>6 DEF CutToken
  <2> QED
    BY <1>6, <2>1
<1>7. CASE c.ok
  <2>1. t = EndStatement(s, c)
    BY <1>7 DEF CutToken, SemiColon, Native
  <2>2. t = IF c.next \notin DOMAIN s.originals \/ (~empty /\ ~StatementOk(c)) THEN Failed(c)
            ELSE [c EXCEPT !.next = @ + 1, !.tokens = <<>>, !.bound = <<>>,
                           !.output = IF empty THEN @ ELSE Append(@, x)]
    BY <2>1 DEF EndStatement
  <2>3. CASE c.next \notin DOMAIN s.originals \/ (~empty /\ ~StatementOk(c))
    BY <1>4, <2>2, <2>3 DEF PassedInv
  <2>4. CASE c.next \in DOMAIN s.originals /\ (empty \/ StatementOk(c))
    <3> DEFINE o == IF empty THEN c.output ELSE Append(c.output, x)
    <3>1. /\ \A j \in 1..(e - 1) : ~Refused(source, j)
          /\ (\E j \in 1..(e - 1) : Foreign(source, j)) =>
                \E k \in DOMAIN c.tokens : c.tokens[k] = Native("value")
          /\ B \in Nat /\ B + Len(c.bound) <= n
          /\ (\E j \in 1..(e - 1) : Missed(source, j)) => B + Len(c.bound) < n
      BY <1>7 DEF PassedInv, Passed, Counted
    <3>2. \A k \in DOMAIN c.tokens : c.tokens[k] # Native("value")
      <4>1. ASSUME NEW k \in DOMAIN c.tokens, c.tokens[k] = Native("value") PROVE ~empty
        <5>1. c.tokens[k].kind # "comment"
          BY <4>1 DEF Native
        <5> QED
          BY <5>1 DEF Visible
      <4> HIDE DEF empty
      <4> QED
        BY <2>4, <4>1 DEF StatementOk
    <3>3. \A j \in 1..(e - 1) : ~Foreign(source, j)
      BY <3>1, <3>2
    <3>4. x \in Statement(source) /\ x.parameters = c.bound
      <4>1. s.originals[c.next] \in Seq(Output(source))
        <5> DEFINE q == s.originals
                   m == c.next
        <5>1. q \in Seq(Seq(Output(source))) /\ m \in DOMAIN q
          BY <2>4 DEF ScanFacts
        <5> HIDE DEF q, m
        <5>2. q[m] \in Seq(Output(source))
          BY <5>1, LenProperties, ElementOfSeq
        <5> QED
          BY <5>2 DEF q, m
      <4> QED
        BY <1>2, <4>1 DEF Statement, ReturnsRows
    <3> HIDE DEF x, empty
    <3>5. /\ t.next = c.next + 1 /\ t.tokens = <<>> /\ t.bound = <<>> /\ t.output = o
          /\ t.ok = c.ok
          /\ t = [next |-> t.next, tokens |-> t.tokens, bound |-> t.bound,
                  output |-> t.output, ok |-> t.ok]
      BY <1>2, <2>2, <2>4
    <3>6. o \in Seq(Statement(source)) /\ Bindings(o)[Len(o)] \in {B, B + Len(c.bound)}
      <4>1. CASE empty
        BY <1>2, <4>1
      <4>2. CASE ~empty
        <5> DEFINE w == c.output
                   T == Statement(source)
        <5>1. w \in Seq(T) /\ x \in T /\ o = Append(w, x) /\ B = Bindings(w)[Len(w)]
          BY <1>2, <3>4, <4>2
        <5> HIDE DEF w, T, o, B
        <5>2. Append(w, x) \in Seq(T) /\ Len(Append(w, x)) = Len(w) + 1
          BY <5>1, AppendProperties
        <5>3. Bindings(Append(w, x))[Len(w) + 1] = Bindings(w)[Len(w)] + Len(x.parameters)
          BY <5>1, BindingsAppend
        <5> QED
          BY <3>4, <5>1, <5>2, <5>3 DEF T
      <4> QED
        BY <4>1, <4>2
    <3> HIDE DEF o
    <3>7. t \in CutType(source)
      <4>1. t.next \in Nat /\ t.tokens \in Seq(Output(source)) /\ t.bound \in Seq(Given(source))
            /\ t.output \in Seq(Statement(source)) /\ t.ok \in BOOLEAN
        BY <1>2, <3>5, <3>6, EmptySeq
      <4> QED
        BY <3>5, <4>1 DEF CutType
    <3>8. /\ Bindings(t.output)[Len(t.output)] \in Nat
          /\ Counted(t) = Bindings(t.output)[Len(t.output)]
          /\ Counted(t) <= B + Len(c.bound)
      <4> DEFINE b == Bindings(o)[Len(o)]
      <4>1. Bindings(t.output)[Len(t.output)] = b /\ Len(t.bound) = 0
        BY <3>5
      <4>2. b \in Nat /\ b <= B + Len(c.bound)
        <5> HIDE DEF b, B
        <5> QED
          BY <1>3, <3>1, <3>6 DEF b
      <4> HIDE DEF b
      <4>3. Counted(t) = b
        BY <4>1, <4>2 DEF Counted
      <4> QED
        BY <4>1, <4>2, <4>3
    <3>9. Counted(t) <= n /\ ((\E j \in 1..(e - 1) : Missed(source, j)) => Counted(t) < n)
      <4> HIDE DEF B, n
      <4> QED
        BY <1>3, <1>5, <3>1, <3>8
    <3>10. Passed(source, e - 1, t)
      BY <3>1, <3>3, <3>8, <3>9 DEF Passed
    <3> QED
      BY <3>3, <3>7, <3>10 DEF PassedInv
  <2> QED
    BY <2>3, <2>4
<1> QED
  BY <1>2, <1>6, <1>7

LEMMA PassedHolds ==
    ASSUME NEW source, Lexical(source), ~Confused(source)
    PROVE  LET c == Cut(Scan(source))[Len(source) + 1]
           IN  /\ PassedInv(source, Len(source), c)
               /\ c.ok => \A j \in 1..Len(source) : ~Foreign(source, j)
<1> DEFINE L == Len(source)
           s == Scan(source)
           C(i) == Cut(s)[i]
           Good == {i \in 0..L : PassedInv(source, i, C(i))}
<1>1. L \in Nat
  BY SourceIsSeq
<1>2. ScanFacts(source, s)
  BY ScanFactsHold
<1>3. /\ Len(Tokens(s)) = L + 1 /\ Tokens(s)[L + 1] = SemiColon
      /\ \A i \in 1..L : Tokens(s)[i] = Token(source, i)
  BY <1>2 DEF ScanFacts
<1> HIDE DEF L, s
<1>4. C(0) = Uncut /\ \A i \in 1..(L + 1) : C(i) = CutToken(s, C(i - 1), Tokens(s)[i])
  <2>1. Len(Tokens(s)) \in Nat
    BY <1>1, <1>3
  <2> QED
    BY <1>3, <2>1, CutRecursion
<1> HIDE DEF C
<1>5. 0 \in Good
  <2>1. Uncut \in CutType(source) /\ Uncut.output = <<>> /\ Uncut.bound = <<>>
    BY DEF Uncut, CutType
  <2>2. Len(<<>>) = 0 /\ Len(<<>>) \in Nat
    OBVIOUS
  <2>3. Bindings(<<>>)[0] = 0
    BY <2>2, BindingsRecursion
  <2>4. Counted(Uncut) = 0 /\ Bindings(Uncut.output)[Len(Uncut.output)] = 0
    BY <2>1, <2>2, <2>3 DEF Counted
  <2>5. Len(Scanned(source)[0].parameters) = 0
    <3>1. Scanned(source)[0] = Unscanned
      BY ScanNumbersHold
    <3> QED
      BY <3>1 DEF Unscanned
  <2>6. \A j \in 1..0 : FALSE
    OBVIOUS
  <2>7. Passed(source, 0, Uncut)
    BY <2>4, <2>5, <2>6 DEF Passed
  <2> QED
    BY <1>1, <1>4, <2>1, <2>7 DEF PassedInv
<1>6. ASSUME NEW i \in 0..(L - 1), i \in Good PROVE i + 1 \in Good
  <2> DEFINE k == i + 1
             c == C(i)
             t == C(k)
  <2>1. k \in 1..L /\ k - 1 = i /\ k \in 0..L /\ k \in 1..(L + 1)
    BY <1>1
  <2>2. PassedInv(source, k - 1, c)
    BY <1>6, <2>1
  <2>3. t = CutToken(s, c, Token(source, k))
    BY <1>3, <1>4, <2>1
  <2> HIDE DEF k, c, t
  <2>4. CASE source[k] = SemiColon
    <3>1. Token(source, k) = SemiColon
      BY <2>4 DEF Token, TokenOf, Rewritten, IsReference, SemiColon
    <3>2. /\ PassedInv(source, k - 1, t)
          /\ t.ok => \A j \in 1..(k - 1) : ~Foreign(source, j)
      BY <1>2, <2>1, <2>2, <2>3, <3>1, PassEnd DEF L
    <3>3. ~IsReference(source, k) /\ source[k] # Native("token") /\ source[k] # Native("value")
      BY <2>4 DEF IsReference, SemiColon, Native
    <3>4. ~Refused(source, k) /\ ~Foreign(source, k) /\ ~Missed(source, k)
      BY <3>3 DEF Refused, Foreign, Missed
    <3>5. Len(Scanned(source)[k].parameters) = Len(Scanned(source)[k - 1].parameters)
      <4>1. ScanNumbers(source, k)
        BY <2>1, ScanNumbersHold DEF L
      <4> QED
        BY <2>4, <4>1 DEF ScanNumbers, NumbersStep
    <3>6. \A j \in 1..k : j = k \/ j \in 1..(k - 1)
      BY <1>1, <2>1
    <3>7. t.ok => Passed(source, k, t)
      <4> HAVE t.ok
      <4>1. Passed(source, k - 1, t)
        BY <3>2 DEF PassedInv
      <4> QED
        BY <3>2, <3>4, <3>5, <3>6, <4>1 DEF Passed
    <3>8. PassedInv(source, k, t)
      BY <3>2, <3>7 DEF PassedInv
    <3> QED
      BY <2>1, <3>8 DEF k, t
  <2>5. CASE source[k] # SemiColon
    <3>1. PassedInv(source, k, t)
      BY <1>2, <2>1, <2>2, <2>3, <2>5, PassItem DEF L
    <3> QED
      BY <2>1, <3>1 DEF k, t
  <2> QED
    BY <2>4, <2>5
<1>7. PassedInv(source, L, C(L))
  <2> HIDE DEF Good
  <2>1. \A i \in 0..L : i \in Good
    BY <1>1, <1>5, <1>6, Induction
  <2>2. L \in Good
    BY <1>1, <2>1
  <2> QED
    BY <2>2 DEF Good
<1>8. C(L + 1) = CutToken(s, C(L), SemiColon)
  <2> DEFINE k == L + 1
  <2>1. k \in 1..(L + 1) /\ k - 1 = L /\ Tokens(s)[k] = SemiColon
    BY <1>1, <1>3
  <2> HIDE DEF k
  <2>2. C(k) = CutToken(s, C(L), SemiColon)
    BY <1>4, <2>1
  <2> QED
    BY <2>2 DEF k
<1>9. /\ PassedInv(source, L, C(L + 1))
      /\ C(L + 1).ok => \A j \in 1..L : ~Foreign(source, j)
  <2> DEFINE e == L + 1
             c == C(L)
             t == C(L + 1)
  <2>1. e \in 1..(L + 1) /\ e - 1 = L /\ PassedInv(source, e - 1, c)
        /\ t = CutToken(s, c, SemiColon)
    BY <1>1, <1>7, <1>8
  <2> HIDE DEF e, c, t
  <2>2. /\ PassedInv(source, e - 1, t)
        /\ t.ok => \A j \in 1..(e - 1) : ~Foreign(source, j)
    BY <1>2, <2>1, PassEnd DEF L
  <2> QED
    BY <2>1, <2>2 DEF t
<1> QED
  BY <1>9 DEF C, s, L

\* A file that is compiled has only references that stand alone, unless the digits
\* behind one make the number of another.
LEMMA CompiledIsClean ==
    ASSUME NEW source, Lexical(source), ~Confused(source), Compile(source) # <<>>
    PROVE  Clean(source)
<1> DEFINE L == Len(source)
           s == Scan(source)
           c == Cut(s)[L + 1]
<1>1. /\ Scannable(source) /\ c.ok
      /\ Bindings(c.output)[Len(c.output)] = Len(s.parameters)
  BY DEF Compile
<1>2. PassedInv(source, L, c) /\ \A j \in 1..L : ~Foreign(source, j)
  BY <1>1, PassedHolds
<1>3. Len(s.parameters) = Len(Scanned(source)[L].parameters) /\ Len(s.parameters) \in Nat
  <2>1. s.parameters = Scanned(source)[L].parameters /\ s.parameters \in Seq(Given(source))
    BY ScanFactsHold DEF ScanFacts
  <2> QED
    BY <2>1, LenProperties
<1> HIDE DEF s, c
<1>4. /\ \A j \in 1..L : ~Refused(source, j)
      /\ (\E j \in 1..L : Missed(source, j)) => Counted(c) < Len(s.parameters)
  BY <1>1, <1>2, <1>3 DEF PassedInv, Passed
<1>5. \A j \in 1..L : ~Missed(source, j)
  <2>1. Len(c.bound) \in Nat
    <3>1. c.bound \in Seq(Given(source))
      BY <1>2 DEF PassedInv, CutType
    <3> QED
      BY <3>1, LenProperties
  <2>2. Counted(c) = Len(s.parameters) + Len(c.bound)
    BY <1>1 DEF Counted
  <2>3. ~(Counted(c) < Len(s.parameters))
    <3> DEFINE n == Len(s.parameters)
               m == Len(c.bound)
               k == Counted(c)
    <3>1. n \in Nat /\ m \in Nat /\ k = n + m
      BY <1>3, <2>1, <2>2
    <3> HIDE DEF n, m, k
    <3>2. ~(k < n)
      BY <3>1
    <3> QED
      BY <3>2 DEF n, k
  <2> QED
    BY <1>4, <2>3
<1>6. ASSUME NEW j \in DOMAIN source
      PROVE  /\ IsReference(source, j) => source[j].place # "word" /\ source[j].tail = Alone
             /\ source[j].kind = "native" => source[j].place = "operator"
  <2>1. j \in 1..L /\ LexicalItem(source[j])
    BY SourceIsSeq
  <2>2. IsReference(source, j) => source[j].place # "word" /\ source[j].tail = Alone
    BY <1>4, <1>5, <2>1 DEF Refused, Missed
  <2>3. source[j].kind = "native" => source[j].place = "operator"
    <3> HAVE source[j].kind = "native"
    <3>1. source[j] = Native(source[j].place) /\ source[j].place \in NativePlaces
      BY <2>1 DEF LexicalItem
    <3>2. source[j] # Native("dollar") /\ source[j] # Native("token")
          /\ source[j] # Native("value")
      BY <1>1, <1>2, <1>4, <2>1, <1>6 DEF Scannable, Refused, Foreign
    <3> QED
      BY <3>1, <3>2 DEF NativePlaces
  <2> QED
    BY <2>2, <2>3
<1> QED
  BY <1>6 DEF Clean

\* Every reference is in a written statement.
LEMMA ReferenceIsWritten ==
    ASSUME NEW source, Lexical(source), NEW i \in 1..Len(source), IsReference(source, i)
    PROVE  \E e \in Written(source) : \E k \in DOMAIN Part(source, e) :
              Part(source, e)[k] = source[i]
<1> DEFINE L == Len(source)
           E == {d \in Ends(source) : i < d}
<1>1. L \in Nat /\ i \in Nat
  BY SourceIsSeq
<1>2. L + 1 \in E /\ E \subseteq Nat
  BY <1>1 DEF Ends
<1>3. PICK e \in E : \A d \in E : e <= d
  <2> HIDE DEF E
  <2> QED
    BY <1>2, LeastExists
<1>4. e \in Ends(source) /\ i < e /\ e \in Nat
  BY <1>2, <1>3
<1> DEFINE b == Begin(source, e)
           k == i - b
<1>5. /\ b \in 0..(e - 1) /\ e \in 1..(L + 1)
      /\ DOMAIN Part(source, e) = 1..(e - 1 - b)
      /\ \A m \in 1..(e - 1 - b) : Part(source, e)[m] = source[b + m]
  BY <1>4, PartItems
<1>6. b < i
  <2>1. b = 0 \/ b \in Ends(source)
    BY <1>5, BeginIsLast
  <2>2. b # i
    <3>1. i \notin Ends(source)
      BY <1>1 DEF Ends, IsReference, SemiColon
    <3> QED
      BY <1>1, <2>1, <3>1
  <2>3. ~(i < b)
    <3> SUFFICES ASSUME i < b PROVE FALSE
      OBVIOUS
    <3>1. b \in E
      BY <1>1, <2>1
    <3>2. e <= b
      BY <1>3, <3>1
    <3> QED
      BY <1>4, <1>5, <3>2
  <2> QED
    BY <1>1, <1>5, <2>2, <2>3
<1> HIDE DEF b
<1>7. k \in 1..(e - 1 - b) /\ b + k = i
  BY <1>1, <1>4, <1>5, <1>6
<1> HIDE DEF k
<1>8. k \in DOMAIN Part(source, e) /\ Part(source, e)[k] = source[i]
  BY <1>5, <1>7
<1>9. e \in Written(source)
  BY <1>4, <1>8 DEF Written, Visible, IsReference
<1> QED
  BY <1>8, <1>9

\* What WellFormed says of a file, statement by statement.
LEMMA WellFormedParts ==
    ASSUME NEW source, Lexical(source), Clean(source)
    PROVE  WellFormed(source) <=>
              /\ Written(source) # {} /\ \A e \in Written(source) : PartOk(source, e)
              /\ ValidateParameters(Given(source)) /\ \A p \in Given(source) : Declarable(p)
<1>1. {source[i].of : i \in References(source)} = Given(source)
  BY DEF References, Given, IsReference
<1> DEFINE Good == \A i \in DOMAIN source : Proper(source[i])
           Begun(e) == /\ First(Part(source, e)).kind = "keyword"
                       /\ First(Part(source, e)).word # "BEGIN"
           Standing(e) == \A j \in DOMAIN Part(source, e) :
                             Part(source, e)[j].kind = "reference" =>
                                Part(source, e)[j].place = "value"
<1>2. Good <=> \A e \in Written(source) : Standing(e)
  <2>1. ASSUME Good, NEW e \in Written(source) PROVE Standing(e)
    <3>1. e \in Ends(source)
      BY DEF Written
    <3>2. ASSUME NEW j \in DOMAIN Part(source, e) PROVE Proper(Part(source, e)[j])
      <4>1. \E m \in 1..Len(source) : Part(source, e)[j] = source[m]
        <5> DEFINE b == Begin(source, e)
                   n == e - 1 - b
        <5>1. /\ DOMAIN Part(source, e) = 1..n
              /\ \A k \in 1..n : b + k \in 1..Len(source) /\ Part(source, e)[k] = source[b + k]
          BY <3>1, PartItems
        <5> HIDE DEF b, n
        <5> QED
          BY <5>1
      <4> QED
        BY <2>1, <4>1, SourceIsSeq
    <3> QED
      BY <3>2 DEF Proper
  <2>2. ASSUME \A e \in Written(source) : Standing(e), NEW i \in DOMAIN source
        PROVE  Proper(source[i])
    <3>1. i \in 1..Len(source)
      BY SourceIsSeq
    <3>2. IsReference(source, i) => source[i].place = "value"
      <4> HAVE IsReference(source, i)
      <4>1. PICK e \in Written(source) : \E k \in DOMAIN Part(source, e) :
               Part(source, e)[k] = source[i]
        BY <3>1, ReferenceIsWritten
      <4> QED
        BY <2>2, <4>1 DEF IsReference
    <3> QED
      BY <3>2 DEF Clean, Proper, IsReference
  <2> HIDE DEF Standing
  <2> QED
    BY <2>1, <2>2
<1>3. \A e \in Written(source) : PartOk(source, e) <=> Begun(e) /\ Standing(e)
  BY DEF PartOk
<1>4. WellFormed(source) <=>
         /\ Written(source) # {} /\ \A e \in Written(source) : Begun(e)
         /\ Good
         /\ ValidateParameters(Given(source)) /\ \A p \in Given(source) : Declarable(p)
  BY <1>1 DEF WellFormed
<1> HIDE DEF Good, Begun, Standing
<1> QED
  BY <1>2, <1>3, <1>4

\* compile: exactly the well formed files are compiled, apart from those in which
\* the digits behind a reference make the number of another one, and every
\* statement of a well formed file is executed with the parameters that are written
\* in it, for files of any length.
THEOREM Compilation ==
    ASSUME NEW source, Lexical(source)
    PROVE  ExecutedAsWritten(source, Compile(source))
<1> DEFINE L == Len(source)
           s == Scan(source)
           c == Cut(s)[L + 1]
           o == c.output
           W == Written(source)
           ps == Given(source)
           valid == ValidateParameters(ps) /\ \A p \in ps : Declarable(p)
<1>1. CASE ~Clean(source)
  <2>1. PICK i \in DOMAIN source :
           ~(/\ IsReference(source, i) => source[i].place # "word" /\ source[i].tail = Alone
             /\ source[i].kind = "native" => source[i].place = "operator")
    BY <1>1 DEF Clean
  <2>2. ~Proper(source[i])
    BY <2>1 DEF Proper, IsReference
  <2>3. ~WellFormed(source)
    BY <2>2 DEF WellFormed
  <2>4. ~Confused(source) => Compile(source) = <<>>
    BY <1>1, CompiledIsClean
  <2> QED
    BY <2>3, <2>4 DEF ExecutedAsWritten
<1>2. CASE Clean(source)
  <2>1. EndInv(source, L + 1, c)
    BY <1>2, CutInvHolds
  <2>2. ScanFacts(source, s)
    BY ScanFactsHold
  <2>3. L \in Nat /\ (L + 1) - 1 = L
    BY SourceIsSeq
  <2>4. Done(source, L + 1) = W /\ IsFiniteSet(W) /\ W \subseteq Ends(source)
    <3>1. L + 1 \in 0..(L + 1)
      BY <2>3
    <3>2. Done(source, L + 1) = W /\ IsFiniteSet(Done(source, L + 1))
      BY <3>1, DoneSteps
    <3> QED
      BY <3>2 DEF Written
  <2>5. ToSet(s.parameters) = ps /\ Len(s.parameters) = Len(Scanned(source)[L].parameters)
    BY <2>2 DEF ScanFacts
  <2>6. c.ok <=> \A e \in W : PartOk(source, e)
    BY <2>1, <2>4 DEF EndInv, NoneWrong
  <2>7. ASSUME c.ok
        PROVE  /\ o \in Seq(Statement(source))
               /\ Len(o) = Cardinality(W)
               /\ \A e \in W : StatementOf(source, e, o[Number(source, e)])
               /\ Bindings(o)[Len(o)] = Len(s.parameters)
    <3>1. EndOk(source, L + 1, c)
      BY <2>1, <2>7 DEF EndInv
    <3>2. /\ c \in CutType(source) /\ OutInv(source, L + 1, o)
          /\ CountInv(o, Len(s.parameters))
      BY <2>3, <2>5, <3>1 DEF EndOk
    <3> HIDE DEF c, s, L
    <3> QED
      BY <2>4, <3>2 DEF CutType, OutInv, CountInv
  <2>8. Scannable(source) <=> \A p \in ps : Declarable(p)
    <3>1. \A i \in DOMAIN source : source[i] # Native("dollar")
      BY <1>2 DEF Clean, Native
    <3> QED
      BY <3>1 DEF Scannable, Given, IsReference
  <2>9. Compile(source) = IF valid /\ c.ok /\ Bindings(o)[Len(o)] = Len(s.parameters)
                          THEN o ELSE <<>>
    BY <2>5, <2>8 DEF Compile
  <2>10. WellFormed(source) <=> W # {} /\ (\A e \in W : PartOk(source, e)) /\ valid
    BY <1>2, WellFormedParts
  <2> HIDE DEF c, s, W, ps, valid
  <2>11. CASE valid /\ c.ok
    <3>1. Compile(source) = o
      BY <2>7, <2>9, <2>11
    <3> HIDE DEF o
    <3>2. Len(o) \in Nat /\ (o = <<>> <=> Len(o) = 0)
      BY <2>7, <2>11, LenProperties, EmptySeq
    <3>3. Cardinality(W) = 0 <=> W = {}
      BY <2>4, FS_EmptySet
    <3>4. WellFormed(source) <=> o # <<>>
      BY <2>6, <2>7, <2>10, <2>11, <3>2, <3>3
    <3>5. ASSUME NEW e \in W
          PROVE  /\ Bound(o[Number(source, e)]) = Part(source, e)
                 /\ \A j \in DOMAIN o[Number(source, e)].sql :
                       o[Number(source, e)].sql[j].kind = "placeholder" =>
                          Glued(o[Number(source, e)].sql[j].n, o[Number(source, e)].sql[j].tail)
                             \in DOMAIN o[Number(source, e)].parameters
      <4>1. StatementOf(source, e, o[Number(source, e)]) /\ e \in Ends(source)
        BY <2>4, <2>7, <2>11
      <4> QED
        BY <1>2, <4>1, StatementIsWritten
    <3>6. Len(o) = Cardinality(W)
      BY <2>7, <2>11
    <3> QED
      BY <3>1, <3>4, <3>5, <3>6 DEF ExecutedAsWritten, W
  <2>12. CASE ~(valid /\ c.ok)
    <3>1. Compile(source) = <<>> /\ ~WellFormed(source)
      BY <2>6, <2>9, <2>10, <2>12
    <3> QED
      BY <3>1 DEF ExecutedAsWritten
  <2> QED
    BY <2>11, <2>12
<1> QED
  BY <1>1, <1>2

-----------------------------------------------------------------------------
(* The specification. *)

\* What has been loaded.
Loaded ==
    \/ \E s \in Sources : input = [kind |-> "source", source |-> s]
    \/ \E ps \in ParameterSets : input = [kind |-> "parameters", parameters |-> ps]
    \/ \E fs \in Snapshots : input = [kind |-> "snapshot", files |-> fs]

InterfacesInv ==
    /\ Loaded
    /\ StatementsBindTheirParameters
    /\ DocumentMatchesInput
    /\ MostSpecificPathAnswers

\* A file is compiled once.
LEMMA LoadInv == InterfacesInv /\ Load => InterfacesInv'
<1> SUFFICES ASSUME InterfacesInv, Load PROVE InterfacesInv'
  OBVIOUS
<1>1. /\ input.kind = "source" /\ input' = input
      /\ answer' = [status |-> 200, statements |-> Compile(input.source)]
  BY DEF Load
<1>2. input.source \in Sources
  BY <1>1 DEF InterfacesInv, Loaded
<1>3. ExecutedAsWritten(input.source, Compile(input.source))
  BY <1>2, SourcesAreLexical, Compilation
<1>4. answer'.statements = Compile(input.source)
  BY <1>1
<1> QED
  BY <1>1, <1>3, <1>4 DEF InterfacesInv, Loaded, StatementsBindTheirParameters,
     DocumentMatchesInput, MostSpecificPathAnswers

\* A request is checked against the parameters of its endpoint.
LEMMA SendInv == InterfacesInv /\ Send => InterfacesInv'
<1> SUFFICES ASSUME InterfacesInv, Send PROVE InterfacesInv'
  OBVIOUS
<1> DEFINE ps == input.parameters
<1>1. /\ input.kind = "parameters" /\ input' = input
      /\ \A p \in ps : Declarable(p)
      /\ ValidateParameters(ps)
  BY DEF Send
<1>2. PICK sent \in Inputs(ps) :
         answer' = [status |-> IF ValidateInput(ps, sent) THEN 200 ELSE 400, sent |-> sent]
  BY DEF Send
<1>3. ps \in ParameterSets
  BY <1>1 DEF InterfacesInv, Loaded
<1>4. IsFiniteSet(ps) /\ \A p \in ps : IsParameter(p)
  BY <1>3, ParametersAreTyped
<1>5. answer'.sent = sent /\ (answer'.status = 200 <=> ValidateInput(ps, sent))
  BY <1>2
<1> HIDE DEF ps
<1>6. Agree(ps, sent, ValidateInput(ps, sent))
  BY <1>1, <1>4, Agreement
<1>7. Agree(ps, answer'.sent, answer'.status = 200)
  BY <1>5, <1>6 DEF Agree
<1> QED
  BY <1>1, <1>7 DEF InterfacesInv, Loaded, StatementsBindTheirParameters,
     DocumentMatchesInput, MostSpecificPathAnswers, ps

\* A request finds its endpoint.
LEMMA RequestInv == InterfacesInv /\ Request => InterfacesInv'
<1> SUFFICES ASSUME InterfacesInv, Request PROVE InterfacesInv'
  OBVIOUS
<1> DEFINE fs == input.files
<1>1. input.kind = "snapshot" /\ input' = input /\ Accepted(fs)
  BY DEF Request
<1>2. PICK method \in Methods, values \in Paths :
         answer' = [status |-> 200, method |-> method, values |-> values,
                    reply |-> Resolve(fs, method, values)]
  BY DEF Request
<1>3. fs \in Snapshots
  BY <1>1 DEF InterfacesInv, Loaded
<1>4. IsFiniteSet(fs) /\ (\A f \in fs : IsFile(f)) /\ values \in Seq(STRING)
  BY <1>3, SnapshotsAreFiles, PathsAreTexts
<1>5. /\ answer'.method = method /\ answer'.values = values
      /\ answer'.reply = Resolve(fs, method, values)
  BY <1>2
<1> HIDE DEF fs
<1>6. MostSpecific(fs, method, values, Resolve(fs, method, values))
  BY <1>1, <1>4, Resolution
<1> QED
  BY <1>1, <1>5, <1>6 DEF InterfacesInv, Loaded, StatementsBindTheirParameters,
     DocumentMatchesInput, MostSpecificPathAnswers, fs

LEMMA InterfacesInvariance == InterfacesSpec => []InterfacesInv
<1>1. InterfacesInit => InterfacesInv
  BY DEF InterfacesInit, InterfacesInv, Loaded, StatementsBindTheirParameters,
     DocumentMatchesInput, MostSpecificPathAnswers
<1>2. InterfacesInv /\ UNCHANGED interfacesVars => InterfacesInv'
  BY DEF InterfacesInv, Loaded, StatementsBindTheirParameters,
     DocumentMatchesInput, MostSpecificPathAnswers, interfacesVars
<1>3. InterfacesInv /\ [InterfacesNext]_interfacesVars => InterfacesInv'
  BY <1>2, LoadInv, SendInv, RequestInv DEF InterfacesNext
<1> QED
  BY <1>1, <1>3, PTL DEF InterfacesSpec

\* compile, for files of any length: the statements are executed as written.
THEOREM StatementsAreWritten == InterfacesSpec => []StatementsBindTheirParameters
<1>1. InterfacesInv => StatementsBindTheirParameters
  BY DEF InterfacesInv
<1> QED
  BY <1>1, InterfacesInvariance, PTL

\* The document of build_openapi and validate_input agree on every request, for
\* any set of parameters that an interface can have.
THEOREM DocumentsMatch == InterfacesSpec => []DocumentMatchesInput
<1>1. InterfacesInv => DocumentMatchesInput
  BY DEF InterfacesInv
<1> QED
  BY <1>1, InterfacesInvariance, PTL

\* resolve, for every snapshot that from_files accepts and every request.
THEOREM RoutesAreSpecific == InterfacesSpec => []MostSpecificPathAnswers
<1>1. InterfacesInv => MostSpecificPathAnswers
  BY DEF InterfacesInv
<1> QED
  BY <1>1, InterfacesInvariance, PTL
=============================================================================
