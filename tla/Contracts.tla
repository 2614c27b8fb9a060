----------------------------- MODULE Contracts -----------------------------
(***************************************************************************)
(* Response contracts: src/schema.rs and Contract of src/response.rs.      *)
(* Contract::new first searches the schema for cycles of references, then  *)
(* computes which JSON types the columns may have, and decides from that   *)
(* how the cells of a row are decoded.                                     *)
(*                                                                         *)
(* A schema is a graph of nodes, the schema locations of the document; the *)
(* first one is the document itself. A node has the types it allows, its   *)
(* properties, its $ref, the branches of allOf, and those of anyOf or      *)
(* oneOf. Other keywords only restrict what a node allows. A value is its  *)
(* JSON type: what an object or array holds is decoded together with it.   *)
(***************************************************************************)
EXTENDS Integers, FiniteSets, Sequences, SequencesExt, FiniteSetsExt, Functions

CONSTANTS Schemas       \* the normalized schemas to look at

\* normalize has resolved every reference to a location of the document.
ASSUME SchemasAreGraphs ==
    \A s \in Schemas :
        /\ DOMAIN s \subseteq Nat /\ IsFiniteSet(DOMAIN s)
        /\ \A n \in DOMAIN s :
              /\ s[n].ref \in Seq(DOMAIN s) /\ s[n].allOf \in Seq(DOMAIN s)
              /\ s[n].anyOf \in Seq(DOMAIN s) /\ s[n].other \in Seq(DOMAIN s)

Root == 1
Types == {"string", "boolean", "number", "object", "array", "null"}

VARIABLES
    schema,
    starts,     \* keys of the graph that are still to be searched from
    stack, active, complete,    \* reject_nonprogressing_cycles
    verdict

vars == <<schema, starts, stack, active, complete, verdict>>

Nodes == DOMAIN schema

-----------------------------------------------------------------------------
(* reject_nonprogressing_cycles. *)

\* The edges of a node: what applies to the same value. Properties and items
\* descend into it and are none.
Edges(n) ==
    schema[n].ref \o schema[n].allOf \o schema[n].anyOf \o schema[n].other

Visit(n) == [node |-> n, leaving |-> FALSE]
\* Defect: a node is never left, so that two ways to it look like a cycle.
EdgesOnly(n) == [i \in DOMAIN Edges(n) |-> Visit(Edges(n)[i])]
\* A node is left after everything it leads to has been visited.
Pushed(n) ==
    <<[node |-> n, leaving |-> TRUE]>>
    \o [i \in DOMAIN Edges(n) |-> Visit(Edges(n)[i])]

\* The outer loop: a search from the next key, with nothing active.
Start ==
    /\ verdict = "searching" /\ stack = <<>> /\ starts # {}
    /\ stack' = <<Visit(Min(starts))>>
    /\ starts' = starts \ {Min(starts)}
    /\ active' = {}
    /\ UNCHANGED <<schema, complete, verdict>>

Popped == Last(stack)
Pop == Front(stack)

Leave ==
    /\ verdict = "searching" /\ stack # <<>>
    /\ Popped.leaving
    /\ active' = active \ {Popped.node}
    /\ complete' = complete \cup {Popped.node}
    /\ stack' = Pop
    /\ UNCHANGED <<schema, starts, verdict>>

Skip ==
    /\ verdict = "searching" /\ stack # <<>>
    /\ ~Popped.leaving /\ Popped.node \in complete
    /\ stack' = Pop
    /\ UNCHANGED <<schema, starts, active, complete, verdict>>

Reject ==
    /\ verdict = "searching" /\ stack # <<>>
    /\ ~Popped.leaving /\ Popped.node \notin complete
    /\ Popped.node \in active
    /\ verdict' = "cycle"
    /\ UNCHANGED <<schema, starts, stack, active, complete>>

Enter ==
    /\ verdict = "searching" /\ stack # <<>>
    /\ ~Popped.leaving /\ Popped.node \notin complete
    /\ Popped.node \notin active
    /\ active' = active \cup {Popped.node}
    /\ stack' = Pop \o Pushed(Popped.node)
    /\ UNCHANGED <<schema, starts, complete, verdict>>

-----------------------------------------------------------------------------
(* types and properties. Both follow references; they come after the search, *)
(* so that no way is longer than the number of nodes and their own set of    *)
(* active references never stops them.                                       *)

Branches(n) == Range(schema[n].ref) \cup Range(schema[n].allOf)

\* types: which types a value of a node may have, as far as type, $ref, allOf
\* and the union say. A node has one union, its anyOf or its oneOf; the code takes
\* both of one that has both, one after the other.
TypesStep(below) ==
    [n \in Nodes |->
        {t \in schema[n].type :
            /\ \A m \in Branches(n) : t \in below[m]
            /\ schema[n].anyOf # <<>> =>
                  \E m \in Range(schema[n].anyOf) : t \in below[m]}]
TypesUpTo[d \in 0..Cardinality(Nodes)] ==
    IF d = 0 THEN [n \in Nodes |-> Types] ELSE TypesStep(TypesUpTo[d - 1])
TypesOf(n) == TypesUpTo[Cardinality(Nodes)][n]

\* The columns of a node. The names of a union's alternatives are fixed: each
\* one, with those of the node itself, gives the same set.
FixedNames(own, alternatives) ==
    \A f, g \in alternatives : own \cup DOMAIN f = own \cup DOMAIN g
\* merge: every definition of a column holds.
Merged(definitions) ==
    [c \in UNION {DOMAIN f : f \in definitions} |->
        {t \in Types : \A f \in definitions : c \in DOMAIN f => t \in f[c]}]
\* A column an alternative does not define may be anything there.
Union(alternatives) ==
    [c \in UNION {DOMAIN f : f \in alternatives} |->
        UNION {IF c \in DOMAIN f THEN f[c] ELSE Types : f \in alternatives}]

\* collect: for each column the types it may have, which is all that is made of
\* its definition.
NoColumns == [c \in {} |-> {}]
Direct(n) ==
    [c \in DOMAIN schema[n].properties |-> TypesOf(schema[n].properties[c])]
CollectStep(below) ==
    [n \in Nodes |->
        LET own == Merged({Direct(n)} \cup {below[m].columns : m \in Branches(n)})
            alternatives == {below[m].columns : m \in Range(schema[n].anyOf)}
        IN  [ok |-> /\ \A m \in Branches(n) \cup Range(schema[n].anyOf) : below[m].ok
                    /\ FixedNames(DOMAIN own, alternatives),
             columns |-> Merged({own, Union(alternatives)})]]
CollectUpTo[d \in 0..Cardinality(Nodes)] ==
    IF d = 0 THEN [n \in Nodes |-> [ok |-> TRUE, columns |-> NoColumns]]
    ELSE CollectStep(CollectUpTo[d - 1])
Collected == CollectUpTo[Cardinality(Nodes)][Root]
Columns == Collected.columns

-----------------------------------------------------------------------------
(* Contract::new, after normalize. *)

Structured(types) == types \cap {"object", "array"} # {}
Boolean(types) == "boolean" \in types

\* Defect: a column of numbers and booleans is not refused.
AmbiguousText(types) == Structured(types) /\ "string" \in types
Ambiguous(types) ==
    \/ Structured(types) /\ "string" \in types
    \/ Boolean(types) /\ "number" \in types

NewContract ==
    /\ verdict = "searching" /\ stack = <<>> /\ starts = {}
    /\ verdict' = IF \/ TypesOf(Root) # {"object"}
                     \/ ~Collected.ok
                     \/ \E c \in DOMAIN Columns : Ambiguous(Columns[c])
                  THEN "refused" ELSE "accepted"
    /\ UNCHANGED <<schema, starts, stack, active, complete>>

-----------------------------------------------------------------------------
(* Contract::record for one cell, and what a driver made of a value. *)

\* How a value of a type comes back: the embedded database keeps booleans as
\* integers, and structures as text, which PostgreSQL may do as well.
Stored(value, turso) ==
    CASE value = "boolean" -> {IF turso THEN "integer" ELSE "boolean"}
      [] value = "number" -> {"integer", "real"}
      [] value = "string" -> {"text"}
      [] value \in {"object", "array"} -> IF turso THEN {"json text"}
                                                   ELSE {"json text", "json"}
      [] value = "null" -> {"null"}

\* The value record makes of a cell; the text or JSON document is that of value.
Decoded(cell, value, types, turso) ==
    CASE cell = "null" -> "null"
      [] cell = "boolean" -> "boolean"
      [] cell = "integer" -> IF turso /\ Boolean(types) THEN "boolean" ELSE "number"
      [] cell = "real" -> "number"
      [] cell = "json" -> value
      [] cell = "json text" -> IF Structured(types) THEN value ELSE "string"
      [] cell = "text" -> IF Structured(types) THEN "error" ELSE "string"

-----------------------------------------------------------------------------
(* What a schema means: the validator's view, value by value. A value        *)
(* satisfies a node if there are nodes, this one among them, whose own       *)
(* keywords hold of it and that contain what their references, allOf and     *)
(* unions ask for.                                                           *)

Supported(n, S) ==
    /\ Branches(n) \subseteq S
    /\ schema[n].anyOf # <<>> => Range(schema[n].anyOf) \cap S # {}

\* A value of type v satisfies node n.
Satisfies(n, v) ==
    \E S \in SUBSET Nodes :
        n \in S /\ \A m \in S : v \in schema[m].type /\ Supported(m, S)

\* A record with exactly the columns of the contract satisfies the schema.
Records == [DOMAIN Columns -> Types]
ValidRecord(r) ==
    \E S \in SUBSET Nodes :
        /\ Root \in S
        /\ \A m \in S :
              /\ "object" \in schema[m].type
              /\ \A c \in DOMAIN schema[m].properties \cap DOMAIN r :
                    Satisfies(schema[m].properties[c], r[c])
              /\ Supported(m, S)

-----------------------------------------------------------------------------

Init ==
    /\ schema \in Schemas
    /\ starts = Nodes
    /\ stack = <<>>
    /\ active = {}
    /\ complete = {}
    /\ verdict = "searching"

Next == Start \/ Leave \/ Skip \/ Reject \/ Enter \/ NewContract

Spec == Init /\ [][Next]_vars

-----------------------------------------------------------------------------

\* No set of nodes leads only back into itself.
Acyclic ==
    \A S \in SUBSET Nodes : S # {} =>
        \E n \in S : Range(Edges(n)) \cap S = {}

\* The search refuses a schema exactly if its references can be followed for
\* ever without descending into the value: neither is such a cycle missed, on
\* which types and the validator would not end, nor are two ways to the same
\* definition taken for one.
CyclesAreRejected ==
    /\ verdict = "cycle" => ~Acyclic
    /\ verdict \in {"accepted", "refused"} => Acyclic

\* What the database stores of a record that satisfies an accepted schema is
\* answered as that record: true does not come back as 1, nor a string as JSON.
DecodingIsFaithful ==
    verdict = "accepted" =>
        \A r \in Records, turso \in BOOLEAN : ValidRecord(r) =>
            \A c \in DOMAIN r : \A cell \in Stored(r[c], turso) :
                Decoded(cell, r[c], Columns[c], turso) = r[c]
=============================================================================
