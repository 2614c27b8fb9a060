---------------------------- MODULE Parameters ----------------------------
(***************************************************************************)
(* The typed parameters of src/params.rs: which of them an interface may   *)
(* declare together, how they are read from a request, and the request     *)
(* body that the OpenAPI document of src/loader.rs describes for them.     *)
(*                                                                         *)
(* A parameter has a source, the names on its way into the input and a     *)
(* type.  A type is a scalar, or an array of one, and may be nullable:     *)
(* Type::parse allows no other nesting. Values are told apart as far as    *)
(* the types do: "integral" is a number like 1.0, "huge" an integer that   *)
(* does not fit into 64 bits.                                              *)
(***************************************************************************)
EXTENDS Integers, FiniteSets, Sequences, SequencesExt, Functions

\* Parameter and Type.
Type == [scalar: STRING, array: BOOLEAN, nullable: BOOLEAN]
IsParameter(p) == p.fields \in Seq(STRING) /\ p.fields # <<>> /\ p.ty \in Type

Scalar(s) == [scalar |-> s, array |-> FALSE, nullable |-> FALSE]
Numbers == {"integer", "huge", "integral", "fraction"}

\* Values: a scalar or null, an array of scalars, or an object.
Leaf(k) == [json |-> k]
ArrayOf(ks) == [json |-> "array", items |-> ks]
Object(at) == [json |-> "object", at |-> at]

\* What read answers instead of a value.
Missing == [json |-> "missing"]
Mismatch == [json |-> "mismatch"]
IsValue(v) == v \notin {Missing, Mismatch}

\* Parameter::parse: path and query have one name and are scalars.
Declarable(p) ==
    /\ p.fields # <<>>
    /\ p.source # "body" => Len(p.fields) = 1 /\ p.ty = Scalar(p.ty.scalar)

-----------------------------------------------------------------------------
(* Type::check and Type::schema. *)

CheckScalar(s) ==
    CASE s = "string" -> {"string"}
      [] s = "boolean" -> {"boolean"}
      [] s = "int64" -> {"integer"}
      [] s = "float64" -> Numbers

\* The scalars that satisfy the JSON schema of the type: JSON knows no
\* difference between 1 and 1.0.
DescribedScalar(s) ==
    IF s = "int64" THEN {"integer", "integral"} ELSE CheckScalar(s)

\* Of a type with some scalars.
Fits(ty, v, scalars) ==
    \/ ty.nullable /\ v.json = "null"
    \/ ty.array /\ v.json = "array" /\ v.items \subseteq scalars
    \/ ~ty.array /\ v.json \in scalars

Check(ty, v) == Fits(ty, v, CheckScalar(ty.scalar))
Described(ty, v) == Fits(ty, v, DescribedScalar(ty.scalar))

-----------------------------------------------------------------------------
(* Parameter::read. *)

\* One field further into a value.
Field(v, name) ==
    IF ~IsValue(v) THEN v
    ELSE IF v.json # "object" THEN Mismatch
    ELSE IF name \notin DOMAIN v.at THEN Missing
    ELSE v.at[name]

\* The values on a way of names into a value, and the one at its end.
Along(v, way) ==
    LET at[i \in 0..Len(way)] == IF i = 0 THEN v ELSE Field(at[i - 1], way[i])
    IN  at
At(v, way) == Along(v, way)[Len(way)]

ReadBody(p, body) ==
    LET v == At(body, p.fields)
    IN  IF IsValue(v) /\ ~Check(p.ty, v) THEN Mismatch ELSE v

\* A path or query parameter is a text; it is told apart by what it looks like.
\* A 64 bit integer has digits only, a float the grammar of JSON numbers.
ReadText(p, texts) ==
    LET text == texts[p.fields[1]]
        s == p.ty.scalar
    IN  IF p.fields[1] \notin DOMAIN texts THEN Missing
        ELSE IF s = "string" THEN Leaf("string")
        ELSE IF text \in CheckScalar(s) THEN Leaf(text)
        ELSE Mismatch

Read(p, input) ==
    IF p.source = "body" THEN ReadBody(p, input.body) ELSE ReadText(p, input[p.source])

\* Endpoint::validate_input: every parameter is read before any SQL runs.
ValidateInput(params, input) == \A p \in params : IsValue(Read(p, input))

-----------------------------------------------------------------------------
(* validate_parameters. *)

\* Defect: a value may also be the parent of another one.
SameType(p, q) == p.source = q.source /\ p.fields = q.fields => p.ty = q.ty
\* One type for a field; no value that is also an object with fields.
Compatible(p, q) ==
    p.source = q.source =>
        IF p.fields = q.fields THEN p.ty = q.ty
        ELSE ~IsPrefix(p.fields, q.fields) /\ ~IsPrefix(q.fields, p.fields)

ValidateParameters(params) == \A p, q \in params : Compatible(p, q)

-----------------------------------------------------------------------------
(* insert_body and build_openapi: the schema of the body, by the way to each *)
(* of its properties; every property is required. A leaf has a type, what is *)
(* on the way to it is an object.                                            *)

Inside == [object |-> TRUE]
Panic == [w \in {<<>>} |-> Inside]

\* The parents that are missing become objects; one that is a leaf has no list
\* of required names.
InsertBody(doc, p) ==
    LET parents == {SubSeq(p.fields, 1, i) : i \in 1..(Len(p.fields) - 1)}
        kept == {w \in DOMAIN doc : ~IsPrefix(p.fields, w)}
    IN  IF doc = Panic \/ \E w \in parents \cap DOMAIN doc : doc[w] # Inside
        THEN Panic
        ELSE [w \in kept \cup parents \cup {p.fields} |->
                 IF w = p.fields THEN p.ty ELSE IF w \in kept THEN doc[w] ELSE Inside]

NoBody == [w \in {} |-> Inside]
InsertBodies(ps) ==
    LET doc[i \in 0..Len(ps)] ==
            IF i = 0 THEN NoBody ELSE InsertBody(doc[i - 1], ps[i])
    IN  doc
\* Parameters are sorted by their path, so that a parent comes before its fields.
SortedByPath(ps) ==
    CHOOSE s \in [1..Cardinality(ps) -> ps] :
        /\ Range(s) = ps
        /\ \A i, j \in DOMAIN s : i < j => Len(s[i].fields) <= Len(s[j].fields)
BodySchema(params) ==
    LET ps == SortedByPath({p \in params : p.source = "body"})
    IN  InsertBodies(ps)[Len(ps)]

\* A body satisfies the schema. No body is described where none is read.
DescribedBody(doc, body) ==
    \A w \in DOMAIN doc :
        LET v == At(body, w)
        IN  IsValue(v) /\ IF doc[w] = Inside THEN v.json = "object"
                          ELSE Described(doc[w], v)

-----------------------------------------------------------------------------

\* A number like 1.0 is sent where 64 bit integers are expected: the one case in
\* which the schema of a type and its check differ.
IntegralForInt64(p, body) ==
    LET v == At(body, p.fields)
    IN  /\ p.ty.scalar = "int64"
        /\ v.json = "integral" \/ (v.json = "array" /\ "integral" \in v.items)

\* The document and the checks agree on a request: what validate_input accepts
\* is described, and what is described is accepted but for 1.0 as an int64.
Agree(params, input, accepted) ==
    LET doc == BodySchema(params)
        texts == {p \in params : p.source # "body"}
        described == /\ \A p \in texts : IsValue(Read(p, input))
                     /\ DescribedBody(doc, input.body)
    IN  /\ doc # Panic
        /\ accepted => described
        /\ described /\ ~accepted =>
              \E p \in params : p.source = "body" /\ IntegralForInt64(p, input.body)
        /\ \A p \in texts : LET v == Read(p, input) IN IsValue(v) => Described(p.ty, v)
=============================================================================
