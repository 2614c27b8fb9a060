---- MODULE MCInterfaces ----
EXTENDS Interfaces, MCContracts

\* Files: all of up to four items, those of five plain ones, and some of nine to
\* eleven references. Two parameters can be used in any of them, a list in the
\* query cannot be declared.

Parameter(source, fields, ty) == [source |-> source, fields |-> fields, ty |-> ty]
Id == Parameter("path", <<"p">>, Scalar("int64"))
Note == Parameter("body", <<"a">>, Scalar("string"))
List == Parameter("query", <<"a">>, [Scalar("int64") EXCEPT !.array = TRUE])

Digit(d) == [shift |-> 10, add |-> d]

PlainItems == {Keyword("SELECT"), Quoted, Comment, SemiColon,
               Reference(Id, "value", Alone), Reference(Note, "value", Alone)}
Items == PlainItems \cup
         {Keyword("BEGIN"), Reference(List, "value", Alone),
          Reference(Note, "name", Alone), Reference(Note, "word", Alone),
          Reference(Id, "value", Digit(0)), Reference(Id, "value", Letters)}
         \cup {Native(place) : place \in NativePlaces}
\* n references in one statement or two, the first of them with a tail.
Long(n, tail, end) ==
    <<Keyword("SELECT"), Reference(Id, "value", tail)>> \o end \o
    [i \in 1..(n - 1) |-> Reference(Note, "value", Alone)]
LongSources ==
    {Long(n, tail, end) : n \in 9..11, tail \in {Alone, Letters, Digit(0), Digit(1)},
                          end \in {<<>>, <<SemiColon, Keyword("SELECT")>>}}
SmallSources ==
    UNION {[1..n -> Items] : n \in 0..4} \cup [1..5 -> PlainItems] \cup LongSources

-----------------------------------------------------------------------------
\* Parameters: up to two of them, with names on one or two levels.

TypesOfParameters ==
    {Scalar("string"), Scalar("int64"), Scalar("float64"), Scalar("boolean"),
     [scalar |-> "int64", array |-> TRUE, nullable |-> FALSE],
     [scalar |-> "string", array |-> FALSE, nullable |-> TRUE]}
BodyFields == {Parameter("body", w, ty) :
               w \in {<<"a">>, <<"b">>, <<"a", "a">>, <<"a", "b">>},
               ty \in TypesOfParameters}
Queries == {Parameter("query", <<"a">>, Scalar(s)) :
               s \in {"string", "int64", "float64", "boolean"}}
SmallParameterSets ==
    {{}} \cup {{p, q} : p \in BodyFields \cup Queries, q \in BodyFields}

LeafValues == {Leaf(k) : k \in {"string", "integer", "huge", "integral", "null"}}
              \cup {ArrayOf({}), ArrayOf({"integer", "integral"})}
Inners == {Object(at) : at \in UNION {[ns -> LeafValues] : ns \in SUBSET {"a", "b"}}}
JsonBodies ==
    LeafValues \cup
    {Object(at) : at \in [{"a"} -> LeafValues \cup Inners]} \cup
    {Object(at) : at \in [{"b"} -> LeafValues]} \cup
    {Object([n \in {"a", "b"} |-> IF n = "a" THEN v ELSE w]) :
        v \in LeafValues \cup Inners, w \in {Leaf("string"), Leaf("null")}}
NoTexts == [n \in {} |-> ""]
Texts(parameters) ==
    {NoTexts} \cup
    {[a |-> t] : t \in IF parameters \cap Queries = {} THEN {}
                      ELSE {"string", "boolean", "integer", "huge", "fraction"}}
SmallInputs(parameters) == [body: JsonBodies, query: Texts(parameters)]

-----------------------------------------------------------------------------
\* Files of a snapshot: up to three, with up to two segments. A file reads the
\* parameters of its path; one by itself may read others.

SegmentNames == {Static("a"), Static("b"), Dynamic("p"), Dynamic("q")}
Directories == UNION {[1..n -> SegmentNames] : n \in 0..2}
Reads(names) ==
    <<Keyword("SELECT")>> \o
    [i \in 1..Len(SetToSeq(names)) |->
        Reference(Parameter("path", <<SetToSeq(names)[i]>>, Scalar("string")), "value",
                  Alone)]
File(method, segments, names) ==
    [method |-> method, segments |-> segments, source |-> Reads(names),
     contract |-> TRUE]
NamesIn(segments) == {s.name : s \in {t \in Range(segments) : t.kind = 1}}
Files == {File(m, d, NamesIn(d)) : m \in {"get", "put"}, d \in Directories}
OddFiles == {File("get", d, names) : d \in Directories, names \in SUBSET {"p", "q"}}
SmallSnapshots ==
    {{f} : f \in OddFiles \cup Files} \cup {{f, g, h} : f, g, h \in Files}
SmallPaths == UNION {[1..n -> {"a", "b", ""}] : n \in 0..2}

-----------------------------------------------------------------------------
\* A behaviour is about a schema, or about a file, parameters or a snapshot.

NoSchema ==
    /\ schema = <<>> /\ starts = {} /\ stack = <<>> /\ active = {} /\ complete = {}
    /\ verdict = "none"
NoInput == input = [kind |-> "none"] /\ answer = None

MCInit == (Init /\ NoInput) \/ (InterfacesInit /\ NoSchema)
MCNext ==
    \/ Next /\ UNCHANGED interfacesVars
    \/ InterfacesNext /\ UNCHANGED vars
MCSpec == MCInit /\ [][MCNext]_<<vars, interfacesVars>>
====
