---- MODULE MCContracts ----
EXTENDS Contracts

\* Schemas: every graph of four nodes with up to two edges each, and records of
\* a document, two branches and two definitions of columns.

Node(type, properties, ref, allOf, anyOf, other) ==
    [type |-> type, properties |-> properties, ref |-> ref, allOf |-> allOf,
     anyOf |-> anyOf, other |-> other]

Pairs == {<<>>} \cup {<<a>> : a \in 1..4}
         \cup {<<p[1], p[2]>> : p \in {q \in (1..4) \X (1..4) : q[1] < q[2]}}
Inner(edges) == Node(Types, NoColumns, <<>>, edges, <<>>, <<>>)
Graphs == {<<Inner(a), Inner(b), Inner(c), Inner(d)>> :
              a \in Pairs, b \in Pairs, c \in Pairs, d \in Pairs}

Documents ==
    {Node({"object"}, p, b.ref, b.allOf, b.anyOf, b.other) :
        p \in {NoColumns, [x |-> 4]},
        b \in {[ref |-> <<>>, allOf |-> <<>>, anyOf |-> <<2, 3>>, other |-> <<>>],
               [ref |-> <<>>, allOf |-> <<2, 3>>, anyOf |-> <<>>, other |-> <<>>],
               [ref |-> <<2>>, allOf |-> <<>>, anyOf |-> <<>>, other |-> <<3>>]}}
Alternatives ==
    {Node(Types, p, ref, <<>>, <<>>, <<>>) :
        p \in {NoColumns, [x |-> 4], [x |-> 5], [y |-> 5], [x |-> 5, y |-> 4]},
        ref \in {<<>>, <<3>>}}
Leaves ==
    {Node(t, NoColumns, <<>>, <<>>, <<>>, <<>>) :
        t \in {{"string"}, {"boolean", "null"}, {"number"}, {"array"},
               {"string", "number"}}}
Definitions == Leaves \cup {Node(Types, NoColumns, <<>>, <<>>, <<5>>, <<>>)}

SmallSchemas ==
    Graphs \cup
    {<<d, a, b, e, f>> : d \in Documents, a \in Alternatives, b \in Alternatives,
                         e \in Definitions, f \in Leaves}
====
