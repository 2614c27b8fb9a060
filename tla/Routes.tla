------------------------------- MODULE Routes -------------------------------
(***************************************************************************)
(* The routing of src/loader.rs: which sets of interface files make a      *)
(* snapshot, and which endpoint a request is resolved to.  A file is its   *)
(* method, the segments of its directory, its source, and whether there is *)
(* a response schema beside it.                                            *)
(***************************************************************************)
EXTENDS Statements, FiniteSets, FiniteSetsExt, Functions

\* Segment: Static or Dynamic, in the order of the sort key.
Segment == [kind: {0, 1}, name: STRING]
Static(s) == [kind |-> 0, name |-> s]
Dynamic(s) == [kind |-> 1, name |-> s]
IsFile(f) == f.segments \in Seq(Segment)

Places(f) == DOMAIN f.segments
IsDynamic(f, i) == f.segments[i].kind = 1
DynamicNames(f) == {f.segments[i].name : i \in {j \in Places(f) : IsDynamic(f, j)}}

\* The directory with the names of its parameters left out, up to place i.
Structural(f, i) ==
    [j \in 1..i |-> IF IsDynamic(f, j) THEN Dynamic("") ELSE f.segments[j]]

-----------------------------------------------------------------------------
(* Snapshot::from_files *)

NoRepeatedName(f) ==
    \A i, j \in Places(f) : IsDynamic(f, i) /\ f.segments[i] = f.segments[j] => i = j

\* dynamic_prefixes: one name for the parameter after a structural prefix.
SameDynamicNames(f, g) ==
    \A i \in Places(f) \cap Places(g) :
        IsDynamic(f, i) /\ Structural(f, i) = Structural(g, i) =>
            f.segments[i] = g.segments[i]

\* routes: a method is defined once for a structure.
NoDuplicate(f, g) ==
    f # g /\ f.method = g.method =>
        Structural(f, Len(f.segments)) # Structural(g, Len(g.segments))

\* The parameters of all statements of a file.
EndpointParameters(f) ==
    UNION {ToSet(Compile(f.source)[i].parameters) : i \in DOMAIN Compile(f.source)}
PathNames(f) ==
    {p.fields[1] : p \in {q \in EndpointParameters(f) : q.source = "path"}}

SegmentsAreReferences(f) == DynamicNames(f) = PathNames(f)

\* A file by itself: it compiles, reads what its path has, and says what its
\* rows look like.
FileOk(f) ==
    /\ NoRepeatedName(f)
    /\ Compile(f.source) # <<>>
    /\ SegmentsAreReferences(f)
    /\ Last(Compile(f.source)).rows => f.contract

Accepted(files) ==
    /\ \A f \in files : FileOk(f)
    /\ \A f, g \in files : SameDynamicNames(f, g) /\ NoDuplicate(f, g)

\* The sort key: kinds are compared from the left.
Kinds(f) == [i \in Places(f) |-> f.segments[i].kind]
\* Defect: the last difference decides.
LastDifference(a, b) ==
    \E i \in DOMAIN a \cap DOMAIN b :
        /\ a[i] < b[i]
        /\ \A j \in DOMAIN a \cap DOMAIN b : j > i => a[j] = b[j]
\* The order of vectors: the first difference decides, and a prefix comes first.
Before(a, b) ==
    \/ \E i \in DOMAIN a \cap DOMAIN b :
          a[i] < b[i] /\ \A j \in 1..(i - 1) : a[j] = b[j]
    \/ Len(a) < Len(b) /\ \A j \in DOMAIN a : a[j] = b[j]

\* The endpoints in the order of their keys; which of two with the same key comes
\* first makes no difference.
Ordered(endpoints) ==
    \A i, j \in DOMAIN endpoints :
        i < j => ~Before(Kinds(endpoints[j]), Kinds(endpoints[i]))
Endpoints(files) ==
    CHOOSE s \in [1..Cardinality(files) -> files] : Range(s) = files /\ Ordered(s)

-----------------------------------------------------------------------------
(* Snapshot::resolve *)

\* captures succeeds: an empty segment matches nothing. (Nor does one with a slash,
\* which no value here has: the path has been split at its slashes.)
Matches(f, values) ==
    /\ Len(f.segments) = Len(values)
    /\ \A i \in Places(f) : /\ values[i] # ""
                            /\ IsDynamic(f, i) \/ f.segments[i].name = values[i]

\* The path parameters of an endpoint that matches.
Captures(f, values) ==
    [n \in DynamicNames(f) |->
        values[CHOOSE i \in Places(f) : f.segments[i] = Dynamic(n)]]

NotFound == [status |-> 404]
NotAllowed(methods) == [status |-> 405, allowed |-> methods]
Resolved(f, values) ==
    [status |-> 200, endpoint |-> f, parameters |-> Captures(f, values)]

\* The first endpoint that matches chooses the path; the method is looked for
\* among those of that path.
Resolve(files, method, values) ==
    LET endpoints == Endpoints(files)
        matching == {i \in DOMAIN endpoints : Matches(endpoints[i], values)}
        path == endpoints[Min(matching)].segments
        samePath == {i \in DOMAIN endpoints : endpoints[i].segments = path}
        sameMethod == {i \in samePath : endpoints[i].method = method}
    IN  IF matching = {} THEN NotFound
        ELSE IF sameMethod = {} THEN NotAllowed({endpoints[i].method : i \in samePath})
        ELSE Resolved(endpoints[Min(sameMethod)], values)

-----------------------------------------------------------------------------
(* The reference. *)

\* f is the more specific of two endpoints that match: it is static where they
\* first differ in kind.
Beats(f, g) ==
    \E i \in Places(f) \cap Places(g) :
        /\ ~IsDynamic(f, i) /\ IsDynamic(g, i)
        /\ \A j \in Places(f) \cap Places(g) :
              j < i => (IsDynamic(f, j) <=> IsDynamic(g, j))

\* The endpoints that no other one beats. Where the routing is right they are
\* the methods of one path, and their captures name every parameter.
Best(files, values) ==
    {f \in files : /\ Matches(f, values)
                   /\ \A g \in files : Matches(g, values) => ~Beats(g, f)}

\* The answer to a request: that of the best path. Every path parameter its
\* statements read is the segment of the request that bears its name.
MostSpecific(files, method, values, answer) ==
    LET best == Best(files, values)
        mine == {f \in best : f.method = method}
    IN  /\ \A f, g \in best : f.segments = g.segments
        /\ CASE best = {} -> answer = NotFound
             [] best # {} /\ mine = {} ->
                    answer = NotAllowed({f.method : f \in best})
             [] OTHER ->
                    /\ answer.status = 200
                    /\ answer.endpoint \in mine
                    /\ \A n \in PathNames(answer.endpoint) : \E i \in DOMAIN values :
                          /\ answer.endpoint.segments[i] = Dynamic(n)
                          /\ n \in DOMAIN answer.parameters
                          /\ answer.parameters[n] = values[i]
=============================================================================
