----------------------------- MODULE Interfaces -----------------------------
(***************************************************************************)
(* What interface files mean to those who write and call them: the         *)
(* statements of a file, the parameters of an endpoint and the files of a  *)
(* snapshot.  A behaviour loads one of these and sends one request to it.  *)
(***************************************************************************)
EXTENDS Routes

CONSTANTS
    Sources,            \* files to compile
    ParameterSets,      \* the parameters of an endpoint
    Inputs(_),          \* what may be sent to an endpoint with these parameters
    Snapshots,          \* the files of a workspace
    Methods, Paths      \* the requests for them

ASSUME SourcesAreLexical == \A s \in Sources : Lexical(s)
ASSUME ParametersAreTyped ==
    \A ps \in ParameterSets : IsFiniteSet(ps) /\ \A p \in ps : IsParameter(p)
ASSUME SnapshotsAreFiles ==
    \A fs \in Snapshots : IsFiniteSet(fs) /\ \A f \in fs : IsFile(f)
ASSUME PathsAreTexts == Paths \subseteq Seq(STRING)

VARIABLES input, answer

interfacesVars == <<input, answer>>

None == [status |-> 0]

InterfacesInit ==
    /\ answer = None
    /\ \/ \E s \in Sources : input = [kind |-> "source", source |-> s]
       \/ \E ps \in ParameterSets : input = [kind |-> "parameters", parameters |-> ps]
       \/ \E fs \in Snapshots : input = [kind |-> "snapshot", files |-> fs]

\* A file is compiled.
Load ==
    /\ input.kind = "source" /\ answer = None
    /\ answer' = [status |-> 200, statements |-> Compile(input.source)]
    /\ UNCHANGED input

\* A request to an endpoint that has been loaded is checked.
Send ==
    /\ input.kind = "parameters" /\ answer = None
    /\ \A p \in input.parameters : Declarable(p)
    /\ ValidateParameters(input.parameters)
    /\ \E sent \in Inputs(input.parameters) :
          answer' = [status |-> IF ValidateInput(input.parameters, sent) THEN 200 ELSE 400,
                     sent |-> sent]
    /\ UNCHANGED input

\* A request to a snapshot that has been published finds its endpoint.
Request ==
    /\ input.kind = "snapshot" /\ answer = None
    /\ Accepted(input.files)
    /\ \E method \in Methods, values \in Paths :
          answer' = [status |-> 200, method |-> method, values |-> values,
                     reply |-> Resolve(input.files, method, values)]
    /\ UNCHANGED input

InterfacesNext == Load \/ Send \/ Request

InterfacesSpec == InterfacesInit /\ [][InterfacesNext]_interfacesVars

-----------------------------------------------------------------------------

\* compile: the database executes the statements of a file one by one with the
\* parameters that were written into each of them, whatever the order of
\* semicolons, comments, quoted text, references and native parameters.  The
\* check for "standalone SQL values" at the end of compile lets only one kind of
\* other files pass: those where digits behind a reference make the number of
\* another one of its number (Confused).
StatementsBindTheirParameters ==
    input.kind = "source" /\ answer # None =>
        ExecutedAsWritten(input.source, answer.statements)

\* The body that the OpenAPI document describes is the one that the parameters
\* of the endpoint are read from.
DocumentMatchesInput ==
    input.kind = "parameters" /\ answer # None =>
        Agree(input.parameters, answer.sent, answer.status = 200)

\* resolve: a request goes to the most specific path, whose methods alone decide
\* between an endpoint and 405, with a value for every path parameter.
MostSpecificPathAnswers ==
    input.kind = "snapshot" /\ answer # None =>
        MostSpecific(input.files, answer.method, answer.values, answer.reply)
=============================================================================
