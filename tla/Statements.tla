---------------------------- MODULE Statements ----------------------------
(***************************************************************************)
(* compile of src/sql.rs: an interface file becomes statements with        *)
(* numbered placeholders and the parameters to bind to them.               *)
(*                                                                         *)
(* The source is the sequence of its lexical items, with white space        *)
(* between them unless an item says otherwise.  A quoted item or a comment *)
(* is opaque: semicolons and references in it are only text.  The          *)
(* tokenizer and the parser are sqlparser's, as far as compile uses them:  *)
(* a generated name goes on with the letters and digits behind it, and a   *)
(* statement begins with a keyword.                                        *)
(***************************************************************************)
EXTENDS Parameters, FiniteSetsExt

Keyword(w) == [kind |-> "keyword", word |-> w]
\* Letters that are no keyword.
Word == [kind |-> "word"]
Quoted == [kind |-> "quoted"]
Comment == [kind |-> "comment"]
SemiColon == [kind |-> "semicolon"]

\* What stands directly behind a reference and so behind the number that is put
\* in its place.  d digits of the value v make v + n * 10^d of the number n;
\* letters leave no number, which is refused as 0 is.
Alone == [shift |-> 1, add |-> 0]
Letters == [shift |-> 0, add |-> 0]
Tails == {Alone, Letters} \cup [shift: {m \in Nat : m >= 10}, add: Nat]
Glued(n, tail) == n * tail.shift + tail.add

\* ${...}, as a "value", as a "name", or as the end of a "word" that begins
\* before it.
Reference(p, place, tail) ==
    [kind |-> "reference", of |-> p, place |-> place, tail |-> tail]
\* $sqlrest_internal_n, and $n of the statement that is sent.
Internal(n, place, tail) ==
    [kind |-> "internal", n |-> n, place |-> place, tail |-> tail]
Placeholder(n, place, tail) ==
    [kind |-> "placeholder", n |-> n, place |-> place, tail |-> tail]

\* Parameters of the database's own syntax: $1 and $name ("dollar"); ?, :name and
\* @name, which the embedded database has as a "token" and PostgreSQL as a
\* "value" or, like the ? of jsonb, as an "operator".
NativePlaces == {"dollar", "token", "value", "operator"}
Native(place) == [kind |-> "native", place |-> place]

\* The items of a file, as the scanner tells them apart.
LexicalItem(item) ==
    /\ item.kind \in {"keyword", "quoted", "comment", "semicolon", "reference", "native"}
    /\ item.kind = "semicolon" => item = SemiColon
    /\ item.kind = "reference" =>
          item = Reference(item.of, item.place, item.tail) /\ item.tail \in Tails
    /\ item.kind = "native" => item = Native(item.place) /\ item.place \in NativePlaces
Lexical(source) ==
    /\ source \in Seq(Range(source))
    /\ \A i \in DOMAIN source : LexicalItem(source[i])

-----------------------------------------------------------------------------
(* The first pass: references are replaced, in a text for the parser and in *)
(* one for the database.                                                    *)

Unscanned == [rewritten |-> <<>>, parameters |-> <<>>, original |-> <<>>,
              originals |-> <<>>, local |-> 0]

ScanReference(s, item) ==
    [s EXCEPT !.parameters = Append(@, item.of),
              !.rewritten = Append(@, Internal(Len(s.parameters) + 1, item.place,
                                               item.tail)),
              !.local = @ + 1,
              !.original = Append(@, Placeholder(s.local + 1, item.place, item.tail))]

\* Defect: the numbers go on from one statement to the next.
ScanSemiColonGoOn(s) ==
    [s EXCEPT !.originals = Append(@, s.original), !.original = <<>>,
              !.rewritten = Append(@, SemiColon)]
ScanSemiColon(s) ==
    [s EXCEPT !.originals = Append(@, s.original), !.original = <<>>,
              !.local = 0, !.rewritten = Append(@, SemiColon)]

ScanItem(s, item) ==
    CASE item.kind = "reference" -> ScanReference(s, item)
      [] item.kind = "semicolon" -> ScanSemiColon(s)
      [] OTHER -> [s EXCEPT !.rewritten = Append(@, item), !.original = Append(@, item)]

Scanned(source) ==
    LET s[i \in 0..Len(source)] ==
            IF i = 0 THEN Unscanned ELSE ScanItem(s[i - 1], source[i])
    IN  s
Scan(source) ==
    LET s == Scanned(source)[Len(source)]
    IN  [s EXCEPT !.originals = Append(@, s.original)]

\* The pass ends early at a dollar that begins neither a reference nor a quote,
\* and at a reference that is no declaration.
Scannable(source) ==
    \A i \in DOMAIN source :
       /\ source[i] # Native("dollar")
       /\ source[i].kind = "reference" => Declarable(source[i].of)

-----------------------------------------------------------------------------
(* The second pass: the tokens are cut into statements again. *)

\* What the parser makes of the tokens of a statement.
Visible(tokens) == {i \in DOMAIN tokens : tokens[i].kind # "comment"}
First(tokens) == tokens[Min(Visible(tokens))]
Parses(tokens) == First(tokens).kind = "keyword"
\* ParameterVisitor counts the references that are values. (It refuses native
\* parameters there: StatementOk.)
Values(tokens) ==
    Cardinality({i \in DOMAIN tokens : /\ tokens[i].kind = "internal"
                                       /\ tokens[i].place = "value"})
TransactionStatement(tokens) == First(tokens).word # "BEGIN"
ReturnsRows(tokens) == First(tokens).word = "SELECT"

Uncut == [next |-> 1, tokens |-> <<>>, bound |-> <<>>, output |-> <<>>, ok |-> TRUE]
Failed(c) == [c EXCEPT !.ok = FALSE]

\* The statement is accepted.
StatementOk(c) ==
    /\ Parses(c.tokens)
    /\ Values(c.tokens) = Len(c.bound)
    /\ \A i \in DOMAIN c.tokens : c.tokens[i] # Native("value")
    /\ TransactionStatement(c.tokens)

EndStatement(s, c) ==
    LET empty == Visible(c.tokens) = {}
        statement == [sql |-> s.originals[c.next], parameters |-> c.bound,
                      rows |-> ReturnsRows(c.tokens)]
    IN  IF c.next \notin DOMAIN s.originals \/ (~empty /\ ~StatementOk(c))
        THEN Failed(c)
        ELSE [c EXCEPT !.next = @ + 1, !.tokens = <<>>, !.bound = <<>>,
                       !.output = IF empty THEN @ ELSE Append(@, statement)]

CutToken(s, c, token) ==
    CASE ~c.ok -> c
      [] c.ok /\ token.kind = "semicolon" -> EndStatement(s, c)
      [] c.ok /\ token.kind = "internal" ->
            IF token.n \notin DOMAIN s.parameters THEN Failed(c)
            ELSE [c EXCEPT !.tokens = Append(@, token),
                           !.bound = Append(@, s.parameters[token.n])]
      [] c.ok /\ token = Native("token") -> Failed(c)
      [] OTHER -> [c EXCEPT !.tokens = Append(@, token)]

\* The tokenizer reads a generated name with what stands before and behind it.
TokenOf(item) ==
    CASE item.kind = "internal" /\ item.place = "word" -> Word
      [] item.kind = "internal" /\ item.place # "word" ->
            Internal(Glued(item.n, item.tail), item.place, Alone)
      [] OTHER -> item
Tokens(s) ==
    [i \in 1..(Len(s.rewritten) + 1) |->
        IF i = Len(s.rewritten) + 1 THEN SemiColon ELSE TokenOf(s.rewritten[i])]
Cut(s) ==
    LET c[i \in 0..Len(Tokens(s))] ==
            IF i = 0 THEN Uncut ELSE CutToken(s, c[i - 1], Tokens(s)[i])
    IN  c

\* How many parameters the first statements bind.
Bindings(output) ==
    LET n[i \in 0..Len(output)] ==
            IF i = 0 THEN 0 ELSE n[i - 1] + Len(output[i].parameters)
    IN  n

\* The statements of a file, or <<>> for an error.
Compile(source) ==
    LET s == Scan(source)
        c == Cut(s)[Len(source) + 1]
    IN  IF /\ Scannable(source)
           /\ ValidateParameters(ToSet(s.parameters))
           /\ c.ok
           /\ Bindings(c.output)[Len(c.output)] = Len(s.parameters)
        THEN c.output ELSE <<>>

-----------------------------------------------------------------------------
(* The reference: the source, cut at its semicolons. *)

\* Where statements end, where they begin, and what is written there.
Ends(source) ==
    {i \in 1..(Len(source) + 1) : i = Len(source) + 1 \/ source[i] = SemiColon}
Begin(source, e) == Max({0} \cup {d \in Ends(source) : d < e})
Part(source, e) == SubSeq(source, Begin(source, e) + 1, e - 1)
Written(source) == {e \in Ends(source) : Visible(Part(source, e)) # {}}
Number(source, e) == Cardinality({d \in Written(source) : d <= e})

\* The references, and their numbers in the file.
References(source) == {i \in DOMAIN source : source[i].kind = "reference"}
NumberOf(source, i) == Cardinality({j \in References(source) : j <= i})

\* A statement as the database executes it: with the values of the bound
\* parameters in the place of their numbers.
Bound(statement) ==
    [i \in DOMAIN statement.sql |->
        LET item == statement.sql[i]
        IN  IF item.kind = "placeholder"
            THEN Reference(statement.parameters[Glued(item.n, item.tail)],
                           item.place, item.tail)
            ELSE item]

\* References are standalone values, and the only parameters.
Proper(item) ==
    /\ item.kind = "reference" => item.place = "value" /\ item.tail = Alone
    /\ item.kind = "native" => item.place = "operator"

\* Nothing is wrong with the written statements.
WellFormed(source) ==
    /\ Written(source) # {}
    /\ \A e \in Written(source) :
          LET part == Part(source, e)
          IN  First(part).kind = "keyword" /\ First(part).word # "BEGIN"
    /\ \A i \in DOMAIN source : Proper(source[i])
    /\ LET params == {source[i].of : i \in References(source)}
       IN  ValidateParameters(params) /\ \A p \in params : Declarable(p)

\* The digits behind a reference make the number of another one of its number.
\* It takes ten references to do that.
Confused(source) ==
    \E i \in References(source) :
       /\ source[i].tail # Alone
       /\ Glued(NumberOf(source, i), source[i].tail)
             \in 1..Cardinality(References(source))

\* Exactly the well formed files are compiled; every statement finds a value for
\* each of its numbers, and the one that is written there.
ExecutedAsWritten(source, output) ==
    /\ output # <<>> /\ ~Confused(source) => WellFormed(source)
    /\ WellFormed(source) =>
          /\ Len(output) = Cardinality(Written(source))
          /\ \A e \in Written(source) :
                LET statement == output[Number(source, e)]
                IN  /\ \A j \in DOMAIN statement.sql :
                          statement.sql[j].kind = "placeholder" =>
                             Glued(statement.sql[j].n, statement.sql[j].tail)
                                \in DOMAIN statement.parameters
                    /\ Bound(statement) = Part(source, e)
=============================================================================
