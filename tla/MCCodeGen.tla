----------------------------- MODULE MCCodeGen -----------------------------
(***************************************************************************)
(* Trees for the code generator, and what a C compiler makes of the text   *)
(* it writes for them.  The cases that the properties leave out are not    *)
(* correct ones: MCGenerated has them, and what the documentation says.    *)
(***************************************************************************)
EXTENDS CReader

Leaf(kind, value) == Node(kind, value, << >>)
Id(name) == Leaf("IDENTIFIER", name)
I64      == Leaf("NAMED_TYPE", "I64")
Pointer(type) == Node("POINTER_TYPE", "", << type >>)
Unary(op, e)     == Node("UNARY_EXPR", op, << e >>)
Binary(op, e, f) == Node("BINARY_EXPR", op, << e, f >>)
Stmt(e)          == Node("EXPR_STMT", "", << e >>)
Var(name, init)  == Node("VAR_DECL", {}, << I64, Id(name) >> \o init)
Param(name)      == Node("FUNC_PARAM", "", << I64, Id(name) >>)
Block(stmts)     == Node("BLOCK", "", stmts)
Func(name, params, stmts) ==
  Node("FUNC_DECL", {}, << I64, Id(name) >> \o params \o << Block(stmts) >>)
Unit(items)      == Node("TRANSLATION_UNIT", "", items)
InFunction(stmt) == Unit(<< Func("f", << >>, << stmt >>) >>)

-----------------------------------------------------------------------------
(***************************************************************************)
(* Expressions: what a function returns.                                   *)
(***************************************************************************)
Leaves == {Id("x"), Leaf("INTEGER_LITERAL", 1), Leaf("INTEGER_LITERAL", 3),
           Leaf("FLOAT_LITERAL", 3), Leaf("FLOAT_LITERAL", 4)}

(* Expressions with operands in S; what is called, indexed or has members  *)
(* is in P.                                                                *)
Prefixed(S) == {Unary(op, e) : op \in {"-", "!", "++", "--", "*", "&"}, e \in S}
Suffixed(P, S) ==
  {Node("INDEX_EXPR", "", << p, e >>) : p \in P, e \in S}
  \cup {Node("CALL_EXPR", "", << p, e >>) : p \in P, e \in S}
  \cup {Node(kind, "", << p, Id("m") >>) : kind \in {"MEMBER_EXPR", "POINTER_MEMBER_EXPR"}, p \in P}
Cast(S) == {Node("CAST_EXPR", "", << t, e >>) : t \in {I64, Pointer(I64)}, e \in S}
SizeOf(S) == {Node("SIZEOF_EXPR", "", << e >>) : e \in S}
Infix(S, T) ==
  {Binary(op, e, f) : op \in {"-", "<", Backtick}, e \in S, f \in T}
  \cup {Node("CONDITIONAL_EXPR", "", << Id("x"), e, f >>) : e \in S, f \in T}

Places1 == {Id("x"), Unary("++", Id("x")), Unary("*", Id("x"))}
Places2 == Places1 \cup Suffixed(Places1, {Id("x")})
Short   == Leaves \cup Prefixed(Leaves) \cup Suffixed(Places1, Leaves) \cup Cast(Leaves)
           \cup SizeOf(Leaves \cup {I64}) \cup Infix(Leaves, Leaves)
Long    == Short \cup Prefixed(Short) \cup Suffixed(Places2, Leaves) \cup Cast(Short)
           \cup SizeOf(Short) \cup Infix(Short, {Id("x")}) \cup Infix({Id("x")}, Short)
           \cup Infix(Prefixed({Id("x")}), Prefixed({Id("x")}))
           \cup Prefixed(Prefixed(Prefixed({Id("x")})))
Returned(e) == InFunction(Node("RETURN_STMT", "", << e >>))

(* The characters between the quotes: a backslash is followed by another   *)
(* character, and a quote is preceded by one.                              *)
Characters == {"n", "F", "$", "\\", "\""}
Escaped(s) ==
  LET escaping[i \in 0 .. Len(s)] == i > 0 /\ s[i] = "\\" /\ ~escaping[i - 1]
  IN /\ ~escaping[Len(s)]
     /\ \A i \in DOMAIN s : s[i] = "\"" => escaping[i - 1]
Red == << "$", "F", "F", "$" >>
Strings ==
  LET short == {s \in UNION {[1 .. n -> Characters] : n \in 0 .. 4} : Escaped(s)}
      brief == {s \in short : Len(s) <= 2}
  IN short \cup {s \o Red \o t : s \in brief, t \in brief}
Chars   == {"a", "n", "\\", "'", "newline", "tab", "control"}
LiteralTrees ==
  {Leaf("STRING_LITERAL", s) : s \in Strings} \cup {Leaf("CHAR_LITERAL", c) : c \in Chars}

-----------------------------------------------------------------------------
(***************************************************************************)
(* Switches: the cases, each with a statement that tells where it is.      *)
(***************************************************************************)
Numbers == 0 .. 2 ^ Width - 1
Number(n) == Leaf("INTEGER_LITERAL", n)
Mark(i) == Stmt(Id(<< "s1", "s2", "s3" >>[i]))
Minus1  == Unary("-", Number(1))
Break   == Leaf("BREAK_STMT", "")
Case(i, rest) ==
  {Node("CASE_STMT", "", << Number(v), Mark(i) >> \o rest) : v \in Numbers}
  \cup {Node("CASE_RANGE", "", << Number(v), Number(w), Mark(i) >> \o rest) : v \in Numbers, w \in Numbers}
  \cup {Node("CASE_RANGE", "", bounds \o << Mark(i) >> \o rest) :
          bounds \in {<< Minus1, Number(1) >>, << Number(0), Id("x") >>}}
  \cup {Node("DEFAULT_STMT", "", << Mark(i) >> \o rest)}
Switch(cases) == InFunction(Node("SWITCH_STMT", "", << Id("x") >> \o cases))
Switches ==
  {Switch(<< c, d >>) : c \in Case(1, << >>) \cup Case(1, << Break >>), d \in Case(2, << >>)}
  \cup {Switch(<< Mark(1), c, d >>) : c \in Case(2, << Break >>), d \in Case(3, << >>)}

-----------------------------------------------------------------------------
(***************************************************************************)
(* Files, in which a name is declared before it is used.                   *)
(***************************************************************************)
Item(n, used) ==
  {Var(n, << >>), Var(n, << Id(used) >>), Func(n, << >>, << Stmt(Id(used)) >>),
   Func("main", << >>, << Stmt(Id(used)) >>), Stmt(Id(used)),
   Leaf("PP_DIRECTIVE", "#if 1"),
   Node("INCLUDE", "", << Leaf("STRING_LITERAL", << >>), Func(n, << >>, << Stmt(Id(used)) >>) >>),
   Node("INCLUDE", "", << Leaf("STRING_LITERAL", << >>), Stmt(Id(used)) >>)}
First == {Var("a", << >>), Func("a", << >>, << >>), Func("a", << >>, << Var("a", << >>), Stmt(Id("a")) >>),
          Func("a", << Param("p") >>, << Stmt(Id("p")), Stmt(Id("a")) >>),
          Node("INCLUDE", "", << Leaf("STRING_LITERAL", << >>), Func("a", << >>, << >>) >>)}
DeclaresIt(item, n) ==
  \E k \in {item} \cup ToSet(item.kids) :
    k.kind \in {"VAR_DECL", "FUNC_DECL"} /\ k.kids[2] = Id(n)
Files ==
  {Unit(<< i, j, k >>) : i \in First, j \in Item("b", "a"), k \in Item("c", "a")}
  \cup {Unit(<< i, j, k >>) : i \in First, j \in {m \in Item("b", "a") : DeclaresIt(m, "b")},
                              k \in Item("c", "b")}

(* Every kind of statement and declaration.                                *)
None == Leaf("NONE", "")
Field(name) == Node("STRUCT_FIELD", "", << I64, Id(name) >>)
Array(type, size) == Node("ARRAY_TYPE", "", << type, Id(size) >>)
FuncPointer == Node("FUNC_POINTER_TYPE", "", << I64, Param("ignored") >>)
Tour ==
  LET s == Stmt(Id("s"))
      t == Stmt(Id("t"))
      c == Id("c")
  IN {InFunction(n) : n \in
        {Node("IF_STMT", "", << c, s >>), Node("IF_STMT", "", << c, Block(<< s >>), t >>),
         Node("WHILE_STMT", "", << c, s >>), Node("DO_WHILE_STMT", "", << s, c >>),
         Node("FOR_STMT", "", << None, None, None, s >>),
         Node("FOR_STMT", "", << Var("i", << c >>), Id("i"), Unary("++", Id("i")), s >>),
         Node("FOR_STMT", "", << c, Id("t"), None, Leaf("CONTINUE_STMT", "") >>),
         Node("GOTO_STMT", "", << Id("l") >>), Node("LABEL_STMT", "", << Id("l") >>),
         Node("TRY_STMT", "", << Block(<< s >>), Node("CATCH_STMT", "", << Block(<< t >>) >>) >>),
         Node("TRY_STMT", "", << s, Node("CATCH_STMT", "", << c, t >>) >>),
         Node("THROW_STMT", "", << >>), Node("THROW_STMT", "", << c >>),
         Leaf("ASM_STMT", ""), Stmt(Leaf("STRING_LITERAL", << "F" >>)),
         Stmt(Binary("-", c, Leaf("BOOL_LITERAL", 1))), Stmt(Binary("=", c, Leaf("NULL_LITERAL", ""))),
         Node("VAR_DECL", {"STATIC"}, << FuncPointer, Id("v"), c >>),
         Node("VAR_DECL", {}, << Array(Array(Pointer(I64), "c"), "d"), Id("v"),
                                 Node("ARRAY_INIT", "", << Id("s"), Id("t") >>) >>)}}
     \cup {Unit(items) : items \in
        {<< Node("FUNC_DECL", {"VARIADIC"}, << I64, Id("g"), Param("p"), Block(<< s >>) >>) >>,
         << Node("FUNC_DECL", {"EXTERN"}, << I64, Id("g"), Param("p"), Param("q") >>) >>,
         << Node("DEFINE", "", << Id("N"), c >>), s >>,
         << Node("ENUM_DECL", "", << Id("E"), Node("ENUMERATOR", "", << Id("A"), c >>),
                                     Node("ENUMERATOR", "", << Id("B"), c >>) >>) >>,
         << Node("UNION_DECL", "", << Id("U"), Field("x"), Field("y") >>) >>,
         << Node("STRUCT_DECL", "", << Id("S"), Field("x"), Func("g", << Param("p") >>, << s >>),
                                       Func("h", << >>, << t >>) >>) >>,
         << Node("STRUCT_DECL", "", << Id("S"), Func("g", << >>, << s >>), Field("x") >>) >>}}

AllUnits == {Returned(e) : e \in Long \cup LiteralTrees} \cup Switches \cup Files \cup Tour

-----------------------------------------------------------------------------
(* The statements of the function that is the whole of a unit.             *)
IsFunction == Len(unit.kids) = 1 /\ unit.kids[1].kind = "FUNC_DECL" /\ HasBody(unit.kids[1])
Body == Last(unit.kids[1].kids).kids
IsBody(kind) == IsFunction /\ Len(Body) = 1 /\ Body[1].kind = kind
Place(piece) == SelectInSeq(written, LAMBDA p : p = piece)
ReturnedText == SubSeq(written, Place("return") + 2, Len(written) - 2)

RECURSIVE Nodes(_)
Nodes(node) == {node} \cup UNION {Nodes(k) : k \in ToSet(node.kids)}

(* The first token that is written for an expression.                      *)
RECURSIVE Begins(_)
Begins(e) ==
  CASE e.kind = "UNARY_EXPR" -> IF e.value \in {"*", "&"} THEN "(" ELSE e.value
    [] e.kind = "INTEGER_LITERAL" -> Signed(e.value)[1]
    [] e.kind \in {"INDEX_EXPR", "CALL_EXPR", "MEMBER_EXPR", "POINTER_MEMBER_EXPR"} ->
         Begins(e.kids[1])
    [] OTHER -> "("

(* Not kept are a minus next to another, a prefix operator below a suffix, *)
(* the size of a type and a float without a fraction: MCGenerated shows    *)
(* what becomes of them.                                                   *)
Kept(e) ==
  CASE e.kind = "UNARY_EXPR" -> ~(e.value = "-" /\ Begins(e.kids[1]) \in Minus)
    [] e.kind \in {"INDEX_EXPR", "CALL_EXPR", "MEMBER_EXPR", "POINTER_MEMBER_EXPR"} ->
         Begins(e.kids[1]) = "("
    [] e.kind = "SIZEOF_EXPR" -> e.kids[1].kind # "NAMED_TYPE"
    [] e.kind = "FLOAT_LITERAL" -> e.value % 2 = 1
    [] OTHER -> TRUE

RECURSIVE Folded(_)
Folded(e) ==
  LET kids == [i \in DOMAIN e.kids |-> Folded(e.kids[i])] IN
  IF e.kind = "UNARY_EXPR" THEN Negative(e.value, kids[1]) ELSE [e EXCEPT !.kids = kids]

ReturnsExpression ==
  IsBody("RETURN_STMT") /\ Body[1].kids[1].kind \notin {"STRING_LITERAL", "CHAR_LITERAL"}
ReadsBack == ReadText(ReturnedText) = Folded(Body[1].kids[1])

(* C reads the expression that was written as the tree it was written for, *)
(* if every part of the tree is kept (codegen.c:253-492).                  *)
ExpressionsReadBack ==
  Finished /\ ReturnsExpression /\ (\A n \in Nodes(Body[1].kids[1]) : Kept(n)) => ReadsBack

(* What a string shows (docs/LANGUAGE.md:510-512): two dollar signs are    *)
(* one, 2 or 6 hex digits between two of them are a colour, which is       *)
(* removed, and every other character stands for itself.                   *)
HexDigit == {"F"}
OpensColour(s) ==
  \E n \in {2, 6} : /\ Len(s) >= n + 2 /\ s[1] = "$" /\ s[n + 2] = "$"
                    /\ \A i \in 2 .. n + 1 : s[i] \in HexDigit
ColourEnd(s) == 1 + SelectInSeq(Tail(s), LAMBDA c : c = "$")
RECURSIVE Shown(_)
Shown(s) ==
  CASE s = << >>                           -> << >>
    [] IsPrefix(<< "$", "$" >>, s)         -> << "$" >> \o Shown(After(2, s))
    [] OpensColour(s)                      -> Shown(After(ColourEnd(s), s))
    [] Len(s) > 1 /\ s[1] = "\\"           -> Denoted(SubSeq(s, 1, 2)) \o Shown(After(2, s))
    [] OTHER                               -> << s[1] >> \o Shown(Tail(s))

(* Every dollar sign of the string belongs to a pair or to a colour.       *)
RECURSIVE DollarsDocumented(_)
DollarsDocumented(s) ==
  CASE s = << >>                           -> TRUE
    [] IsPrefix(<< "$", "$" >>, s)         -> DollarsDocumented(After(2, s))
    [] OpensColour(s)                      -> DollarsDocumented(After(ColourEnd(s), s))
    [] Len(s) > 1 /\ s[1] = "\\"           -> s[2] # "$" /\ DollarsDocumented(After(2, s))
    [] OTHER                               -> s[1] # "$" /\ DollarsDocumented(Tail(s))
CharShown(c) ==
  CASE c = "newline" -> << "\\n" >> [] c = "tab" -> << "\\t" >>
    [] c = "control" -> << "\\x01" >> [] OTHER -> << c >>

StringReadsBack(e) == ReadText(ReturnedText) = [e EXCEPT !.value = Shown(e.value)]

(* C takes a literal for the characters that it shows, and for no more     *)
(* than the literal, if all dollar signs of a string are those of pairs    *)
(* and colours (codegen.c:265-322).                                        *)
LiteralsReadBack ==
  Finished /\ IsBody("RETURN_STMT") =>
    LET e == Body[1].kids[1] IN
    /\ e.kind = "STRING_LITERAL" /\ DollarsDocumented(e.value) => StringReadsBack(e)
    /\ e.kind = "CHAR_LITERAL" => ReadText(ReturnedText) = [e EXCEPT !.value = CharShown(e.value)]

-----------------------------------------------------------------------------
Cases == Tail(Body[1].kids)
Plain(bound) == bound.kind = "INTEGER_LITERAL"
(* The value of a bound: a number or a negative one.                       *)
Value(bound) == IF Plain(bound) THEN bound.value ELSE -bound.kids[1].value
Takes(c, v) ==
  \/ c.kind = "CASE_STMT" /\ c.kids[1].value = v
  \/ c.kind = "CASE_RANGE" /\ Value(c.kids[1]) <= v /\ v <= Value(c.kids[2])
Marks == {"s1", "s2", "s3"}
Until(items, Stops(_)) ==
  LET stop == SelectInSeq(items, Stops) IN IF stop = 0 THEN items ELSE SubSeq(items, 1, stop - 1)

(* The statements that the switch of the tree runs for v: those of one     *)
(* case, which do not go on into the next one (docs/LANGUAGE.md:1034).     *)
Meant(v) ==
  LET chosen  == SelectInSeq(Cases, LAMBDA c : Takes(c, v))
      default == SelectInSeq(Cases, LAMBDA c : c.kind = "DEFAULT_STMT")
      first   == IF chosen # 0 THEN chosen ELSE default
      run     == SelectSeq(Until(Cases[first].kids, LAMBDA s : s.kind = "BREAK_STMT"),
                           LAMBDA s : s.kind = "EXPR_STMT")
  IN IF first = 0 THEN << >> ELSE [i \in DOMAIN run |-> run[i].kids[1].value]

(* The statements that C runs: those behind its label.                     *)
SwitchText == After(Place("switch") + 4, written)
LabelAt(i, v) ==
  /\ SwitchText[i] = "case"
  /\ \/ SwitchText[i + 1] = ToString(v % 2 ^ Width)
     \/ SwitchText[i + 1] = "-" /\ SwitchText[i + 2] = ToString(-v % 2 ^ Width)
Run(v) ==
  LET labels   == {i \in DOMAIN SwitchText : LabelAt(i, v)}
      defaults == {i \in DOMAIN SwitchText : SwitchText[i] = "default"}
      entries  == IF labels # {} THEN labels ELSE defaults
  IN IF entries = {} THEN << >>
     ELSE SelectSeq(Until(After(CHOOSE i \in entries : TRUE, SwitchText), LAMBDA p : p = "break"),
                    LAMBDA p : p \in Marks)

(* C refuses a switch in which two cases take the same value.              *)
TakenOnce ==
  /\ \A v \in Numbers : Cardinality({i \in DOMAIN Cases : Takes(Cases[i], v)}) <= 1
  /\ Cardinality({i \in DOMAIN Cases : Cases[i].kind = "DEFAULT_STMT"}) <= 1
BoundsPlain ==
  \A i \in DOMAIN Cases :
    Cases[i].kind = "CASE_RANGE" => Plain(Cases[i].kids[1]) /\ Plain(Cases[i].kids[2])
EndWithBreak ==
  \A i \in 1 .. Len(Cases) - 1 :
    Cases[i].kind # "EXPR_STMT" => Last(Cases[i].kids).kind = "BREAK_STMT"

(* For every value the C switch runs the statements of the case that takes *)
(* it and no others: a range takes what is between its bounds, and an      *)
(* empty one nothing, if the bounds are plain numbers and every case but   *)
(* the last ends with a break (codegen.c:835-897).                         *)
SwitchesEnterTheirCase ==
  Finished /\ IsBody("SWITCH_STMT") /\ BoundsPlain /\ EndWithBreak /\ TakenOnce =>
    \A v \in Numbers : Run(v) = Meant(v)

(* The writer ends, if no range ends with the largest number: there is     *)
(* none behind it to stop at (codegen.c:867).                              *)
RangesEnd ==
  \A n \in Nodes(unit) : n.kind = "CASE_RANGE" => n.kids[2] # Number(2 ^ Width - 1)
WrittenOut == RangesEnd => <>Finished

-----------------------------------------------------------------------------
(* The depth of braces, by place in the text.                              *)
Depths ==
  LET depth[i \in 0 .. Len(written)] ==
        IF i = 0 THEN 0
        ELSE depth[i - 1] + (CASE written[i] = "{" -> 1 [] written[i] = "}" -> -1 [] OTHER -> 0)
  IN depth

CTypes == {"int64_t", "int"}
Declares(p, n) ==
  p > 2 /\ written[p] = n /\ written[p - 1] = " " /\ written[p - 2] \in CTypes
Names == {"a", "b", "c", "p"}
Uses(n) == {p \in DOMAIN written : written[p] = n /\ ~Declares(p, n)}

(* The declarations of n that C sees at p: no brace around them has been   *)
(* closed.                                                                 *)
Seen(p, n) ==
  LET depths == Depths IN
  {q \in 1 .. p - 1 : Declares(q, n) /\ \A i \in q .. p : depths[i] >= depths[q]}
IsFile == \E u \in Files : u = unit

Included == UNION {ToSet(n.kids) : n \in {m \in Nodes(unit) : m.kind = "INCLUDE"}}
IncludesFunctions  == FuncNames(SetToSeq(Included))
IncludesStatements == \E n \in Included : n.kind = "EXPR_STMT"
Wrapped == HasTopStmts(unit.kids) /\ "main" \notin FuncNames(unit.kids)
NamesIn(n) == {i.value : i \in {m \in Nodes(n) : m.kind = "IDENTIFIER"}}

UsesAreDeclared == \A n \in Names : \A p \in Uses(n) : Seen(p, n) # {}
UsesIncludedFunctions ==
  \E k \in ToSet(unit.kids) :
    k.kind \in {"FUNC_DECL", "VAR_DECL"} /\ NamesIn(k) \cap IncludesFunctions # {}

(* A name that is declared before it is used is so in the C file, where it *)
(* was moved too (codegen.c:539-563).  Left out are files that are wrapped *)
(* in a main and whose declarations use included functions.                *)
DeclaredBeforeUse ==
  Finished /\ IsFile /\ ~(Wrapped /\ UsesIncludedFunctions) => UsesAreDeclared

(* What begins outside of all functions.                                   *)
Begun(p) ==
  /\ Depths[p - 1] = 0
  /\ p = 1 \/ (written[p - 1] \in {";", "}", "\n"} /\ written[p] \notin {" ", "else"})
NothingBegunOutside ==
  \A p \in DOMAIN written : Begun(p) => written[p] \in CTypes \cup {"typedef", "#if 1"}

(* Every statement of a file is in a function of the C file, the synthetic *)
(* main if it stands outside of all functions (codegen.c:519-563).  Left   *)
(* out are statements beside a main that is written, and those of an       *)
(* included file where the file itself has none.                           *)
StatementsInFunctions ==
  Finished /\ IsFile =>
    \/ NothingBegunOutside
    \/ HasTopStmts(unit.kids) /\ ~Wrapped
    \/ ~HasTopStmts(unit.kids) /\ IncludesStatements

IsStatement(p) == p > 1 /\ written[p - 1] \in {";", "{", "}", "\n"}
Called(p) == IsPrefix(<< "(", ")", ";" >>, After(p, written))
Latest(places) == CHOOSE p \in places : \A q \in places : q <= p
Bare(n) == {p \in Uses(n) : IsStatement(p) /\ Seen(p, n) # {}}
CalledIfFunction(p, n) == Called(p) <=> written[Latest(Seen(p, n)) + 1] = "("

(* A name that is a statement is called exactly if it is a function's      *)
(* (codegen.c:504-523, 929-947).  Left out are the functions of included   *)
(* files, and names that are declared in more than one of the scopes C     *)
(* sees.                                                                   *)
BareCallsAreMade ==
  Finished /\ IsFile =>
    \A n \in Names \ IncludesFunctions : \A p \in Bare(n) :
      Cardinality(Seen(p, n)) = 1 => CalledIfFunction(p, n)

-----------------------------------------------------------------------------
(* The names that a tree calls for: a method has the name of its class in  *)
(* its own, and takes a pointer to it; the arguments of a variadic         *)
(* function begin behind its last parameter; what is thrown has no name    *)
(* where it is caught, and of a range the values are written.             *)
RECURSIVE NamesOf(_)
NamesOf(node) ==
  LET all == FlattenSeq([i \in DOMAIN node.kids |-> NamesOf(node.kids[i])])
      class == node.kids[1].value
      OfMember(m) ==
        IF m.kind = "FUNC_DECL"
        THEN << class \o "_" \o m.kids[2].value, class >>
             \o FlattenSeq([i \in 1 .. Len(m.kids) - 2 |-> NamesOf(m.kids[i + 2])])
        ELSE NamesOf(m)
  IN CASE node.kind = "IDENTIFIER" -> << node.value >>
       [] node.kind = "CASE_RANGE" ->
            FlattenSeq([i \in 1 .. Len(node.kids) - 2 |-> NamesOf(node.kids[i + 2])])
       [] node.kind = "CATCH_STMT" -> NamesOf(Last(node.kids))
       [] node.kind = "FUNC_POINTER_TYPE" -> << >>
       [] node.kind = "STRUCT_DECL" -> FlattenSeq([i \in DOMAIN node.kids |-> OfMember(node.kids[i])])
       [] node.kind = "FUNC_DECL" /\ "VARIADIC" \in node.value ->
            all \o NamesOf(Last(Parameters(node.kids)))
       [] OTHER -> all
Count(s, x) == Cardinality({i \in DOMAIN s : s[i] = x})

FieldsFirst ==
  \A n \in Nodes(unit) : n.kind = "STRUCT_DECL" =>
    \A i, j \in DOMAIN n.kids :
      n.kids[i].kind = "STRUCT_FIELD" /\ n.kids[j].kind = "FUNC_DECL" => i < j

EveryNameWritten ==
  \E names \in {NamesOf(unit)} :
    \A n \in ToSet(names) : Count(written, n) = Count(names, n)

(* Every name of the tree is written as often as it stands there, whatever *)
(* is moved or wrapped: no declaration, statement or operand is lost or    *)
(* written twice (codegen.c:499-1185).  Left out are classes with a field  *)
(* behind a method.                                                        *)
NothingIsLost ==
  Finished /\ ~IsBody("RETURN_STMT") /\ FieldsFirst => EveryNameWritten
=============================================================================
