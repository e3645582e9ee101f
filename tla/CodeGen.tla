------------------------------ MODULE CodeGen ------------------------------
(***************************************************************************)
(* The code generator (src/codegen/codegen.c): codegen_emit_stmt and       *)
(* codegen_emit_expr walk the tree of a file and append C to a buffer.     *)
(*                                                                         *)
(* The recursion is unfolded: `todo' holds what is still to be written,    *)
(* nodes and pieces of text, and a step replaces its first node by what    *)
(* the code writes for it.  There is one action for each kind of node.     *)
(* Indentation and line ends are left out, blanks are written only where   *)
(* they separate what C would otherwise join.                              *)
(***************************************************************************)
EXTENDS Integers, Sequences, FiniteSets, TLC, SequencesExt

CONSTANTS
  Units,      \* the trees: TRANSLATION_UNIT nodes
  Width,      \* the bits of a number, 64 in the program
  MaxDepth,   \* bounds the depth of expressions, and
  MaxWritten  \* the text, which the program does not

ASSUME WidthAssumption == Width \in Nat \ {0}
ASSUME BoundsAssumption == MaxDepth \in Nat /\ MaxWritten \in Nat

(* A node of the tree: `value' is its name, operator, text, number or set  *)
(* of flags.                                                               *)
Node(kind, value, kids) == [kind |-> kind, value |-> value, kids |-> kids]
Text(piece)  == Node("TEXT", piece, << >>)
(* A type is written by codegen_emit_type, the others' writers follow from *)
(* their kind.                                                             *)
Type(node)   == Node("TYPE", "", << node >>)
Labels(from, to) == Node("LABELS", << from, to >>, << >>)

VARIABLES
  unit,     \* the tree that is written out
  todo,     \* what of it is still to be written
  written,  \* the C text
  funcs     \* the functions that may be called by their bare name

vars == << unit, todo, written, funcs >>

-----------------------------------------------------------------------------
Here   == Head(todo)
Kid(i) == Here.kids[i]
Kids   == Here.kids
Has(i) == i \in DOMAIN Here.kids

Texts(pieces) == [i \in DOMAIN pieces |-> Text(pieces[i])]

(* The first node gives way to `items'; the text before the next node is   *)
(* written.                                                                *)
Put(items) ==
  \E all \in {items \o Tail(todo)} :
  \E n \in {SelectInSeq(all, LAMBDA item : item.kind # "TEXT")} :
    LET last == IF n = 0 THEN Len(all) ELSE n - 1 IN
    /\ written' = written \o [i \in 1 .. last |-> all[i].value]
    /\ todo' = SubSeq(all, last + 1, Len(all))

At(kind) == todo # << >> /\ Here.kind = kind /\ Len(written) < MaxWritten
Emit(kind, items) == At(kind) /\ Put(items) /\ UNCHANGED << unit, funcs >>

Between(separator, items) ==
  FlattenSeq([i \in DOMAIN items |->
                IF i = 1 THEN << items[i] >> ELSE << Text(separator), items[i] >>])

After(n, items) == SubSeq(items, n + 1, Len(items))

-----------------------------------------------------------------------------
(***************************************************************************)
(* codegen_emit_type.                                                      *)
(***************************************************************************)
codegen_map_type_name(name) ==
  CASE name = "I64" -> "int64_t"
    [] name = "U8"  -> "uint8_t"
    [] name = "F64" -> "double"
    [] name = "U0"  -> "void"
    [] OTHER        -> name

(* Of an array the type of its elements is written, of a function pointer  *)
(* the type that is returned.                                              *)
codegen_emit_type ==
  LET type == Kid(1) IN
  Emit("TYPE",
       CASE type.kind = "NAMED_TYPE"   -> << Text(codegen_map_type_name(type.value)) >>
         [] type.kind = "POINTER_TYPE" -> << Type(type.kids[1]), Text("*") >>
         [] OTHER                      -> << Type(type.kids[1]) >>)

-----------------------------------------------------------------------------
(***************************************************************************)
(* codegen_emit_expr.                                                      *)
(***************************************************************************)
IDENTIFIER == Emit("IDENTIFIER", << Text(Here.value) >>)

(* A number is written as a signed one.                                    *)
Signed(n) ==
  IF n < 2 ^ (Width - 1) THEN << ToString(n) >> ELSE << "-", ToString(2 ^ Width - n) >>
INTEGER_LITERAL == Emit("INTEGER_LITERAL", Texts(Signed(Here.value)))

(* Sixteen digits without trailing zeros: `value' counts halves.           *)
FLOAT_LITERAL ==
  Emit("FLOAT_LITERAL",
       << Text(ToString(Here.value \div 2) \o IF Here.value % 2 = 0 THEN "" ELSE ".5") >>)

CHAR_LITERAL ==
  LET c == Here.value IN
  Emit("CHAR_LITERAL",
       Texts(<< "'" >> \o (CASE c \in {"\\", "'"} -> << "\\", c >>
                            [] c = "newline"     -> << "\\", "n" >>
                            [] c = "tab"         -> << "\\", "t" >>
                            [] c = "control"     -> << "\\", "x01" >>
                            [] OTHER             -> << c >>) \o << "'" >>))

BOOL_LITERAL == Emit("BOOL_LITERAL", << Text(IF Here.value = 0 THEN "false" ELSE "true") >>)
NULL_LITERAL == Emit("NULL_LITERAL", << Text("NULL") >>)

(* A bug: an escaped quote is taken for a quote.                           *)
Escapable_noQuote == {"n", "t", "\\"}
Escapable == {"n", "t", "\"", "\\"}

(* The place behind the dollar sign that ends a colour, or the string.     *)
Dollar(s, i) ==
  LET closing == {k \in i .. Len(s) : s[k] = "$"} IN
  IF closing = {} THEN Len(s) + 1 ELSE (CHOOSE k \in closing : \A m \in closing : k <= m) + 1


(* The characters of a string, from the i-th on: a pair of dollar signs is *)
(* one, text between two others is dropped, and what is left is escaped.   *)
StringText(s) ==
  LET from[i \in 1 .. Len(s) + 1] ==
        LET next == IF i < Len(s) THEN s[i + 1] ELSE "" IN
        CASE i > Len(s) -> << >>
          [] i <= Len(s) /\ s[i] = "$" ->
               IF next = "$" THEN << "\\", "$" >> \o from[i + 2] ELSE from[Dollar(s, i + 1)]
          [] i <= Len(s) /\ s[i] = "\\" /\ next \in Escapable ->
               << "\\", next >> \o from[i + 2]
          [] i <= Len(s) /\ s[i] = "\"" -> << "\\", "\"" >> \o from[i + 1]
          [] OTHER -> << s[i] >> \o from[i + 1]
  IN from[1]
Quoted(s) == << "\"" >> \o StringText(s) \o << "\"" >>

STRING_LITERAL == Emit("STRING_LITERAL", Texts(Quoted(Here.value)))

(* The operand of &, * stands in parentheses with it, that of -, !, ~, ++  *)
(* and -- next to it.                                                      *)
UNARY_EXPR ==
  Emit("UNARY_EXPR",
       IF Here.value \in {"*", "&"}
       THEN << Text("("), Text(Here.value), Kid(1), Text(")") >>
       ELSE << Text(Here.value), Kid(1) >>)

Backtick == "backtick"   \* the power
BINARY_EXPR ==
  Emit("BINARY_EXPR",
       IF Here.value = Backtick
       THEN << Text("pow"), Text("("), Kid(1), Text(","), Kid(2), Text(")") >>
       ELSE << Text("("), Kid(1), Text(" "), Text(Here.value), Text(" "), Kid(2), Text(")") >>)

(* A bug: no parentheses.                                                  *)
CONDITIONAL_EXPR_bare ==
  Emit("CONDITIONAL_EXPR", << Kid(1), Text("?"), Kid(2), Text(":"), Kid(3) >>)
CONDITIONAL_EXPR ==
  Emit("CONDITIONAL_EXPR",
       << Text("("), Kid(1), Text("?"), Kid(2), Text(":"), Kid(3), Text(")") >>)

CALL_EXPR ==
  Emit("CALL_EXPR", << Kid(1), Text("(") >> \o Between(",", Tail(Kids)) \o << Text(")") >>)

INDEX_EXPR == Emit("INDEX_EXPR", << Kid(1), Text("["), Kid(2), Text("]") >>)

MEMBER_EXPR         == Emit("MEMBER_EXPR", << Kid(1), Text("."), Kid(2) >>)
POINTER_MEMBER_EXPR == Emit("POINTER_MEMBER_EXPR", << Kid(1), Text("->"), Kid(2) >>)

CAST_EXPR ==
  Emit("CAST_EXPR", << Text("("), Text("("), Type(Kid(1)), Text(")"), Kid(2), Text(")") >>)

(* A type among expressions is written as nothing.                         *)
SIZEOF_EXPR == Emit("SIZEOF_EXPR", << Text("sizeof"), Text("("), Kid(1), Text(")") >>)
NAMED_TYPE  == Emit("NAMED_TYPE", << >>)

ARRAY_INIT == Emit("ARRAY_INIT", << Text("{") >> \o Between(",", Kids) \o << Text("}") >>)

-----------------------------------------------------------------------------
(***************************************************************************)
(* codegen_emit_stmt: declarations.                                        *)
(***************************************************************************)
Named(type, name) == << Type(type), Text(" "), name >>
Extern == IF "EXTERN" \in Here.value THEN << Text("extern") >> ELSE << >>

Parameters(items) == SelectSeq(items, LAMBDA item : item.kind = "FUNC_PARAM")
(* A parameter has a type and may have a name.                             *)
Parameter(param) == << Type(param.kids[1]), Text(" ") >> \o After(1, param.kids)
ParameterList(items) ==
  LET params == Parameters(items) IN
  FlattenSeq([i \in DOMAIN params |->
                (IF i = 1 THEN << >> ELSE << Text(",") >>) \o Parameter(params[i])])

Braces(items) == << Text("{") >> \o items \o << Text("}") >>
HasBody(func) == Last(func.kids).kind = "BLOCK"

(* A variadic function counts and collects its arguments before its body.  *)
Collects(params) ==
  IF params = << >> THEN << >>
  ELSE Texts(<< "va_start", "(", "__va_args", "," >>) \o After(1, Last(params).kids)
       \o Texts(<< ")", ";" >>)

FUNC_DECL ==
  LET name     == Kid(2)
      variadic == "VARIADIC" \in Here.value
      params   == Parameters(Kids)
      type     == IF name.value = "main" THEN Text("int") ELSE Type(Kid(1))
  IN Emit("FUNC_DECL",
          Extern \o << type, Text(" "), name, Text("(") >> \o ParameterList(Kids)
          \o (IF variadic THEN Texts(<< ",", "..." >>) ELSE << >>) \o << Text(")") >>
          \o (CASE ~HasBody(Here) -> << Text(";") >>
                [] variadic /\ HasBody(Here) -> Braces(Collects(params) \o Last(Kids).kids)
                [] OTHER -> << Last(Kids) >>))

(* The sizes of an array, from the outermost one.                          *)
Sizes(type) ==
  LET inner[d \in 0 .. MaxDepth] ==
        IF d = 0 THEN type
        ELSE IF inner[d - 1].kind = "ARRAY_TYPE" THEN inner[d - 1].kids[1] ELSE inner[d - 1]
      arrays == SelectSeq([d \in 1 .. MaxDepth |-> inner[d - 1]],
                          LAMBDA t : t.kind = "ARRAY_TYPE")
  IN FlattenSeq([i \in DOMAIN arrays |->
                   << Text("[") >> \o After(1, arrays[i].kids) \o << Text("]") >>])

Initialiser(items) == IF items = << >> THEN << >> ELSE << Text("="), items[1] >>

VAR_DECL ==
  LET type == Kid(1)
      types == Parameters(type.kids)
      signature == FlattenSeq([i \in DOMAIN types |->
                     (IF i = 1 THEN << >> ELSE << Text(",") >>) \o << Type(types[i].kids[1]) >>])
  IN Emit("VAR_DECL",
          (IF "STATIC" \in Here.value THEN << Text("static") >> ELSE << >>) \o Extern
          \o (IF type.kind = "FUNC_POINTER_TYPE"
              THEN << Type(type), Text("("), Text("*"), Kid(2), Text(")"), Text("(") >>
                   \o signature \o << Text(")") >>
              ELSE Named(type, Kid(2)) \o Sizes(type))
          \o Initialiser(After(2, Kids)) \o << Text(";") >>)

(* Fields are written up to the first method, methods are all written.     *)
Aggregate(keyword) ==
  LET named   == Has(1) /\ Kid(1).kind = "IDENTIFIER"
      name    == IF named THEN Kid(1).value ELSE ""
      members == IF named THEN Tail(Kids) ELSE Kids
      other   == SelectInSeq(members, LAMBDA m : m.kind # "STRUCT_FIELD")
      fields  == IF other = 0 THEN members ELSE SubSeq(members, 1, other - 1)
      methods == SelectSeq(members, LAMBDA m : m.kind = "FUNC_DECL")
      Field(f) == Named(f.kids[1], f.kids[2]) \o << Text(";") >>
      Method(m) ==
        << Type(m.kids[1]), Text(" "), Text(IF named THEN name \o "_" \o m.kids[2].value
                                            ELSE m.kids[2].value), Text("(") >>
        \o (IF named THEN Texts(<< name, " ", "*", "this" >>) ELSE << >>)
        \o (IF Parameters(m.kids) = << >> THEN << >> ELSE << Text(",") >>)
        \o ParameterList(m.kids) \o << Text(")") >>
        \o (IF HasBody(m) THEN Braces(Last(m.kids).kids) ELSE << Text(";") >>)
  IN Texts(<< "typedef", keyword, "{" >>)
     \o FlattenSeq([i \in DOMAIN fields |-> Field(fields[i])])
     \o Texts(<< "}", " ", name, ";" >>)
     \o FlattenSeq([i \in DOMAIN methods |-> Method(methods[i])])

STRUCT_DECL == Emit("STRUCT_DECL", Aggregate("struct"))
UNION_DECL  == Emit("UNION_DECL", Aggregate("union"))

ENUM_DECL ==
  LET named  == Has(1) /\ Kid(1).kind = "IDENTIFIER"
      values == IF named THEN Tail(Kids) ELSE Kids
  IN Emit("ENUM_DECL",
          Texts(<< "typedef", "enum", "{" >>)
          \o FlattenSeq([i \in DOMAIN values |->
               << values[i].kids[1] >> \o Initialiser(After(1, values[i].kids)) \o << Text(",") >>])
          \o Texts(<< "}", " " >>) \o (IF named THEN << Kid(1) >> ELSE << >>) \o << Text(";") >>)

-----------------------------------------------------------------------------
(***************************************************************************)
(* codegen_emit_stmt: statements.                                          *)
(***************************************************************************)
BLOCK == Emit("BLOCK", Braces(Kids))

IF_STMT ==
  Emit("IF_STMT", << Text("if"), Text("("), Kid(1), Text(")"), Kid(2) >>
                  \o (IF Has(3) THEN << Text("else"), Kid(3) >> ELSE << >>))

WHILE_STMT == Emit("WHILE_STMT", << Text("while"), Text("("), Kid(1), Text(")"), Kid(2) >>)

DO_WHILE_STMT ==
  Emit("DO_WHILE_STMT", << Text("do"), Kid(1), Text("while"), Text("("), Kid(2), Text(")"),
                           Text(";") >>)

(* A part that is left out is a node NONE.                                 *)
Part(node) == IF node.kind = "NONE" THEN << >> ELSE << node >>
FOR_STMT ==
  LET start == Kid(1) IN
  Emit("FOR_STMT",
       << Text("for"), Text("(") >>
       \o (IF start.kind = "VAR_DECL"
           THEN Named(start.kids[1], start.kids[2]) \o Initialiser(After(2, start.kids))
           ELSE Part(start))
       \o << Text(";") >> \o Part(Kid(2)) \o << Text(";") >> \o Part(Kid(3))
       \o << Text(")"), Kid(4) >>)

SWITCH_STMT ==
  Emit("SWITCH_STMT", << Text("switch"), Text("("), Kid(1), Text(")") >> \o Braces(Tail(Kids)))

CASE_STMT == Emit("CASE_STMT", << Text("case"), Kid(1), Text(":") >> \o Tail(Kids))

(* data.int_value is what the parser stored there for a number; of another *)
(* node it is what else the union holds: a pointer, the kind of an         *)
(* operator.  Neither has all bits set.                                    *)
IntValue(node) ==
  IF node.kind = "INTEGER_LITERAL" THEN {node.value} ELSE 0 .. 2 ^ Width - 2
CASE_RANGE ==
  /\ At("CASE_RANGE")
  /\ \E from \in IntValue(Kid(1)), to \in IntValue(Kid(2)) :
       Emit("CASE_RANGE", << Labels(from, to) >> \o After(2, Kids))
(* A bug: the last value is left out.                                      *)
LABELS_short ==
  LET i == Here.value[1]
      to == Here.value[2]
  IN Emit("LABELS", IF i < to
                    THEN Texts(<< "case", ToString(i), ":" >>)
                         \o << Labels((i + 1) % 2 ^ Width, to) >>
                    ELSE << >>)
(* A bug: the number does not advance.                                     *)
LABELS_stuck ==
  LET i == Here.value[1]
      to == Here.value[2]
  IN Emit("LABELS", IF i <= to
                    THEN Texts(<< "case", ToString(i), ":" >>) \o << Labels(i, to) >>
                    ELSE << >>)
(* A bug: the number is wider than the bounds.                             *)
LABELS_wide ==
  LET i == Here.value[1]
      to == Here.value[2]
  IN Emit("LABELS", IF i <= to
                    THEN Texts(<< "case", ToString(i), ":" >>) \o << Labels(i + 1, to) >>
                    ELSE << >>)
(* The bounds are compared without a sign; the step after the largest      *)
(* number is 0.                                                            *)
LABELS ==
  LET i == Here.value[1]
      to == Here.value[2]
  IN Emit("LABELS", IF i <= to
                    THEN Texts(<< "case", ToString(i), ":" >>)
                         \o << Labels((i + 1) % 2 ^ Width, to) >>
                    ELSE << >>)

DEFAULT_STMT == Emit("DEFAULT_STMT", << Text("default"), Text(":") >> \o Kids)

RETURN_STMT ==
  Emit("RETURN_STMT", << Text("return"), Text(" ") >> \o Kids \o << Text(";") >>)
BREAK_STMT    == Emit("BREAK_STMT", Texts(<< "break", ";" >>))
CONTINUE_STMT == Emit("CONTINUE_STMT", Texts(<< "continue", ";" >>))
GOTO_STMT     == Emit("GOTO_STMT", << Text("goto"), Text(" "), Kid(1), Text(";") >>)
LABEL_STMT    == Emit("LABEL_STMT", << Kid(1), Text(":") >>)

AssignOps == {"=", "+=", "-=", "*=", "/=", "%=", "&=", "|=", "^=", "<<=", ">>="}
Operators == {"BINARY_EXPR", "UNARY_EXPR", "CONDITIONAL_EXPR"}
Literals  == {"INTEGER_LITERAL", "FLOAT_LITERAL", "CHAR_LITERAL", "BOOL_LITERAL",
              "NULL_LITERAL", "STRING_LITERAL"}

(* An expression and the operands that its operators reach.                *)
Operands(expr) ==
  LET within[d \in 0 .. MaxDepth] ==
        IF d = 0 THEN {expr}
        ELSE LET nearer == within[d - 1] IN
             nearer \cup UNION {ToSet(e.kids) : e \in {o \in nearer : o.kind \in Operators}}
  IN within[MaxDepth]
codegen_expr_has_no_side_effects(expr) ==
  \A e \in Operands(expr) :
    \/ e.kind \in Literals \cup {"IDENTIFIER"}
    \/ e.kind \in Operators /\ e.value \notin AssignOps \cup {"++", "--"}

(* A bug: every name is called.                                            *)
EXPR_STMT_always ==
  Emit("EXPR_STMT", << Kid(1) >> \o IF Kid(1).kind = "IDENTIFIER" THEN Texts(<< "(", ")", ";" >>)
                                    ELSE << Text(";") >>)
EXPR_STMT ==
  LET expr == Kid(1) IN
  Emit("EXPR_STMT",
       (CASE expr.kind = "STRING_LITERAL" -> << Text("Print"), Text("("), expr, Text(")") >>
          [] expr.kind = "IDENTIFIER" ->
               << expr >> \o IF expr.value \in funcs THEN Texts(<< "(", ")" >>) ELSE << >>
          [] OTHER ->
               IF codegen_expr_has_no_side_effects(expr)
               THEN Texts(<< "(", "void", ")", "(" >>) \o << expr, Text(")") >>
               ELSE << expr >>)
       \o << Text(";") >>)

TRY_STMT ==
  Emit("TRY_STMT",
       Texts(<< "{", "int", " ", "__ex", "=", "setjmp", "(", "__holyc_jmp_buf", ")", ";",
                "if", "(", "__ex", "==", "0", ")", "{" >>) \o << Kid(1) >>
       \o Texts(<< "}", "else", "{" >>) \o << Kid(2) >> \o Texts(<< "}", "}" >>))
CATCH_STMT == Emit("CATCH_STMT", << Last(Kids) >>)
THROW_STMT ==
  Emit("THROW_STMT",
       Texts(<< "longjmp", "(", "__holyc_jmp_buf", ",", "1" >>)
       \o (IF Has(1) THEN Texts(<< "+", "(", "int", ")", "(" >>) \o << Kid(1), Text(")") >>
           ELSE << >>)
       \o Texts(<< ")", ";" >>))

(* Assembly is a comment.                                                  *)
ASM_STMT == Emit("ASM_STMT", << Text(";") >>)

(* A directive extends to the end of its line.                             *)
PP_DEFINE ==
  Emit("DEFINE", << Text("#define"), Text(" ") >> \o Between(" ", Kids) \o << Text("\n") >>)
PP_DIRECTIVE == Emit("PP_DIRECTIVE", Texts(<< Here.value, "\n" >>))

(* The first child of an include is its path.                              *)
INCLUDE == Emit("INCLUDE", Tail(Kids))

-----------------------------------------------------------------------------
(***************************************************************************)
(* A file (AST_TRANSLATION_UNIT).                                          *)
(***************************************************************************)
(* A bug: variables stay among the statements.                             *)
Hoisted_noVariables == {"FUNC_DECL", "STRUCT_DECL", "UNION_DECL", "ENUM_DECL"}
Hoisted == {"FUNC_DECL", "STRUCT_DECL", "UNION_DECL", "ENUM_DECL", "VAR_DECL"}
ast_kind_is_declaration(kind) ==
  kind \in Hoisted \cup {"DEFINE", "INCLUDE", "PP_DIRECTIVE"}

FuncNames(items) == {f.kids[2].value : f \in {i \in ToSet(items) : i.kind = "FUNC_DECL"}}
HasTopStmts(items) == \E i \in ToSet(items) : ~ast_kind_is_declaration(i.kind)
(* A bug: any function is taken for the main one.                          *)
WrapsMain_anyFunction(items) == HasTopStmts(items) /\ FuncNames(items) = {}
WrapsMain(items) == HasTopStmts(items) /\ "main" \notin FuncNames(items)

(* A bug: the statements are written with the variables among them.        *)
TRANSLATION_UNIT_twice ==
  /\ At("TRANSLATION_UNIT")
  /\ funcs' = FuncNames(Kids)
  /\ IF WrapsMain(Kids)
     THEN Put(SelectSeq(Kids, LAMBDA k : k.kind \in Hoisted)
              \o Texts(<< "int", " ", "main", "(", ")" >>)
              \o Braces(SelectSeq(Kids, LAMBDA k : k.kind \notin Hoisted \ {"VAR_DECL"})))
     ELSE Put(Kids)
  /\ unit' = unit
(* Statements without a main are wrapped in one, after the declarations;   *)
(* directives and included files go with the statements.                   *)
TRANSLATION_UNIT ==
  /\ At("TRANSLATION_UNIT")
  /\ funcs' = FuncNames(Kids)
  /\ IF WrapsMain(Kids)
     THEN Put(SelectSeq(Kids, LAMBDA k : k.kind \in Hoisted)
              \o Texts(<< "int", " ", "main", "(", ")" >>)
              \o Braces(SelectSeq(Kids, LAMBDA k : k.kind \notin Hoisted)))
     ELSE Put(Kids)
  /\ unit' = unit

-----------------------------------------------------------------------------
Init ==
  /\ unit \in Units
  /\ todo = << unit >>
  /\ written = << >>
  /\ funcs = {}

Next ==
  \/ codegen_emit_type
  \/ IDENTIFIER \/ INTEGER_LITERAL \/ FLOAT_LITERAL \/ STRING_LITERAL
  \/ CHAR_LITERAL \/ BOOL_LITERAL \/ NULL_LITERAL
  \/ UNARY_EXPR \/ BINARY_EXPR \/ CONDITIONAL_EXPR \/ CALL_EXPR \/ INDEX_EXPR
  \/ MEMBER_EXPR \/ POINTER_MEMBER_EXPR \/ CAST_EXPR \/ SIZEOF_EXPR \/ NAMED_TYPE \/ ARRAY_INIT
  \/ FUNC_DECL \/ VAR_DECL \/ STRUCT_DECL \/ UNION_DECL \/ ENUM_DECL
  \/ BLOCK \/ IF_STMT \/ WHILE_STMT \/ DO_WHILE_STMT \/ FOR_STMT
  \/ SWITCH_STMT \/ CASE_STMT \/ CASE_RANGE \/ LABELS \/ DEFAULT_STMT
  \/ RETURN_STMT \/ BREAK_STMT \/ CONTINUE_STMT \/ GOTO_STMT \/ LABEL_STMT \/ EXPR_STMT
  \/ TRY_STMT \/ CATCH_STMT \/ THROW_STMT \/ ASM_STMT
  \/ PP_DEFINE \/ PP_DIRECTIVE \/ INCLUDE \/ TRANSLATION_UNIT

(* The writer is never interrupted.                                        *)
Spec == Init /\ [][Next]_vars /\ WF_vars(Next)

Finished == todo = << >>

-----------------------------------------------------------------------------
(* What is still to be written begins with a node; the rest are nodes and  *)
(* pieces of text.                                                         *)
TypeOK ==
  /\ written \in Seq(STRING) /\ funcs \subseteq STRING
  /\ \A i \in DOMAIN todo :
       /\ todo[i].kind = "TEXT" => i > 1 /\ todo[i].value \in STRING
       /\ todo[i].kind = "LABELS" => todo[i].value \in (0 .. 2 ^ Width - 1) \X (0 .. 2 ^ Width - 1)
=============================================================================
