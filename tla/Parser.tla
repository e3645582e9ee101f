------------------------------- MODULE Parser -------------------------------
(***************************************************************************)
(* The recursive-descent parser of src/parser/parser.c, as far as which    *)
(* token it consumes when, and which programs it reports an error for.     *)
(*                                                                         *)
(* `todo' is the C stack of the parse functions, unfolded: the calls,      *)
(* loops and parser_expect()s that are still to come, the next one first.  *)
(* A step takes the first item, looks at the current token (and the one    *)
(* after it), advances past some tokens and puts what the handler has left *)
(* to do in the item's place.  The AST is left out; a token is its kind,   *)
(* one member of `Tokens' standing for all kinds the parser treats alike.  *)
(***************************************************************************)
EXTENDS Integers, Sequences

CONSTANTS
  Programs,   \* the token sequences the parser is run on
  Included    \* the texts that the files included from the file itself may
              \* have, from those files, and so on; or Unreadable.  Its length
              \* bounds the nesting, which the program does not.

(* The binding strengths of parser_precedence, 1 to 14.  "bit" stands for  *)
(* the backtick, "=" for all assignments, "<" for < and > and "<=" for <=  *)
(* and >=, "==" for == and !=, "<<" for both shifts, "/" for / and %.      *)
Levels ==
  << {}, {"="}, {"?"}, {"||"}, {"&&"}, {"|"}, {"^"}, {"&"}, {"=="}, {"<", "<="},
     {"<<"}, {"+", "-"}, {"*", "/"}, {"bit"} >>
Operators == UNION {Levels[n] : n \in DOMAIN Levels}

(* Other kinds: "!" is ! or ~, "type" a builtin type's keyword, "literal"  *)
(* a number, character, TRUE, FALSE or NULL, "overflow" a number out of    *)
(* range, "malformed" a binary number without digits, "directive" the word *)
(* of an #if .. #endif line, with the rest of the line for #if alone; ".." *)
(* is a dot to the lexer (lexer.c:453); "const" and "error" are what no    *)
(* rule expects.                                                           *)
UnaryOps    == {"-", "!", "*", "&", "++", "--"}
TypeKeyword == {"type"}
Storage     == {"static", "private", "extern", "_extern", "public"}
Atoms       == {"identifier", "literal", "string"}

Tokens ==
  Operators \cup UnaryOps \cup TypeKeyword \cup Storage \cup Atoms \cup
  {"overflow", "malformed", "error", "const", "reg", "noreg", "no_warn", "if", "else",
   "while", "do", "for", "switch", "case", "default", "return", "break", "continue", "goto",
   "try", "catch", "throw", "asm", "class", "union", "enum", "include",
   "import", "define", "directive", "offset", "sizeof",
   "(", ")", "[", "]", "{", "}", ",", ";", ":", ".", "..", "->", "..."}

Text       == Seq(Tokens)
Unreadable == << "error" >>

ASSUME TextsAssumption == Programs \subseteq Text /\ Included \in Seq(SUBSET Text)

VARIABLES
  text,        \* the tokens of the file being parsed
  pos,         \* the index in it of p->current; past the end is TOK_EOF
  todo,        \* what the parser still has to do
  suspended,   \* the parsers of the including files, innermost last
  had_error,   \* diag->had_error
  parsed       \* the texts this and the finished parsers were given

vars == << text, pos, todo, suspended, had_error, parsed >>

-----------------------------------------------------------------------------
(***************************************************************************)
(* Items: what a parse function has left to do.  The number is a binding   *)
(* strength or a position in the text.                                     *)
(***************************************************************************)
Item(op, toks, number) == [op |-> op, toks |-> toks, number |-> number]
Call(op)     == Item(op, {}, 0)
Expect(tok)  == Item("expect", {tok}, 0)
Match(toks)  == Item("match", toks, 0)
Binary(prec) == Item("binary", {}, prec)
Expr         == Binary(0)
Stmt         == Call("stmt")
ExprUnless(tok)   == Item("expr unless", {tok}, 0)
ExprsUntil(tok)   == Item("exprs until", {tok}, 0)
StmtsUntil(toks)  == Item("stmts until", toks, 0)
Identifier   == Expect("identifier")

Program == << Call("unit") >>

EOF == "EOF"
TokenAt(i) == IF i <= Len(text) THEN text[i] ELSE EOF
Current == TokenAt(pos)
Peek    == TokenAt(pos + 1)

At(op) == todo # << >> /\ Head(todo).op = op

(* A bug: the lexer is asked for tokens past the end.                      *)
Put_pastEnd(n, items) ==
  /\ pos' = pos + n
  /\ todo' = items \o Tail(todo)
  /\ UNCHANGED << text, suspended >>

(* parser_advance `n' times and go on with `items'.                        *)
Put(n, items) ==
  /\ pos' = IF pos + n <= Len(text) THEN pos + n ELSE Len(text) + 1
  /\ todo' = items \o Tail(todo)
  /\ UNCHANGED << text, suspended >>
Go(n, items)   == Put(n, items) /\ UNCHANGED << had_error, parsed >>
Fail(n, items) == Put(n, items) /\ had_error' = TRUE /\ parsed' = parsed

(* A missing token is reported and not skipped.                            *)
parser_expect ==
  /\ At("expect")
  /\ IF Current \in Head(todo).toks THEN Go(1, << >>) ELSE Fail(0, << >>)

parser_match ==
  /\ At("match")
  /\ Go(IF Current \in Head(todo).toks THEN 1 ELSE 0, << >>)

-----------------------------------------------------------------------------
(***************************************************************************)
(* Expressions.                                                            *)
(***************************************************************************)
(* A bug: the unexpected token is not skipped.                             *)
parse_primary_stuck ==
  /\ At("primary")
  /\ CASE Current \in Atoms -> Go(1, << >>)
       [] Current = "{"     -> Go(1, << ExprsUntil("}"), Expect("}") >>)
       [] Current = "("     -> Go(1, << Expr, Expect(")") >>)
       [] OTHER             -> Fail(0, << >>)

(* The lexer reports a malformed number, if it has a collector; that of an *)
(* included file has none.                                                 *)
parse_primary ==
  /\ At("primary")
  /\ CASE Current \in Atoms      -> Go(1, << >>)
       [] Current = "overflow"   -> Fail(1, << >>)
       [] Current = "malformed"  ->
            IF suspended = << >> THEN Fail(1, << >>) ELSE Go(1, << >>)
       [] Current = "{"          -> Go(1, << ExprsUntil("}"), Expect("}") >>)
       [] Current = "("          -> Go(1, << Expr, Expect(")") >>)
       [] OTHER                  -> Fail(1, << >>)

(* An optional comma-separated list.                                       *)
ExprList ==
  \/ /\ At("exprs until")
     /\ Go(0, IF Current \in Head(todo).toks THEN << >>
              ELSE << Expr, Call("more exprs") >>)
  \/ /\ At("more exprs")
     /\ IF Current = "," THEN Go(1, << Expr, Head(todo) >>) ELSE Go(0, << >>)

parse_postfix ==
  \/ At("postfix") /\ Go(0, << Call("primary"), Call("postfix loop") >>)
  \/ /\ At("postfix loop")
     /\ LET loop == Head(todo) IN
        CASE Current = "["            -> Go(1, << Expr, Expect("]"), loop >>)
          [] Current = "("            -> Go(1, << ExprsUntil(")"), Expect(")"), loop >>)
          [] Current \in {".", "..", "->"}  -> Go(1, << Identifier, loop >>)
          [] Current \in {"++", "--"} -> Go(1, << loop >>)
          [] OTHER                    -> Go(0, << >>)

StartsType(tok) == tok \in TypeKeyword \cup {"class", "union", "enum", "identifier"}

(* The parenthesis of sizeof is matched before what follows it is looked   *)
(* at, so that the second and third branches come one token late.          *)
SizeofOperand ==
  /\ At("sizeof")
  /\ LET open == IF Current = "(" THEN 1 ELSE 0
         operand == TokenAt(pos + open)
     IN IF open = 1 /\ StartsType(operand)
        THEN Go(1, << Call("type"), Expect(")") >>)
        ELSE IF operand = "("
             THEN Go(open + 1, << Expr, Expect(")") >>)
             ELSE Go(open, << Call("prefix") >>)

parse_prefix ==
  /\ At("prefix")
  /\ LET prefix == Head(todo) IN
     CASE Current \in UnaryOps -> Go(1, << prefix >>)
       [] Current = "offset"   -> Go(1, << Expect("("), Expr, Expect("."), Expr, Expect(")") >>)
       [] Current = "sizeof"   -> Go(1, << Call("sizeof") >>)
       [] Current = "(" /\ Peek \in TypeKeyword \cup {"class", "union"} ->
            Go(2, << Call("stars"), Expect(")"), prefix >>)
       [] OTHER -> Go(0, << Call("postfix") >>)

parser_precedence(tok) ==
  IF tok \in Operators THEN CHOOSE n \in DOMAIN Levels : tok \in Levels[n] ELSE -1
IsComparison(tok) == parser_precedence(tok) \in {9, 10}

(* In a chained comparison the operand in the middle is cloned, and        *)
(* ast_clone_node calls strdup on the data of every node whose bits are    *)
(* not all 0, that of literals and operators too: undefined.  (A "*" may   *)
(* be part of a type, and a literal may be 0.)                             *)
HoldsNumber(first, last) ==
  \E i \in first .. last :
    text[i] \in (Operators \ {"?"}) \cup UnaryOps \cup {"literal", "overflow"}
Crash ==
  /\ todo' = << Call("crashed") >>
  /\ UNCHANGED << text, pos, suspended, had_error, parsed >>

parse_binary ==
  \/ /\ At("binary")
     /\ Go(0, << Call("prefix"), Item("binary loop", {}, Head(todo).number) >>)
  \/ /\ At("binary loop")
     /\ LET loop == Head(todo)
            prec == parser_precedence(Current)
        IN CASE prec < loop.number -> Go(0, << >>)
             [] prec >= loop.number /\ Current = "?" ->
                  Go(1, << Expr, Expect(":"), Binary(prec), loop >>)
             [] prec >= loop.number /\ IsComparison(Current) ->
                  Go(1, << Binary(prec + 1), Item("chain", {Current}, pos + 1), loop >>)
             [] OTHER -> Go(1, << Binary(prec + 1), loop >>)
  \/ /\ At("chain")
     /\ IF IsComparison(Current) /\ Current \notin Head(todo).toks
        THEN \/ Go(1, << Binary(parser_precedence(Current) + 1) >>)
             \/ HoldsNumber(Head(todo).number, pos - 1) /\ Crash
        ELSE Go(0, << >>)

OptionalExpr ==
  /\ At("expr unless")
  /\ Go(0, IF Current \in Head(todo).toks THEN << >> ELSE << Expr >>)

-----------------------------------------------------------------------------
(***************************************************************************)
(* Types and declarations.                                                 *)
(***************************************************************************)

(* Where no type is found, void is meant and no token is consumed.         *)
parse_type ==
  \/ /\ At("type")
     /\ CASE Current \in TypeKeyword \cup {"identifier"} -> Go(1, << Call("stars") >>)
          [] Current \in {"class", "union", "enum"} ->
               Go(1, << Match({"identifier"}), Call("stars") >>)
          [] OTHER -> Go(0, << Call("stars") >>)
  \/ /\ At("stars")
     /\ IF Current = "*" THEN Go(1, << Head(todo) >>) ELSE Go(0, << >>)

parse_decl ==
  \/ /\ At("decl")
     /\ Go(0, << Match({"no_warn"}), Match({"reg"}), Match({"noreg"}),
                 Match({"static", "private"}), Call("extern"),
                 Call("type"), Call("declarator") >>)
  \/ /\ At("extern")
     /\ IF Current = "extern"
        THEN Go(1, << Match({"public"}) >>)
        ELSE Go(0, << Match({"public"}), Match({"_extern"}) >>)
  \/ /\ At("declarator")
     /\ IF Current = "(" /\ Peek = "*"
        THEN Go(2, << Identifier, Expect(")"), Expect("("), Call("params"),
                      Expect(")"), Call("initialiser"), Expect(";") >>)
        ELSE Go(0, << Identifier, Call("dimensions"), Call("variable or function") >>)
  \/ /\ At("dimensions")
     /\ IF Current = "[" THEN Go(1, << ExprUnless("]"), Expect("]"), Head(todo) >>)
                         ELSE Go(0, << >>)
  \/ /\ At("variable or function")
     /\ IF Current = "("
        THEN Go(1, << Call("variadic params"), Expect(")"), Call("body") >>)
        ELSE Go(0, << Call("initialiser"), Expect(";") >>)
  \/ /\ At("initialiser")
     /\ IF Current = "=" THEN Go(1, << Expr >>) ELSE Go(0, << >>)

(* A list of parameters; only a function declaration ends it at "...".     *)
Params ==
  \/ /\ At("params")
     /\ Go(0, IF Current = ")" THEN << >> ELSE << Call("param") >>)
  \/ /\ At("param")
     /\ Go(0, << Call("type"), Match({"identifier"}), Call("more params") >>)
  \/ /\ At("more params")
     /\ IF Current = "," THEN Go(1, << Call("param") >>) ELSE Go(0, << >>)

VariadicParams ==
  \/ /\ At("variadic params")
     /\ Go(0, IF Current = ")" THEN << >> ELSE << Call("variadic param") >>)
  \/ /\ At("variadic param")
     /\ IF Current = "..."
        THEN Go(1, << >>)
        ELSE Go(0, << Call("type"), Match({"identifier"}), Call("more variadic params") >>)
  \/ /\ At("more variadic params")
     /\ IF Current = "," THEN Go(1, << Call("variadic param") >>) ELSE Go(0, << >>)

Body ==
  /\ At("body")
  /\ Go(0, IF Current = "{" THEN << Call("block") >> ELSE << Expect(";") >>)

-----------------------------------------------------------------------------
(***************************************************************************)
(* Statements.                                                             *)
(***************************************************************************)
Parenthesised == << Expect("("), Expr, Expect(")") >>

(* parser_parse_stmt absorbs a no_warn and dispatches on what follows it.  *)
parse_stmt == At("stmt") /\ Go(0, << Match({"no_warn"}), Call("statement") >>)

AtStmt(tok) == At("statement") /\ Current = tok

parse_block ==
  \/ AtStmt("{") /\ Go(0, << Call("block") >>)
  \/ At("block") /\ Go(0, << Expect("{"), StmtsUntil({"}"}), Expect("}") >>)

Statements ==
  /\ At("stmts until")
  /\ Go(0, IF Current \in Head(todo).toks \cup {EOF} THEN << >>
           ELSE << Stmt, Head(todo) >>)

IfStmt ==
  \/ AtStmt("if") /\ Go(1, Parenthesised \o << Stmt, Call("else") >>)
  \/ At("else") /\ IF Current = "else" THEN Go(1, << Stmt >>) ELSE Go(0, << >>)

WhileStmt == AtStmt("while") /\ Go(1, Parenthesised \o << Stmt >>)

DoWhileStmt ==
  AtStmt("do") /\ Go(1, << Stmt, Expect("while") >> \o Parenthesised \o << Expect(";") >>)

(* A declaration brings its own semicolon.                                 *)
ForStmt ==
  \/ AtStmt("for") /\ Go(1, << Expect("("), Call("for init"), ExprUnless(";"), Expect(";"),
                               ExprUnless(")"), Expect(")"), Stmt >>)
  \/ /\ At("for init")
     /\ Go(0, IF Current \in TypeKeyword THEN << Call("decl") >>
              ELSE << ExprUnless(";"), Expect(";") >>)

(* A bug: a default ends no case.                                          *)
CaseEnd_noDefault == {"case", "}"}

CaseEnd == {"case", "default", "}"}

SwitchStmt ==
  \/ AtStmt("switch") /\ Go(1, Parenthesised \o
                              << Expect("{"), Call("switch body"), Expect("}") >>)
  \/ /\ At("switch body")
     /\ LET body == Head(todo) IN
        CASE Current \in {"}", EOF} -> Go(0, << >>)
          [] Current = "case" ->
               Go(1, << Call("case value"), Expect(":"), StmtsUntil(CaseEnd), body >>)
          [] Current = "default" -> Go(1, << Expect(":"), StmtsUntil(CaseEnd), body >>)
          [] OTHER -> Go(0, << Stmt, body >>)
  \/ /\ At("case value")
     /\ Go(0, IF Current = ":" THEN << >> ELSE << Expr, Call("case range") >>)
  \/ /\ At("case range")
     /\ IF Current = "..." THEN Go(1, << Expr >>) ELSE Go(0, << >>)

ReturnStmt == AtStmt("return") /\ Go(1, << ExprUnless(";"), Expect(";") >>)
ThrowStmt  == AtStmt("throw")  /\ Go(1, << ExprUnless(";"), Expect(";") >>)

JumpStmt ==
  \/ At("statement") /\ Current \in {"break", "continue"} /\ Go(1, << Expect(";") >>)
  \/ AtStmt("goto") /\ Go(1, << Identifier, Expect(";") >>)

TryStmt ==
  \/ AtStmt("try") /\ Go(1, << Stmt, Expect("catch"), Call("catch param"), Stmt >>)
  \/ /\ At("catch param")
     /\ IF Current = "(" THEN Go(1, << Expr, Expect(")") >>) ELSE Go(0, << >>)

AsmStmt ==
  \/ AtStmt("asm") /\ Go(1, << Call("asm text"), Expect(";") >>)
  \/ /\ At("asm text")
     /\ IF Current = "(" THEN Go(1, << Match({"string"}), Expect(")") >>) ELSE Go(0, << >>)

StartsDecl == TypeKeyword \cup {"public", "private", "reg", "noreg"}
Keywords ==
  {"{", "if", "while", "do", "for", "switch", "return", "throw", "break",
   "continue", "goto", "try", "asm"}

OtherStmt ==
  /\ At("statement")
  /\ Current \notin Keywords
  /\ CASE Current = "identifier" /\ Peek = ":" -> Go(2, << >>)
       [] Current \in StartsDecl -> Go(0, << Call("decl") >>)
       [] OTHER -> Go(0, << Expr, Expect(";") >>)

-----------------------------------------------------------------------------
(***************************************************************************)
(* Top level.                                                              *)
(***************************************************************************)
AtTop(toks) == At("top level") /\ Current \in toks

ClassDecl ==
  \/ AtTop({"class", "union"}) /\
       Go(1, << Match({"identifier"}), Expect("{"), Call("members"), Expect("}"),
                Expect(";") >>)
  \/ /\ At("members")
     /\ CASE Current \in {"}", EOF} -> Go(0, << >>)
          [] Current \in TypeKeyword \cup {"identifier"} ->
               Go(0, << Call("type"), Identifier, Call("member"), Head(todo) >>)
          [] OTHER -> Go(0, << Stmt, Head(todo) >>)
  \/ /\ At("member")
     /\ IF Current = "(" THEN Go(1, << Call("params"), Expect(")"), Call("body") >>)
                         ELSE Go(0, << Expect(";") >>)

(* The loop ends at a brace; its body may consume nothing.                 *)
EnumDecl ==
  \/ AtTop({"enum"}) /\
       Go(1, << Match({"identifier"}), Expect("{"), Call("enumerators"), Expect("}"),
                Expect(";") >>)
  \/ /\ At("enumerators")
     /\ Go(0, IF Current \in {"}", EOF} THEN << >>
              ELSE << Identifier, Call("initialiser"), Match({","}), Head(todo) >>)

(* A new parser for the file, sharing the diagnostics.                     *)
Include ==
  /\ AtTop({"include", "import"})
  /\ IF Peek # "string" THEN Go(1, << >>)
     ELSE /\ Len(suspended) < Len(Included)
          /\ \E file \in Included[Len(suspended) + 1] :
               /\ parsed' = parsed \cup {file}
               /\ IF file = Unreadable
                  THEN Put(2, << >>) /\ had_error' = TRUE
                  ELSE /\ suspended' = Append(suspended, [text |-> text, pos |-> pos + 2])
                       /\ text' = file
                       /\ pos' = 1
                       /\ todo' = << Call("unit"), Call("resume") >> \o Tail(todo)
                       /\ had_error' = had_error

(* A bug: the token after the file name is lost.                           *)
Resume_oneLate ==
  /\ At("resume")
  /\ LET outer == suspended[Len(suspended)] IN
     /\ text' = outer.text
     /\ pos' = IF outer.pos < Len(outer.text) THEN outer.pos + 1 ELSE Len(outer.text) + 1
  /\ suspended' = SubSeq(suspended, 1, Len(suspended) - 1)
  /\ todo' = Tail(todo)
  /\ UNCHANGED << had_error, parsed >>

Resume ==
  /\ At("resume")
  /\ LET outer == suspended[Len(suspended)] IN
     /\ text' = outer.text
     /\ pos' = outer.pos
  /\ suspended' = SubSeq(suspended, 1, Len(suspended) - 1)
  /\ todo' = Tail(todo)
  /\ UNCHANGED << had_error, parsed >>

(* A macro's value is whatever expression follows, on this line or not.    *)
Define ==
  \/ AtTop({"define"}) /\ Go(1, << Match({"identifier"}), Call("macro value") >>)
  \/ /\ At("macro value")
     /\ Go(0, IF Current \in {EOF, ";"} THEN << >> ELSE << Expr >>)

Directive == AtTop({"directive"}) /\ Go(1, << >>)

TopLevelOnly == {"class", "union", "enum", "include", "import", "define", "directive"}

OtherTopLevel ==
  /\ At("top level")
  /\ Current \notin TopLevelOnly
  /\ Go(0, IF Current \in TypeKeyword \cup Storage \cup {"no_warn"}
           THEN << Call("decl") >> ELSE << Stmt >>)

parse_translation_unit ==
  /\ At("unit")
  /\ Go(0, IF Current = EOF THEN << >> ELSE << Call("top level"), Head(todo) >>)

-----------------------------------------------------------------------------
Init ==
  /\ text \in Programs
  /\ pos = 1
  /\ todo = Program
  /\ suspended = << >>
  /\ had_error = FALSE
  /\ parsed = {text}

Next ==
  \/ parser_expect \/ parser_match
  \/ parse_primary \/ ExprList \/ parse_postfix \/ SizeofOperand
  \/ parse_prefix \/ parse_binary \/ OptionalExpr
  \/ parse_type \/ parse_decl \/ Params \/ VariadicParams \/ Body
  \/ parse_stmt \/ parse_block \/ Statements \/ IfStmt \/ WhileStmt
  \/ DoWhileStmt \/ ForStmt \/ SwitchStmt \/ ReturnStmt \/ ThrowStmt
  \/ JumpStmt \/ TryStmt \/ AsmStmt \/ OtherStmt
  \/ ClassDecl \/ EnumDecl \/ Include \/ Resume \/ Define \/ Directive
  \/ OtherTopLevel \/ parse_translation_unit

(* The parser is one thread that runs until it returns.                    *)
Spec == Init /\ [][Next]_vars /\ WF_vars(Next)
-----------------------------------------------------------------------------
(***************************************************************************)
(* Correctness.                                                            *)
(***************************************************************************)
Ops ==
  {"expect", "match", "primary", "exprs until", "more exprs", "postfix",
   "postfix loop", "sizeof", "prefix", "binary", "binary loop", "chain",
   "expr unless", "type", "stars", "decl", "extern", "declarator",
   "dimensions", "variable or function", "initialiser", "params", "param",
   "more params", "variadic params", "variadic param", "more variadic params",
   "body", "stmt", "statement", "block", "stmts until", "else", "for init",
   "switch body", "case value", "case range", "catch param", "asm text",
   "members", "member", "crashed", "enumerators", "resume", "macro value", "top level",
   "unit"}

(* What no rule expects, wherever it stands, and numbers out of range.     *)
Faulty == {"error", "const", "overflow"}

TypeOK ==
  /\ text \in Text
  /\ pos \in 1 .. Len(text) + 1
  /\ todo \in Seq([op : Ops, toks : SUBSET (Tokens \ Faulty), number : Nat])
  /\ suspended \in Seq([text : Text, pos : Nat])
  /\ \A n \in DOMAIN suspended : suspended[n].pos \in 1 .. Len(suspended[n].text) + 1
  /\ had_error \in BOOLEAN
  /\ parsed \subseteq Text

Returned == todo = << >>
Accepted == Returned /\ ~had_error

(* A file is accepted only when it and all files included have been read   *)
(* to their ends, and without a token that no rule expects: none is passed *)
(* over in silence, and the parsers of included files hand over at the     *)
(* token behind the file's name (parser.c:49-60, 1005-1110).               *)
AcceptedIsRead ==
  Accepted =>
    /\ Current = EOF /\ suspended = << >>
    /\ \A file \in parsed : \A i \in DOMAIN file : file[i] \notin Faulty

(* The parser returns: its loops all come to an end, on wrong programs as  *)
(* on right ones ("Once an error is emitted, compilation continues to find *)
(* more errors", docs/ARCHITECTURE.md:230), and it does not crash.         *)
Terminates == <>Returned
=============================================================================
