---------------------------- MODULE ParserProofs ----------------------------
(***************************************************************************)
(* Proofs about Parser, for all texts: its types, and that what it accepts *)
(* it has read to the end, included files too, without passing over a      *)
(* token that no rule expects.                                             *)
(*                                                                         *)
(* All but four kinds of step are alike: inside one file, they pass over   *)
(* at most two tokens, none of them faulty unless the error is reported,   *)
(* and put items in the head's place that neither end the file nor resume  *)
(* another (`WithinFile').  So one lemma about these steps, and one each   *)
(* about the others, show that the invariant is kept.                      *)
(***************************************************************************)
EXTENDS Parser, SequenceTheorems, FiniteSetTheorems, TLAPS

Awaited    == SUBSET (Tokens \ Faulty)
Items      == [op : Ops, toks : Awaited, number : Nat]
PlainOps   == Ops \ {"resume", "unit", "crashed"}
PlainItems == [op : PlainOps, toks : Awaited, number : Nat]

InFile == todo # << >> /\ Head(todo).op \in PlainOps /\ Head(todo) \in PlainItems

NextAreClean(n) == \A i \in 0 .. n - 1 : TokenAt(pos + i) \notin Faulty

Proceeds(n, items) ==
  /\ Put(n, items) /\ parsed' = parsed
  /\ had_error' = TRUE \/ (had_error' = had_error /\ NextAreClean(n))

WithinFile ==
  /\ InFile
  /\ \E n \in 0 .. 2 : \E items \in Seq(PlainItems) : Proceeds(n, items)

(***************************************************************************)
(* The invariant.  Each file ends at its top-level loop, there are as many *)
(* files to go on with as parsers suspended, and unless an error has been  *)
(* reported every token before a parser's position is one that some rule   *)
(* expects.  (A crash abandons the C stack.)                               *)
(***************************************************************************)
Crashed == todo = << Call("crashed") >>

Ends(i) == i = Len(todo) + 1 \/ todo[i].op = "resume"

FilesEnd ==
  \A i \in 1 .. Len(todo) + 1 :
    Ends(i) => IF i = 1 THEN Current = EOF ELSE todo[i - 1].op = "unit"

Resumes(s) == {i \in DOMAIN s : s[i].op = "resume"}
Matched    == Cardinality(Resumes(todo)) = Len(suspended)

Clean(s, i) == \A j \in 1 .. i - 1 : s[j] \notin Faulty

Accounted ==
  \/ had_error
  \/ /\ Clean(text, pos)
     /\ \A n \in DOMAIN suspended : Clean(suspended[n].text, suspended[n].pos)
     /\ \A file \in parsed :
          \/ file = text
          \/ \E n \in DOMAIN suspended : file = suspended[n].text
          \/ Clean(file, Len(file) + 1)

ParserInv ==
  /\ TypeOK
  /\ Crashed \/ (FilesEnd /\ Matched)
  /\ Accounted

-----------------------------------------------------------------------------
(***************************************************************************)
(* The items and tokens of the parser.                                     *)
(***************************************************************************)

(* The operators are tokens that the rules expect; the end is no token.    *)
LEMMA TokenTypes ==
  /\ Operators \subseteq Tokens \ Faulty
  /\ EOF \notin Tokens
<1>1. Operators = {"=", "?", "||", "&&", "|", "^", "&", "==", "<", "<=", "<<",
                   "+", "-", "*", "/", "bit"}
  BY DEF Operators, Levels
<1>2. QED
  BY <1>1 DEF Tokens, UnaryOps, TypeKeyword, Storage, Atoms, EOF, Faulty

(* Binding strengths are small numbers, and only operators have one.       *)
LEMMA PrecedenceTypes ==
  \A tok : /\ parser_precedence(tok) \in 1 .. 14 \cup {-1}
           /\ parser_precedence(tok) # -1 => tok \in Operators
<1>1. DOMAIN Levels = 1 .. 14
  BY DEF Levels
<1>2. QED
  BY <1>1 DEF parser_precedence, Operators

(* The calls and loops within a file.                                      *)
LEMMA CallTypes ==
  /\ Call("asm text") \in PlainItems
  /\ Call("block") \in PlainItems
  /\ Call("body") \in PlainItems
  /\ Call("case range") \in PlainItems
  /\ Call("case value") \in PlainItems
  /\ Call("catch param") \in PlainItems
  /\ Call("decl") \in PlainItems
  /\ Call("declarator") \in PlainItems
  /\ Call("dimensions") \in PlainItems
  /\ Call("else") \in PlainItems
  /\ Call("enumerators") \in PlainItems
  /\ Call("extern") \in PlainItems
  /\ Call("for init") \in PlainItems
  /\ Call("initialiser") \in PlainItems
  /\ Call("macro value") \in PlainItems
  /\ Call("member") \in PlainItems
  /\ Call("members") \in PlainItems
  /\ Call("more exprs") \in PlainItems
  /\ Call("more params") \in PlainItems
  /\ Call("more variadic params") \in PlainItems
  /\ Call("param") \in PlainItems
  /\ Call("params") \in PlainItems
  /\ Call("postfix loop") \in PlainItems
  /\ Call("postfix") \in PlainItems
  /\ Call("prefix") \in PlainItems
  /\ Call("primary") \in PlainItems
  /\ Call("sizeof") \in PlainItems
  /\ Call("stars") \in PlainItems
  /\ Call("statement") \in PlainItems
  /\ Call("switch body") \in PlainItems
  /\ Call("top level") \in PlainItems
  /\ Call("type") \in PlainItems
  /\ Call("variable or function") \in PlainItems
  /\ Call("variadic param") \in PlainItems
  /\ Call("variadic params") \in PlainItems
  /\ Stmt \in PlainItems
  /\ Expr \in PlainItems
BY DEF Stmt, Expr, Binary, Call, Item, PlainItems, PlainOps, Ops, Awaited

(* What is expected next is never faulty.                                  *)
LEMMA ExpectTypes ==
  /\ Expect("(") \in PlainItems
  /\ Expect(")") \in PlainItems
  /\ Expect(".") \in PlainItems
  /\ Expect(":") \in PlainItems
  /\ Expect(";") \in PlainItems
  /\ Expect("]") \in PlainItems
  /\ Expect("{") \in PlainItems
  /\ Expect("}") \in PlainItems
  /\ Expect("catch") \in PlainItems
  /\ Expect("while") \in PlainItems
  /\ Identifier \in PlainItems
  /\ ExprUnless(")") \in PlainItems
  /\ ExprUnless(";") \in PlainItems
  /\ ExprUnless("]") \in PlainItems
  /\ ExprsUntil(")") \in PlainItems
  /\ ExprsUntil("}") \in PlainItems
<1>1. {"(", ")", ".", ":", ";", "]", "{", "}", "catch", "while", "identifier"}
        \subseteq Tokens \ Faulty
  BY DEF Tokens, Atoms, Faulty
<1>2. {"expect", "expr unless", "exprs until"} \subseteq PlainOps
  BY DEF PlainOps, Ops
<1>3. QED
  BY <1>1, <1>2 DEF Expect, Identifier, ExprUnless, ExprsUntil, Item, PlainItems, Awaited

(* The same of what may come next, and of what ends a list of statements.  *)
LEMMA MatchTypes ==
  /\ Match({","}) \in PlainItems
  /\ Match({"_extern"}) \in PlainItems
  /\ Match({"identifier"}) \in PlainItems
  /\ Match({"no_warn"}) \in PlainItems
  /\ Match({"noreg"}) \in PlainItems
  /\ Match({"public"}) \in PlainItems
  /\ Match({"reg"}) \in PlainItems
  /\ Match({"static", "private"}) \in PlainItems
  /\ Match({"string"}) \in PlainItems
  /\ StmtsUntil({"}"}) \in PlainItems
  /\ StmtsUntil(CaseEnd) \in PlainItems
<1>1. {",", "_extern", "identifier", "no_warn", "noreg", "public", "reg", "static",
       "private", "string", "}", "case", "default"} \subseteq Tokens \ Faulty
  BY DEF Tokens, Atoms, Storage, Faulty
<1>2. {"match", "stmts until"} \subseteq PlainOps
  BY DEF PlainOps, Ops
<1>3. QED
  BY <1>1, <1>2 DEF Match, StmtsUntil, CaseEnd, Item, PlainItems, Awaited

(* The operands of an operator.                                            *)
LEMMA BinaryTypes ==
  /\ \A prec \in Nat : Binary(prec) \in PlainItems
  /\ \A prec \in Nat : Item("binary loop", {}, prec) \in PlainItems
  /\ \A tok \in Operators, n \in Nat : Item("chain", {tok}, n) \in PlainItems
<1>1. {"binary", "binary loop", "chain"} \subseteq PlainOps
  BY DEF PlainOps, Ops
<1>2. QED
  BY <1>1, TokenTypes DEF Binary, Item, PlainItems, Awaited

(* Short lists of items.                                                   *)
LEMMA Lists ==
  /\ << >> \in Seq(PlainItems)
  /\ \A a \in PlainItems : << a >> \in Seq(PlainItems)
  /\ \A a, b \in PlainItems : << a, b >> \in Seq(PlainItems)
  /\ \A a, b, c \in PlainItems : << a, b, c >> \in Seq(PlainItems)
  /\ \A a, b, c, d \in PlainItems : << a, b, c, d >> \in Seq(PlainItems)
  /\ \A a, b, c, d, e \in PlainItems : << a, b, c, d, e >> \in Seq(PlainItems)
  /\ \A a, b, c, d, e, f \in PlainItems : << a, b, c, d, e, f >> \in Seq(PlainItems)
  /\ \A a, b, c, d, e, f, g \in PlainItems :
       << a, b, c, d, e, f, g >> \in Seq(PlainItems)
OBVIOUS

(* The parenthesised expression of if, while, do and switch.               *)
LEMMA ParenthesisedType ==
  Parenthesised \in Seq(PlainItems)
BY CallTypes, ExpectTypes, Lists DEF Parenthesised

-----------------------------------------------------------------------------
(***************************************************************************)
(* Every step but those at the ends of files stays within the file.        *)
(***************************************************************************)

(* An item that neither ends a file nor a crash is read within a file.     *)
LEMMA Heads ==
  ASSUME TypeOK
  PROVE  \A op : At(op) /\ op \notin {"resume", "unit", "crashed"} => InFile
<1> SUFFICES ASSUME NEW op, At(op), op \notin {"resume", "unit", "crashed"}
             PROVE  InFile
  OBVIOUS
<1>1. Head(todo) \in Items
  BY HeadTailProperties DEF TypeOK, At, Items, Awaited
<1>2. QED
  BY <1>1 DEF At, Items, PlainItems, PlainOps, InFile

(* The forms in which the handlers proceed.                                *)
LEMMA Steps ==
  ASSUME TypeOK, InFile
  PROVE  \A items \in Seq(PlainItems) :
           /\ Go(0, items) => WithinFile
           /\ Go(1, items) /\ Current \notin Faulty => WithinFile
           /\ Go(2, items) /\ Current \notin Faulty /\ Peek \notin Faulty => WithinFile
           /\ Fail(0, items) => WithinFile
           /\ Fail(1, items) => WithinFile
<1> SUFFICES ASSUME NEW items \in Seq(PlainItems)
             PROVE  /\ Go(0, items) => WithinFile
                    /\ Go(1, items) /\ Current \notin Faulty => WithinFile
                    /\ Go(2, items) /\ Current \notin Faulty /\ Peek \notin Faulty
                         => WithinFile
                    /\ Fail(0, items) => WithinFile
                    /\ Fail(1, items) => WithinFile
  OBVIOUS
<1>1. pos + 0 = pos
  BY DEF TypeOK
<1>2. /\ Go(0, items) => Proceeds(0, items)
      /\ Fail(0, items) => Proceeds(0, items)
      /\ Fail(1, items) => Proceeds(1, items)
  BY DEF Go, Fail, Proceeds, NextAreClean
<1>3. Go(1, items) /\ Current \notin Faulty => Proceeds(1, items)
  BY <1>1 DEF Go, Proceeds, NextAreClean, Current
<1>4. Go(2, items) /\ Current \notin Faulty /\ Peek \notin Faulty => Proceeds(2, items)
  BY <1>1 DEF Go, Proceeds, NextAreClean, Current, Peek
<1>5. QED
  BY <1>2, <1>3, <1>4 DEF WithinFile

(* Expressions (parser.c:201-530).                                         *)
LEMMA Expressions ==
  ASSUME TypeOK
  PROVE  /\ parser_expect => WithinFile
         /\ parser_match => WithinFile
         /\ parse_primary => WithinFile
         /\ ExprList => WithinFile
         /\ parse_postfix => WithinFile
         /\ SizeofOperand => WithinFile
         /\ parse_prefix => WithinFile
         /\ OptionalExpr => WithinFile
<1>1. ASSUME parser_expect PROVE WithinFile
  <2>1. InFile /\ Head(todo).toks \cap Faulty = {}
    BY <1>1, Heads DEF parser_expect, InFile, PlainItems, Awaited
  <2>2. QED
    BY <1>1, <2>1, Steps, Lists DEF parser_expect
<1>2. ASSUME parser_match PROVE WithinFile
  <2>1. InFile /\ Head(todo).toks \cap Faulty = {}
    BY <1>2, Heads DEF parser_match, InFile, PlainItems, Awaited
  <2>2. QED
    BY <1>2, <2>1, Steps, Lists DEF parser_match
<1>3. ASSUME parse_primary PROVE WithinFile
  <2>1. InFile
    BY <1>3, Heads DEF parse_primary
  <2>2. QED
    BY <1>3, <2>1, Steps, Lists, CallTypes, ExpectTypes DEF parse_primary, Atoms, Faulty
<1>4. ASSUME ExprList PROVE WithinFile
  <2>1. InFile
    BY <1>4, Heads DEF ExprList
  <2>2. << Expr, Head(todo) >> \in Seq(PlainItems)
    BY <2>1, Lists, CallTypes DEF InFile
  <2>3. QED
    BY <1>4, <2>1, <2>2, Steps, Lists, CallTypes DEF ExprList, Faulty
<1>5. ASSUME parse_postfix PROVE WithinFile
  <2>1. InFile
    BY <1>5, Heads DEF parse_postfix
  <2>2. Head(todo) \in PlainItems
    BY <2>1 DEF InFile
  <2>3. QED
    BY <1>5, <2>1, <2>2, Steps, Lists, CallTypes, ExpectTypes DEF parse_postfix, Faulty
<1>6. ASSUME SizeofOperand PROVE WithinFile
  <2>1. InFile
    BY <1>6, Heads DEF SizeofOperand
  <2>2. TokenAt(pos + 0) = Current /\ TokenAt(pos + 1) = Peek
    BY DEF Current, Peek, TypeOK
  <2>3. /\ << Call("type"), Expect(")") >> \in Seq(PlainItems)
        /\ << Expr, Expect(")") >> \in Seq(PlainItems)
        /\ << Call("prefix") >> \in Seq(PlainItems)
    BY Lists, CallTypes, ExpectTypes
  <2>4. CASE Current = "("
    <3>1. \/ Go(1, << Call("type"), Expect(")") >>)
          \/ Peek = "(" /\ Go(2, << Expr, Expect(")") >>)
          \/ Go(1, << Call("prefix") >>)
      BY <1>6, <2>2, <2>4 DEF SizeofOperand
    <3>2. QED
      BY <2>1, <2>3, <2>4, <3>1, Steps DEF Faulty
  <2>5. CASE Current # "("
    <3>1. Go(0, << Call("prefix") >>)
      BY <1>6, <2>2, <2>5 DEF SizeofOperand
    <3>2. QED
      BY <2>1, <2>3, <3>1, Steps
  <2>6. QED
    BY <2>4, <2>5
<1>7. ASSUME parse_prefix PROVE WithinFile
  <2>1. InFile
    BY <1>7, Heads DEF parse_prefix
  <2>2. Head(todo) \in PlainItems
    BY <2>1 DEF InFile
  <2>3. QED
    BY <1>7, <2>1, <2>2, Steps, Lists, CallTypes, ExpectTypes
    DEF parse_prefix, UnaryOps, TypeKeyword, Faulty
<1>8. ASSUME OptionalExpr PROVE WithinFile
  <2>1. InFile
    BY <1>8, Heads DEF OptionalExpr
  <2>2. QED
    BY <1>8, <2>1, Steps, Lists, CallTypes DEF OptionalExpr
<1>9. QED
  BY <1>1, <1>2, <1>3, <1>4, <1>5, <1>6, <1>7, <1>8

(* Binary operators; an operand in the middle of a chain may crash         *)
(* (parser.c:531-640).                                                     *)
LEMMA BinaryOperators ==
  ASSUME TypeOK, parse_binary
  PROVE  WithinFile \/ Crash
<1>1. InFile
  BY Heads DEF parse_binary
<1>2. /\ Head(todo) \in PlainItems /\ Head(todo).number \in Nat
      /\ pos + 1 \in Nat
  BY <1>1 DEF InFile, PlainItems, TypeOK
<1>3. CASE At("binary")
  <2>1. << Call("prefix"), Item("binary loop", {}, Head(todo).number) >> \in Seq(PlainItems)
    BY <1>2, Lists, CallTypes, BinaryTypes
  <2>2. Go(0, << Call("prefix"), Item("binary loop", {}, Head(todo).number) >>)
    BY <1>3 DEF parse_binary, At
  <2>3. QED
    BY <1>1, <2>1, <2>2, Steps
<1>4. CASE At("binary loop")
  <2> DEFINE prec == parser_precedence(Current)
  <2>1. prec \in 1 .. 14 \cup {-1} /\ (prec # -1 => Current \in Operators)
    BY PrecedenceTypes
  <2> HIDE DEF prec
  <2>2. (CASE prec < Head(todo).number -> Go(0, << >>)
           [] prec >= Head(todo).number /\ Current = "?" ->
                Go(1, << Expr, Expect(":"), Binary(prec), Head(todo) >>)
           [] prec >= Head(todo).number /\ IsComparison(Current) ->
                Go(1, << Binary(prec + 1), Item("chain", {Current}, pos + 1), Head(todo) >>)
           [] OTHER -> Go(1, << Binary(prec + 1), Head(todo) >>))
    BY <1>4 DEF prec, parse_binary, At
  <2>3. /\ prec < Head(todo).number \/ prec >= Head(todo).number
        /\ ~(prec < Head(todo).number /\ prec >= Head(todo).number)
    BY <1>2, <2>1
  <2>4. CASE prec < Head(todo).number
    <3>1. Go(0, << >>)
      BY <2>2, <2>3, <2>4, Zenon
    <3>2. QED
      BY <1>1, <3>1, Steps, Lists
  <2>5. CASE prec >= Head(todo).number
    <3>1. prec \in Nat /\ prec + 1 \in Nat /\ Current \in Operators /\ Current \notin Faulty
      BY <1>2, <2>1, <2>5, TokenTypes
    <3>2. /\ Binary(prec) \in PlainItems /\ Binary(prec + 1) \in PlainItems
          /\ Item("chain", {Current}, pos + 1) \in PlainItems
      BY <1>2, <3>1, BinaryTypes
    <3>3. /\ << Expr, Expect(":"), Binary(prec), Head(todo) >> \in Seq(PlainItems)
          /\ << Binary(prec + 1), Item("chain", {Current}, pos + 1), Head(todo) >>
               \in Seq(PlainItems)
          /\ << Binary(prec + 1), Head(todo) >> \in Seq(PlainItems)
      BY <1>2, <3>2, Lists, CallTypes, ExpectTypes
    <3>4. \/ Go(1, << Expr, Expect(":"), Binary(prec), Head(todo) >>)
          \/ Go(1, << Binary(prec + 1), Item("chain", {Current}, pos + 1), Head(todo) >>)
          \/ Go(1, << Binary(prec + 1), Head(todo) >>)
      BY <2>2, <2>3, <2>5, Zenon
    <3>5. QED
      BY <1>1, <3>1, <3>3, <3>4, Steps
  <2>6. QED
    BY <2>3, <2>4, <2>5
<1>5. CASE At("chain")
  <2>1. CASE IsComparison(Current) /\ Current \notin Head(todo).toks
    <3>1. Current \in Operators /\ Current \notin Faulty
      BY <2>1, PrecedenceTypes, TokenTypes DEF IsComparison
    <3>2. parser_precedence(Current) + 1 \in Nat
      BY <2>1 DEF IsComparison
    <3>3. << Binary(parser_precedence(Current) + 1) >> \in Seq(PlainItems)
      BY <3>2, Lists, BinaryTypes
    <3>4. Go(1, << Binary(parser_precedence(Current) + 1) >>) \/ Crash
      BY <1>5, <2>1 DEF parse_binary, At
    <3>5. QED
      BY <1>1, <3>1, <3>3, <3>4, Steps
  <2>2. CASE ~(IsComparison(Current) /\ Current \notin Head(todo).toks)
    <3>1. Go(0, << >>)
      BY <1>5, <2>2 DEF parse_binary, At
    <3>2. QED
      BY <1>1, <3>1, Steps, Lists
  <2>3. QED
    BY <2>1, <2>2
<1>6. QED
  BY <1>3, <1>4, <1>5 DEF parse_binary

(* Types, declarations and lists of parameters (parser.c:62-200, 641-780). *)
LEMMA Declarations ==
  ASSUME TypeOK
  PROVE  /\ parse_type => WithinFile
         /\ parse_decl => WithinFile
         /\ Params => WithinFile
         /\ VariadicParams => WithinFile
         /\ Body => WithinFile
<1>1. ASSUME parse_type PROVE WithinFile
  <2>1. InFile
    BY <1>1, Heads DEF parse_type
  <2>2. Head(todo) \in PlainItems
    BY <2>1 DEF InFile
  <2>3. QED
    BY <1>1, <2>1, <2>2, Steps, Lists, CallTypes, MatchTypes
    DEF parse_type, TypeKeyword, Faulty
<1>2. ASSUME parse_decl PROVE WithinFile
  <2>1. InFile
    BY <1>2, Heads DEF parse_decl
  <2>2. Head(todo) \in PlainItems
    BY <2>1 DEF InFile
  <2>3. QED
    BY <1>2, <2>1, <2>2, Steps, Lists, CallTypes, ExpectTypes, MatchTypes
    DEF parse_decl, Faulty
<1>3. ASSUME Params PROVE WithinFile
  <2>1. InFile
    BY <1>3, Heads DEF Params
  <2>2. QED
    BY <1>3, <2>1, Steps, Lists, CallTypes, MatchTypes DEF Params, Faulty
<1>4. ASSUME VariadicParams PROVE WithinFile
  <2>1. InFile
    BY <1>4, Heads DEF VariadicParams
  <2>2. QED
    BY <1>4, <2>1, Steps, Lists, CallTypes, MatchTypes DEF VariadicParams, Faulty
<1>5. ASSUME Body PROVE WithinFile
  <2>1. InFile
    BY <1>5, Heads DEF Body
  <2>2. QED
    BY <1>5, <2>1, Steps, Lists, CallTypes, ExpectTypes DEF Body
<1>6. QED
  BY <1>1, <1>2, <1>3, <1>4, <1>5

(* Statements (parser.c:781-1000).                                         *)
LEMMA StatementForms ==
  ASSUME TypeOK
  PROVE  /\ parse_stmt => WithinFile
         /\ parse_block => WithinFile
         /\ Statements => WithinFile
         /\ IfStmt => WithinFile
         /\ WhileStmt => WithinFile
         /\ DoWhileStmt => WithinFile
         /\ ForStmt => WithinFile
         /\ SwitchStmt => WithinFile
         /\ ReturnStmt => WithinFile
         /\ ThrowStmt => WithinFile
         /\ JumpStmt => WithinFile
         /\ TryStmt => WithinFile
         /\ AsmStmt => WithinFile
         /\ OtherStmt => WithinFile
<1>1. ASSUME parse_stmt PROVE WithinFile
  <2>1. InFile
    BY <1>1, Heads DEF parse_stmt
  <2>2. QED
    BY <1>1, <2>1, Steps, Lists, CallTypes, MatchTypes DEF parse_stmt
<1>2. ASSUME parse_block PROVE WithinFile
  <2>1. InFile
    BY <1>2, Heads DEF parse_block, AtStmt
  <2>2. QED
    BY <1>2, <2>1, Steps, Lists, CallTypes, ExpectTypes, MatchTypes DEF parse_block
<1>3. ASSUME Statements PROVE WithinFile
  <2>1. InFile
    BY <1>3, Heads DEF Statements
  <2>2. << Stmt, Head(todo) >> \in Seq(PlainItems)
    BY <2>1, Lists, CallTypes DEF InFile
  <2>3. QED
    BY <1>3, <2>1, <2>2, Steps, Lists DEF Statements
<1>4. ASSUME IfStmt PROVE WithinFile
  <2>1. InFile
    BY <1>4, Heads DEF IfStmt, AtStmt
  <2>2. << Stmt, Call("else") >> \in Seq(PlainItems) /\ << Stmt >> \in Seq(PlainItems)
    BY Lists, CallTypes
  <2>3. Parenthesised \o << Stmt, Call("else") >> \in Seq(PlainItems)
    BY <2>2, ParenthesisedType, ConcatProperties
  <2>4. QED
    BY <1>4, <2>1, <2>2, <2>3, Steps, Lists DEF IfStmt, AtStmt, Faulty
<1>5. ASSUME WhileStmt PROVE WithinFile
  <2>1. InFile
    BY <1>5, Heads DEF WhileStmt, AtStmt
  <2>2. << Stmt >> \in Seq(PlainItems)
    BY Lists, CallTypes
  <2>3. Parenthesised \o << Stmt >> \in Seq(PlainItems)
    BY <2>2, ParenthesisedType, ConcatProperties
  <2>4. QED
    BY <1>5, <2>1, <2>3, Steps DEF WhileStmt, AtStmt, Faulty
<1>6. ASSUME DoWhileStmt PROVE WithinFile
  <2>1. InFile
    BY <1>6, Heads DEF DoWhileStmt, AtStmt
  <2>2. << Stmt, Expect("while") >> \in Seq(PlainItems) /\ << Expect(";") >> \in Seq(PlainItems)
    BY Lists, CallTypes, ExpectTypes
  <2>3. << Stmt, Expect("while") >> \o Parenthesised \o << Expect(";") >> \in Seq(PlainItems)
    BY <2>2, ParenthesisedType, ConcatProperties
  <2>4. QED
    BY <1>6, <2>1, <2>3, Steps DEF DoWhileStmt, AtStmt, Faulty
<1>7. ASSUME ForStmt PROVE WithinFile
  <2>1. InFile
    BY <1>7, Heads DEF ForStmt, AtStmt
  <2>2. QED
    BY <1>7, <2>1, Steps, Lists, CallTypes, ExpectTypes DEF ForStmt, AtStmt, Faulty
<1>8. ASSUME SwitchStmt PROVE WithinFile
  <2>1. InFile
    BY <1>8, Heads DEF SwitchStmt, AtStmt
  <2>2. Head(todo) \in PlainItems
    BY <2>1 DEF InFile
  <2>3. << Expect("{"), Call("switch body"), Expect("}") >> \in Seq(PlainItems)
    BY Lists, CallTypes, ExpectTypes
  <2>4. Parenthesised \o << Expect("{"), Call("switch body"), Expect("}") >> \in Seq(PlainItems)
    BY <2>3, ParenthesisedType, ConcatProperties
  <2>5. QED
    BY <1>8, <2>1, <2>2, <2>4, Steps, Lists, CallTypes, ExpectTypes, MatchTypes
    DEF SwitchStmt, AtStmt, Faulty
<1>9. ASSUME ReturnStmt \/ ThrowStmt PROVE WithinFile
  <2>1. InFile
    BY <1>9, Heads DEF ReturnStmt, ThrowStmt, AtStmt
  <2>2. QED
    BY <1>9, <2>1, Steps, Lists, ExpectTypes DEF ReturnStmt, ThrowStmt, AtStmt, Faulty
<1>10. ASSUME JumpStmt PROVE WithinFile
  <2>1. InFile
    BY <1>10, Heads DEF JumpStmt, AtStmt
  <2>2. QED
    BY <1>10, <2>1, Steps, Lists, ExpectTypes DEF JumpStmt, AtStmt, Faulty
<1>11. ASSUME TryStmt PROVE WithinFile
  <2>1. InFile
    BY <1>11, Heads DEF TryStmt, AtStmt
  <2>2. QED
    BY <1>11, <2>1, Steps, Lists, CallTypes, ExpectTypes DEF TryStmt, AtStmt, Faulty
<1>12. ASSUME AsmStmt PROVE WithinFile
  <2>1. InFile
    BY <1>12, Heads DEF AsmStmt, AtStmt
  <2>2. QED
    BY <1>12, <2>1, Steps, Lists, CallTypes, ExpectTypes, MatchTypes
    DEF AsmStmt, AtStmt, Faulty
<1>13. ASSUME OtherStmt PROVE WithinFile
  <2>1. InFile
    BY <1>13, Heads DEF OtherStmt
  <2>2. QED
    BY <1>13, <2>1, Steps, Lists, CallTypes, ExpectTypes DEF OtherStmt, Faulty
<1>14. QED
  BY <1>1, <1>2, <1>3, <1>4, <1>5, <1>6, <1>7, <1>8, <1>9, <1>10, <1>11, <1>12, <1>13

(* Constructs at top level, but for files that are included                *)
(* (parser.c:1001-1004, 1110-1190).                                        *)
LEMMA Constructs ==
  ASSUME TypeOK
  PROVE  /\ ClassDecl => WithinFile
         /\ EnumDecl => WithinFile
         /\ Include /\ Peek # "string" => WithinFile
         /\ Define => WithinFile
         /\ Directive => WithinFile
         /\ OtherTopLevel => WithinFile
<1>1. ASSUME ClassDecl PROVE WithinFile
  <2>1. InFile
    BY <1>1, Heads DEF ClassDecl, AtTop
  <2>2. Head(todo) \in PlainItems
    BY <2>1 DEF InFile
  <2>3. QED
    BY <1>1, <2>1, <2>2, Steps, Lists, CallTypes, ExpectTypes, MatchTypes
    DEF ClassDecl, AtTop, Faulty
<1>2. ASSUME EnumDecl PROVE WithinFile
  <2>1. InFile
    BY <1>2, Heads DEF EnumDecl, AtTop
  <2>2. << Identifier, Call("initialiser"), Match({","}), Head(todo) >> \in Seq(PlainItems)
    BY <2>1, Lists, CallTypes, ExpectTypes, MatchTypes DEF InFile
  <2>3. QED
    BY <1>2, <2>1, <2>2, Steps, Lists, CallTypes, ExpectTypes, MatchTypes
    DEF EnumDecl, AtTop, Faulty
<1>3. ASSUME Include, Peek # "string" PROVE WithinFile
  <2>1. InFile
    BY <1>3, Heads DEF Include, AtTop
  <2>2. Go(1, << >>) /\ Current \notin Faulty
    BY <1>3 DEF Include, AtTop, Faulty
  <2>3. QED
    BY <2>1, <2>2, Steps, Lists
<1>4. ASSUME Define PROVE WithinFile
  <2>1. InFile
    BY <1>4, Heads DEF Define, AtTop
  <2>2. QED
    BY <1>4, <2>1, Steps, Lists, CallTypes, MatchTypes DEF Define, AtTop, Faulty
<1>5. ASSUME Directive PROVE WithinFile
  <2>1. InFile
    BY <1>5, Heads DEF Directive, AtTop
  <2>2. QED
    BY <1>5, <2>1, Steps, Lists DEF Directive, AtTop, Faulty
<1>6. ASSUME OtherTopLevel PROVE WithinFile
  <2>1. InFile
    BY <1>6, Heads DEF OtherTopLevel
  <2>2. QED
    BY <1>6, <2>1, Steps, Lists, CallTypes DEF OtherTopLevel
<1>7. QED
  BY <1>1, <1>2, <1>3, <1>4, <1>5, <1>6

-----------------------------------------------------------------------------
(***************************************************************************)
(* What is done to the items still to come.                                *)
(***************************************************************************)

(* Renumbering a set does not change its size.                             *)
LEMMA ShiftedSize ==
  ASSUME NEW S \in SUBSET Int, IsFiniteSet(S), NEW d \in Int
  PROVE  /\ IsFiniteSet({i + d : i \in S})
         /\ Cardinality({i + d : i \in S}) = Cardinality(S)
<1> DEFINE T == {i + d : i \in S}
           f == [i \in S |-> i + d]
<1>1. f \in [S -> T]
  OBVIOUS
<1>2. \A a, b \in S : f[a] = f[b] => a = b
  OBVIOUS
<1>3. \A t \in T : \E s \in S : f[s] = t
  OBVIOUS
<1>4. f \in Bijection(S, T)
  BY <1>1, <1>2, <1>3 DEF Bijection, Injection, Surjection, IsInjective
<1>5. ExistsBijection(S, T)
  BY <1>4 DEF ExistsBijection
<1>6. QED
  BY <1>5, FS_Bijection

(* Items in the place of the first one.                                    *)
LEMMA Replaced ==
  ASSUME todo \in Seq(Items), todo # << >>, NEW items \in Seq(Items),
         todo' = items \o Tail(todo)
  PROVE  /\ todo' \in Seq(Items)
         /\ Len(todo) \in Nat \ {0} /\ Len(items) \in Nat
         /\ Len(todo') = Len(items) + Len(todo) - 1
         /\ \A i \in 1 .. Len(items) : todo'[i] = items[i]
         /\ \A i \in 2 .. Len(todo) : todo'[Len(items) + i - 1] = todo[i]
         /\ DOMAIN todo = 1 .. Len(todo) /\ DOMAIN todo' = 1 .. Len(todo')
         /\ DOMAIN items = 1 .. Len(items)
         /\ Head(todo) = todo[1]
<1>1. /\ Len(todo) \in Nat \ {0}
      /\ Len(items) \in Nat
      /\ DOMAIN todo = 1 .. Len(todo)
      /\ DOMAIN items = 1 .. Len(items)
  BY LenProperties, EmptySeq
<1>2. /\ Tail(todo) \in Seq(Items)
      /\ Len(Tail(todo)) = Len(todo) - 1
      /\ \A i \in 1 .. Len(todo) - 1 : Tail(todo)[i] = todo[i + 1]
  BY HeadTailProperties
<1>3. /\ todo' \in Seq(Items)
      /\ Len(todo') = Len(items) + Len(Tail(todo))
      /\ \A i \in 1 .. Len(items) + Len(Tail(todo)) :
           todo'[i] = IF i <= Len(items) THEN items[i] ELSE Tail(todo)[i - Len(items)]
  BY <1>2, ConcatProperties
<1>4. DOMAIN todo' = 1 .. Len(todo')
  BY <1>3, LenProperties
<1>5. ASSUME NEW i \in 2 .. Len(todo)
      PROVE  todo'[Len(items) + i - 1] = todo[i]
  <2>1. /\ Len(items) + i - 1 \in 1 .. Len(items) + Len(Tail(todo))
        /\ ~(Len(items) + i - 1 <= Len(items))
        /\ Len(items) + i - 1 - Len(items) = i - 1
        /\ i - 1 \in 1 .. Len(todo) - 1 /\ i - 1 + 1 = i
    BY <1>1, <1>2
  <2>2. todo'[Len(items) + i - 1] = Tail(todo)[i - 1]
    BY <1>3, <2>1
  <2>3. QED
    BY <1>2, <2>1, <2>2
<1>6. QED
  BY <1>1, <1>2, <1>3, <1>4, <1>5

(* Files still end at their top-level loops after items that end none have *)
(* taken the place of one; of a top-level loop, if they end with one or    *)
(* the file is at its end.                                                 *)
LEMMA EndsKept ==
  ASSUME todo \in Seq(Items), todo # << >>, FilesEnd, NEW items \in Seq(Items),
         todo' = items \o Tail(todo),
         \A i \in 1 .. Len(items) : items[i].op # "resume",
         Head(todo).op = "unit" =>
           IF items = << >> THEN Current' = EOF ELSE items[Len(items)].op = "unit"
  PROVE  FilesEnd'
<1> DEFINE m == Len(items)
<1>1. /\ Len(todo) \in Nat \ {0} /\ m \in Nat
      /\ Len(todo') = m + Len(todo) - 1
      /\ \A i \in 1 .. m : todo'[i] = items[i]
      /\ \A i \in 2 .. Len(todo) : todo'[m + i - 1] = todo[i]
      /\ Head(todo) = todo[1]
  BY Replaced
<1>2. items = << >> <=> m = 0
  BY EmptySeq
<1> HIDE DEF m
<1> SUFFICES ASSUME NEW i \in 1 .. Len(todo') + 1, Ends(i)'
             PROVE  IF i = 1 THEN Current' = EOF ELSE todo'[i - 1].op = "unit"
  BY DEF FilesEnd
<1>3. i = Len(todo') + 1 \/ todo'[i].op = "resume"
  BY DEF Ends
<1>4. ~(i <= m)
  BY <1>1, <1>3 DEF m
<1> DEFINE j == i - m + 1
<1>5. j \in 2 .. Len(todo) + 1 /\ i = m + j - 1
  BY <1>1, <1>4
<1>6. Ends(j)
  <2>1. CASE i = Len(todo') + 1
    <3>1. j = Len(todo) + 1
      BY <1>1, <2>1
    <3>2. QED
      BY <3>1 DEF Ends
  <2>2. CASE i # Len(todo') + 1
    <3>1. j \in 2 .. Len(todo)
      BY <1>1, <1>5, <2>2
    <3>2. todo'[i] = todo[j]
      BY <1>1, <1>5, <3>1
    <3>3. QED
      BY <1>3, <2>2, <3>2 DEF Ends
  <2>3. QED
    BY <2>1, <2>2
<1>7. todo[j - 1].op = "unit"
  BY <1>1, <1>5, <1>6 DEF FilesEnd
<1>8. CASE j = 2
  <2>1. Head(todo).op = "unit" /\ i = m + 1
    BY <1>1, <1>5, <1>7, <1>8
  <2>2. CASE m = 0
    BY <1>2, <2>1, <2>2
  <2>3. CASE m # 0
    <3>1. m \in 1 .. m /\ i # 1 /\ i - 1 = m
      BY <1>1, <2>1, <2>3
    <3>2. todo'[m] = items[m] /\ items[m].op = "unit"
      BY <1>1, <1>2, <2>1, <2>3, <3>1 DEF m
    <3>3. QED
      BY <3>1, <3>2
  <2>4. QED
    BY <2>2, <2>3
<1>9. CASE j # 2
  <2>1. j - 1 \in 2 .. Len(todo) /\ i - 1 = m + (j - 1) - 1 /\ i # 1
    BY <1>1, <1>5, <1>9
  <2>2. todo'[i - 1] = todo[j - 1]
    BY <1>1, <2>1
  <2>3. QED
    BY <1>7, <2>1, <2>2
<1>10. QED
  BY <1>8, <1>9

(* The files to go on with are those to go on with after the first item.   *)
LEMMA ResumesAfter ==
  ASSUME todo \in Seq(Items), todo # << >>, NEW items \in Seq(Items),
         todo' = items \o Tail(todo)
  PROVE  /\ IsFiniteSet(Resumes(items)) /\ IsFiniteSet(Resumes(todo))
         /\ \E after : /\ IsFiniteSet(after)
                       /\ Cardinality(after) = Cardinality(Resumes(todo) \ {1})
                       /\ Resumes(todo') = Resumes(items) \cup after
                       /\ \A i \in after : i > Len(items)
<1> DEFINE m == Len(items)
           rest  == Resumes(todo) \ {1}
           after == {i + (m - 1) : i \in rest}
<1>1. /\ Len(todo) \in Nat \ {0} /\ m \in Nat
      /\ Len(todo') = m + Len(todo) - 1
      /\ \A i \in 1 .. m : todo'[i] = items[i]
      /\ \A i \in 2 .. Len(todo) : todo'[m + i - 1] = todo[i]
      /\ DOMAIN todo = 1 .. Len(todo) /\ DOMAIN todo' = 1 .. Len(todo')
      /\ DOMAIN items = 1 .. m
  BY Replaced
<1>2. IsFiniteSet(Resumes(items)) /\ IsFiniteSet(Resumes(todo))
  <2>1. Resumes(items) \in SUBSET (1 .. m) /\ Resumes(todo) \in SUBSET (1 .. Len(todo))
    BY <1>1 DEF Resumes
  <2>2. IsFiniteSet(1 .. m) /\ IsFiniteSet(1 .. Len(todo))
    BY <1>1, FS_Interval
  <2>3. QED
    BY <2>1, <2>2, FS_Subset
<1>3. rest \in SUBSET (2 .. Len(todo)) /\ IsFiniteSet(rest)
  <2>1. IsFiniteSet(rest)
    BY <1>2, FS_RemoveElement
  <2>2. QED
    BY <1>1, <2>1 DEF Resumes
<1> HIDE DEF m, rest
<1>4. IsFiniteSet(after) /\ Cardinality(after) = Cardinality(rest)
  <2>1. m - 1 \in Int /\ rest \in SUBSET Int
    BY <1>1, <1>3
  <2>2. QED
    BY <1>3, <2>1, ShiftedSize
<1>5. ASSUME NEW i \in 1 .. m
      PROVE  i \in Resumes(todo') <=> i \in Resumes(items)
  BY <1>1 DEF Resumes
<1>6. ASSUME NEW i \in m + 1 .. Len(todo')
      PROVE  i \in Resumes(todo') <=> i \in after
  <2> DEFINE j == i - (m - 1)
  <2>1. j \in 2 .. Len(todo) /\ i = m + j - 1 /\ i = j + (m - 1)
    BY <1>1
  <2>2. todo'[i] = todo[j]
    BY <1>1, <2>1
  <2>3. i \in Resumes(todo') <=> j \in rest
    BY <1>1, <2>1, <2>2 DEF Resumes, rest
  <2>4. i \in after <=> j \in rest
    BY <1>1, <1>3, <2>1
  <2>5. QED
    BY <2>3, <2>4
<1>7. /\ after \subseteq m + 1 .. Len(todo')
      /\ Resumes(items) \subseteq 1 .. m
      /\ Resumes(todo') \subseteq 1 .. Len(todo')
  BY <1>1, <1>3 DEF Resumes
<1> HIDE DEF after
<1>8. Resumes(todo') = Resumes(items) \cup after
  <2>1. \A i \in 1 .. Len(todo') : i \in 1 .. m \/ i \in m + 1 .. Len(todo')
    BY <1>1
  <2>2. \A i \in 1 .. m : i \notin after
    BY <1>1, <1>7
  <2>3. \A i \in m + 1 .. Len(todo') : i \notin Resumes(items)
    BY <1>1, <1>7
  <2>4. 1 .. m \subseteq 1 .. Len(todo') /\ m + 1 .. Len(todo') \subseteq 1 .. Len(todo')
    BY <1>1
  <2>5. QED
    BY <1>5, <1>6, <1>7, <2>1, <2>2, <2>3, <2>4
<1>9. \A i \in after : i > m
  BY <1>1, <1>7
<1>10. QED
  BY <1>2, <1>4, <1>8, <1>9 DEF m, rest

-----------------------------------------------------------------------------
(***************************************************************************)
(* The steps keep the invariant.                                           *)
(***************************************************************************)
Parsers == [text : Text, pos : Nat]

(* The parts of the type invariant, for use below.                         *)
LEMMA Types ==
  ASSUME TypeOK
  PROVE  /\ text \in Seq(Tokens) /\ Len(text) \in Nat /\ DOMAIN text = 1 .. Len(text)
         /\ pos \in Nat \ {0} /\ pos <= Len(text) + 1
         /\ todo \in Seq(Items)
         /\ suspended \in Seq(Parsers) /\ Len(suspended) \in Nat
         /\ DOMAIN suspended = 1 .. Len(suspended)
         /\ \A n \in DOMAIN suspended : suspended[n].pos \in 1 .. Len(suspended[n].text) + 1
         /\ had_error \in BOOLEAN
         /\ parsed \subseteq Text
<1>1. /\ text \in Seq(Tokens) /\ suspended \in Seq(Parsers) /\ todo \in Seq(Items)
  BY DEF TypeOK, Text, Parsers, Items, Awaited
<1>2. /\ Len(text) \in Nat /\ DOMAIN text = 1 .. Len(text)
      /\ Len(suspended) \in Nat /\ DOMAIN suspended = 1 .. Len(suspended)
  BY <1>1, LenProperties
<1>3. QED
  BY <1>1, <1>2 DEF TypeOK

(* Advancing stays in the text and looks at no file but this one.          *)
LEMMA PutMoves ==
  ASSUME TypeOK, NEW n \in 0 .. 2, NEW items, Put(n, items)
  PROVE  /\ text' = text /\ suspended' = suspended
         /\ pos' \in 1 .. Len(text) + 1
         /\ pos' <= pos + n
         /\ todo' = items \o Tail(todo)
BY Types DEF Put

(* What has been passed over is still clean if the next tokens are.        *)
LEMMA CleanFurther ==
  ASSUME TypeOK, Clean(text, pos), NEW n \in 0 .. 2, NextAreClean(n),
         NEW further \in 1 .. Len(text) + 1, further <= pos + n
  PROVE  Clean(text, further)
<1>1. pos \in Int /\ Len(text) \in Int /\ further \in Int /\ further <= Len(text) + 1
  BY Types
<1> SUFFICES ASSUME NEW j \in 1 .. further - 1
             PROVE  text[j] \notin Faulty
  BY DEF Clean
<1>2. CASE j < pos
  BY <1>1, <1>2 DEF Clean
<1>3. CASE j >= pos
  <2>1. /\ j - pos \in 0 .. n - 1
        /\ pos + (j - pos) = j
        /\ j <= Len(text)
    BY <1>1, <1>3
  <2>2. TokenAt(j) \notin Faulty
    BY <2>1 DEF NextAreClean
  <2>3. QED
    BY <2>1, <2>2 DEF TokenAt
<1>4. QED
  BY <1>1, <1>2, <1>3

(* A step in one file accounts for its tokens.                             *)
LEMMA AccountedKept ==
  ASSUME Accounted, text' = text, suspended' = suspended, parsed' = parsed,
         \/ had_error' = TRUE
         \/ had_error' = had_error /\ (Clean(text, pos) => Clean(text', pos'))
  PROVE  Accounted'
BY DEF Accounted, Clean

(* At the end no token is left.                                            *)
LEMMA AtTheEnd ==
  ASSUME TypeOK
  PROVE  Current = EOF <=> pos = Len(text) + 1
<1>1. CASE pos <= Len(text)
  <2>1. Current = text[pos] /\ text[pos] \in Tokens
    BY <1>1, Types, ElementOfSeq DEF Current, TokenAt
  <2>2. QED
    BY <1>1, <2>1, Types, TokenTypes
<1>2. CASE pos > Len(text)
  BY <1>2, Types DEF Current, TokenAt
<1>3. QED
  BY <1>1, <1>2, Types

(* Handlers that stay within a file.                                       *)
LEMMA WithinFileKeeps ==
  ASSUME ParserInv, WithinFile
  PROVE  ParserInv'
<1>1. TypeOK /\ Accounted /\ InFile
  BY DEF ParserInv, WithinFile
<1>2. PICK n \in 0 .. 2 : \E items \in Seq(PlainItems) : Proceeds(n, items)
  BY DEF WithinFile
<1>3. PICK items \in Seq(PlainItems) : Proceeds(n, items)
  BY <1>2
<1>4. /\ text' = text /\ suspended' = suspended /\ parsed' = parsed
      /\ pos' \in 1 .. Len(text) + 1 /\ pos' <= pos + n
      /\ todo' = items \o Tail(todo)
      /\ had_error' \in BOOLEAN
  BY <1>1, <1>3, PutMoves, Types DEF Proceeds
<1>5. /\ items \in Seq(Items) /\ Len(items) \in Nat
      /\ \A i \in 1 .. Len(items) : items[i].op # "resume"
  <2>1. PlainItems \subseteq Items
    BY DEF PlainItems, Items, PlainOps
  <2>2. \A i \in 1 .. Len(items) : items[i] \in PlainItems
    BY ElementOfSeq
  <2>3. QED
    BY <2>1, <2>2, SeqMonotonic, LenProperties DEF PlainItems, PlainOps
<1>6. todo \in Seq(Items) /\ todo # << >>
  BY <1>1, Types DEF InFile
<1>7. /\ Head(todo) = todo[1] /\ todo' \in Seq(Items)
      /\ DOMAIN items = 1 .. Len(items)
  BY <1>4, <1>5, <1>6, Replaced
<1>8. Head(todo).op \notin {"unit", "resume", "crashed"}
  BY <1>1 DEF InFile, PlainOps
<1>9. TypeOK'
  BY <1>1, <1>4, <1>7 DEF TypeOK, Items, Awaited
<1>10. FilesEnd /\ Matched
  <2>1. ~Crashed
    BY <1>8 DEF Crashed, Call, Item
  <2>2. QED
    BY <2>1 DEF ParserInv
<1>11. FilesEnd'
  BY <1>4, <1>5, <1>6, <1>8, <1>10, EndsKept
<1>12. Matched'
  <2>1. Resumes(items) = {} /\ 1 \notin Resumes(todo)
    BY <1>5, <1>7, <1>8 DEF Resumes
  <2>2. PICK after : /\ Cardinality(after) = Cardinality(Resumes(todo) \ {1})
                     /\ Resumes(todo') = Resumes(items) \cup after
    BY <1>4, <1>5, <1>6, ResumesAfter
  <2>3. Resumes(todo)' = after /\ Resumes(todo) \ {1} = Resumes(todo)
    BY <2>1, <2>2 DEF Resumes
  <2>4. QED
    BY <1>4, <1>10, <2>2, <2>3 DEF Matched
<1>13. Accounted'
  <2>1. \/ had_error' = TRUE
        \/ had_error' = had_error /\ NextAreClean(n)
    BY <1>3 DEF Proceeds
  <2>2. \/ had_error' = TRUE
        \/ had_error' = had_error /\ (Clean(text, pos) => Clean(text', pos'))
    BY <1>1, <1>4, <2>1, CleanFurther
  <2>3. QED
    BY <1>1, <1>4, <2>2, AccountedKept
<1>14. QED
  BY <1>9, <1>11, <1>12, <1>13 DEF ParserInv

(* The top-level loop of a file (parser.c:49-60).                          *)
LEMMA UnitKeeps ==
  ASSUME ParserInv, parse_translation_unit
  PROVE  ParserInv'
<1>1. TypeOK /\ Accounted /\ todo \in Seq(Items) /\ todo # << >> /\ Head(todo).op = "unit"
  BY Types DEF ParserInv, parse_translation_unit, At
<1>2. Head(todo) \in Items
  BY <1>1, HeadTailProperties
<1> DEFINE items == IF Current = EOF THEN << >> ELSE << Call("top level"), Head(todo) >>
<1>3. Put(0, items) /\ had_error' = had_error /\ parsed' = parsed
  BY DEF parse_translation_unit, Go
<1>4. Call("top level") \in Items /\ Call("top level").op = "top level"
  BY DEF Call, Item, Items, Ops, Awaited
<1>5. /\ items \in Seq(Items) /\ Len(items) \in Nat
      /\ \A i \in 1 .. Len(items) : items[i].op # "resume"
      /\ Current = EOF => items = << >>
      /\ Current # EOF => items # << >> /\ items[Len(items)].op = "unit"
  <2>1. CASE Current = EOF
    BY <2>1, EmptySeq
  <2>2. CASE Current # EOF
    <3>1. items = << Call("top level"), Head(todo) >>
      BY <2>2
    <3>2. items \in Seq(Items) /\ Len(items) = 2
      <4>1. \A a, b \in Items : << a, b >> \in Seq(Items) /\ Len(<< a, b >>) = 2
        OBVIOUS
      <4>2. QED
        BY <1>2, <1>4, <3>1, <4>1
    <3>3. /\ items[1].op = "top level" /\ items[2].op = "unit"
          /\ items # << >>
      BY <1>1, <1>4, <3>1
    <3> HIDE DEF items
    <3>4. \A i \in 1 .. Len(items) : i = 1 \/ i = 2
      BY <3>2
    <3>5. \A i \in 1 .. Len(items) : items[i].op # "resume"
      BY <3>3, <3>4
    <3>6. items[Len(items)].op = "unit" /\ Len(items) \in Nat
      <4>1. Len(items) = 2
        BY <3>2
      <4>2. items[Len(items)] = items[2]
        BY <4>1
      <4>3. items[Len(items)].op = "unit"
        BY <3>3, <4>2, Zenon
      <4>4. Len(items) \in Nat
        BY <4>1
      <4>5. QED
        BY <4>3, <4>4
    <3>7. QED
      BY <2>2, <3>2, <3>3, <3>5, <3>6, Zenon
  <2>3. QED
    BY <2>1, <2>2
<1> HIDE DEF items
<1>6. /\ text' = text /\ suspended' = suspended
      /\ pos' \in 1 .. Len(text) + 1 /\ pos' <= pos + 0
      /\ todo' = items \o Tail(todo)
  BY <1>1, <1>3, PutMoves
<1>7. Head(todo) = todo[1] /\ todo' \in Seq(Items) /\ DOMAIN items = 1 .. Len(items)
  BY <1>1, <1>5, <1>6, Replaced
<1>8. TypeOK'
  BY <1>1, <1>3, <1>6, <1>7 DEF TypeOK, Items, Awaited
<1>9. FilesEnd /\ Matched
  BY <1>1 DEF ParserInv, Crashed, Call, Item
<1>10. FilesEnd'
  <2>1. Current = EOF => Current' = EOF
    <3>1. Current = EOF => pos' = pos
      BY <1>1, <1>3, Types, AtTheEnd DEF Put
    <3>2. QED
      BY <1>6, <3>1 DEF Current, TokenAt
  <2>2. QED
    BY <1>1, <1>5, <1>6, <1>9, <2>1, EndsKept
<1>11. Matched'
  <2>1. Resumes(items) = {} /\ 1 \notin Resumes(todo)
    BY <1>1, <1>5, <1>7 DEF Resumes
  <2>2. PICK after : /\ Cardinality(after) = Cardinality(Resumes(todo) \ {1})
                     /\ Resumes(todo') = Resumes(items) \cup after
    BY <1>1, <1>5, <1>6, ResumesAfter
  <2>3. Resumes(todo)' = after /\ Resumes(todo) \ {1} = Resumes(todo)
    BY <2>1, <2>2 DEF Resumes
  <2>4. QED
    BY <1>6, <1>9, <2>2, <2>3 DEF Matched
<1>12. Accounted'
  <2>1. Clean(text, pos) => Clean(text', pos')
    <3>1. NextAreClean(0)
      BY DEF NextAreClean
    <3>2. QED
      BY <1>1, <1>6, <3>1, CleanFurther
  <2>2. QED
    BY <1>1, <1>3, <1>6, <2>1, AccountedKept
<1>13. QED
  BY <1>8, <1>10, <1>11, <1>12 DEF ParserInv

(* The parser of an included file returns to that of the including one,    *)
(* which is there: it has suspended itself.                                *)
LEMMA ResumeKeeps ==
  ASSUME ParserInv, Resume
  PROVE  ParserInv'
<1> DEFINE last  == Len(suspended)
           outer == suspended[last]
<1>1. TypeOK /\ Accounted /\ todo \in Seq(Items) /\ todo # << >> /\ Head(todo).op = "resume"
  BY Types DEF ParserInv, Resume, At
<1>2. FilesEnd /\ Matched
  BY <1>1 DEF ParserInv, Crashed, Call, Item
<1>3. /\ << >> \in Seq(Items) /\ Len(<< >>) = 0
      /\ todo' = << >> \o Tail(todo)
  <2>1. Tail(todo) \in Seq(Items)
    BY <1>1, HeadTailProperties
  <2>2. todo' = Tail(todo)
    BY DEF Resume
  <2>3. QED
    BY <2>1, <2>2, EmptySeq, ConcatEmptySeq
<1>4. /\ Head(todo) = todo[1] /\ todo' \in Seq(Items) /\ Len(todo) \in Nat \ {0}
      /\ DOMAIN todo = 1 .. Len(todo)
  BY <1>1, <1>3, Replaced
<1>5. 1 \in Resumes(todo)
  BY <1>1, <1>4 DEF Resumes
<1>6. PICK after : /\ IsFiniteSet(Resumes(todo))
                   /\ Cardinality(after) = Cardinality(Resumes(todo) \ {1})
                   /\ Resumes(todo') = Resumes(<< >>) \cup after
  BY <1>1, <1>3, ResumesAfter
<1>7. Cardinality(after) = last - 1 /\ Resumes(todo') = after
  <2>1. Resumes(<< >>) = {}
    BY DEF Resumes
  <2>2. QED
    BY <1>2, <1>5, <1>6, <2>1, FS_RemoveElement DEF Matched
<1>8. last \in Nat \ {0}
  <2>1. last \in Nat
    BY <1>1, Types
  <2>2. Cardinality(Resumes(todo)) # 0
    BY <1>5, <1>6, FS_EmptySet
  <2>3. QED
    BY <1>2, <2>1, <2>2 DEF Matched
<1>9. /\ suspended \in Seq(Parsers) /\ DOMAIN suspended = 1 .. last
      /\ last \in DOMAIN suspended
      /\ outer \in Parsers /\ outer.pos \in 1 .. Len(outer.text) + 1
  BY <1>1, <1>8, Types, ElementOfSeq
<1>10. /\ suspended' \in Seq(Parsers) /\ Len(suspended') = last - 1
       /\ DOMAIN suspended' = 1 .. last - 1
       /\ \A n \in 1 .. last - 1 : suspended'[n] = suspended[n]
  <2>1. suspended' = SubSeq(suspended, 1, last - 1)
    BY DEF Resume
  <2>2. \A n \in 1 .. last - 1 : suspended[n] \in Parsers
    BY <1>8, <1>9, ElementOfSeq
  <2>3. /\ suspended' \in Seq(Parsers) /\ Len(suspended') = last - 1
        /\ \A n \in 1 .. last - 1 : suspended'[n] = suspended[n]
    <3>1. 1 \in Int /\ last - 1 \in Int
      BY <1>8
    <3>2. \A n \in 1 .. last - 1 : n \in 1 .. last - 1 - 1 + 1 /\ 1 + n - 1 = n
      BY <1>8
    <3>3. (IF 1 <= last - 1 THEN last - 1 - 1 + 1 ELSE 0) = last - 1
      <4> HIDE DEF last
      <4>1. QED
        BY <1>8
    <3>4. /\ SubSeq(suspended, 1, last - 1) \in Seq(Parsers)
          /\ Len(SubSeq(suspended, 1, last - 1)) =
               IF 1 <= last - 1 THEN last - 1 - 1 + 1 ELSE 0
          /\ \A n \in 1 .. last - 1 - 1 + 1 :
               SubSeq(suspended, 1, last - 1)[n] = suspended[1 + n - 1]
      BY <2>2, <3>1, SubSeqProperties
    <3>5. QED
      BY <2>1, <3>2, <3>3, <3>4
  <2>4. QED
    BY <2>3, LenProperties
<1>11. /\ text' = outer.text /\ pos' = outer.pos
       /\ had_error' = had_error /\ parsed' = parsed
  BY DEF Resume
<1> HIDE DEF last, outer
<1>12. TypeOK'
  <2>1. text' \in Text /\ pos' \in 1 .. Len(text') + 1
    BY <1>9, <1>11 DEF Parsers
  <2>2. \A n \in DOMAIN suspended' : suspended'[n].pos \in 1 .. Len(suspended'[n].text) + 1
    <3>1. \A n \in 1 .. last - 1 : n \in DOMAIN suspended
      BY <1>8, <1>9
    <3>2. QED
      BY <1>1, <1>10, <3>1, Types
  <2>3. QED
    BY <1>1, <1>4, <1>10, <1>11, <2>1, <2>2 DEF TypeOK, Items, Awaited, Parsers
<1>13. FilesEnd'
  <2>1. \A i \in 1 .. Len(<< >>) : << >>[i].op # "resume"
    BY <1>3
  <2>2. Head(todo).op # "unit"
    BY <1>1
  <2>3. QED
    BY <1>1, <1>2, <1>3, <2>1, <2>2, EndsKept
<1>14. Matched'
  <2>1. Resumes(todo)' = Resumes(todo')
    BY DEF Resumes
  <2>2. QED
    BY <1>7, <1>10, <2>1 DEF Matched
<1>15. Accounted'
  <2>1. CASE had_error
    BY <1>11, <2>1 DEF Accounted
  <2>2. CASE ~had_error
    <3>1. /\ Clean(text, pos)
          /\ \A n \in DOMAIN suspended : Clean(suspended[n].text, suspended[n].pos)
          /\ \A file \in parsed :
               \/ file = text
               \/ \E n \in DOMAIN suspended : file = suspended[n].text
               \/ Clean(file, Len(file) + 1)
      BY <1>1, <2>2 DEF Accounted
    <3>2. Current = EOF
      BY <1>1, <1>2, <1>4 DEF FilesEnd, Ends
    <3>3. Clean(text, Len(text) + 1)
      BY <1>1, <3>1, <3>2, AtTheEnd
    <3>4. Clean(text', pos')
      BY <1>9, <1>11, <3>1 DEF outer
    <3>5. \A n \in DOMAIN suspended' : Clean(suspended'[n].text, suspended'[n].pos)
      BY <1>8, <1>9, <1>10, <3>1
    <3>6. ASSUME NEW file \in parsed
          PROVE  \/ file = text'
                 \/ \E n \in DOMAIN suspended' : file = suspended'[n].text
                 \/ Clean(file, Len(file) + 1)
      <4>1. CASE file = text
        BY <3>3, <4>1
      <4>2. ASSUME NEW n \in DOMAIN suspended, file = suspended[n].text
            PROVE  file = text' \/ \E k \in DOMAIN suspended' : file = suspended'[k].text
        <5>1. n = last \/ n \in 1 .. last - 1
          BY <1>8, <1>9
        <5>2. QED
          BY <1>10, <1>11, <4>2, <5>1 DEF outer
      <4>3. QED
        BY <3>1, <4>1, <4>2
    <3>7. QED
      BY <1>11, <3>4, <3>5, <3>6 DEF Accounted, Clean
  <2>3. QED
    BY <2>1, <2>2
<1>16. QED
  BY <1>12, <1>13, <1>14, <1>15 DEF ParserInv

(* #include and #import suspend a parser, just behind the file's name, for *)
(* that of the file, or report that there is none.                         *)
LEMMA IncludeKeeps ==
  ASSUME ParserInv, Include
  PROVE  ParserInv'
<1>1. /\ TypeOK /\ Accounted /\ todo \in Seq(Items) /\ todo # << >>
      /\ Head(todo).op \notin {"unit", "resume", "crashed"}
  BY Types DEF ParserInv, Include, AtTop, At
<1>2. CASE Peek # "string"
  BY <1>1, <1>2, Constructs, WithinFileKeeps
<1>3. CASE Peek = "string"
  <2>1. PICK file :
          /\ file \in Included[Len(suspended) + 1]
          /\ Len(suspended) < Len(Included)
          /\ parsed' = parsed \cup {file}
          /\ IF file = Unreadable
             THEN Put(2, << >>) /\ had_error' = TRUE
             ELSE /\ suspended' = Append(suspended, [text |-> text, pos |-> pos + 2])
                  /\ text' = file
                  /\ pos' = 1
                  /\ todo' = << Call("unit"), Call("resume") >> \o Tail(todo)
                  /\ had_error' = had_error
    BY <1>3 DEF Include
  <2>2. file \in Text
    <3>1. Included \in Seq(SUBSET Text)
      BY TextsAssumption
    <3>2. Len(suspended) + 1 \in 1 .. Len(Included)
      BY <1>1, <2>1, <3>1, Types, LenProperties
    <3>3. Included[Len(suspended) + 1] \in SUBSET Text
      BY <3>1, <3>2, ElementOfSeq
    <3>4. QED
      BY <2>1, <3>3
  <2>3. FilesEnd /\ Matched
    BY <1>1 DEF ParserInv, Crashed, Call, Item
  <2>4. parsed' \subseteq Text
    BY <1>1, <2>1, <2>2, Types
  <2>5. CASE file = Unreadable
    <3>1. /\ text' = text /\ suspended' = suspended
          /\ pos' \in 1 .. Len(text) + 1
          /\ todo' = << >> \o Tail(todo)
      <4>1. Put(2, << >>) /\ 2 \in 0 .. 2
        BY <2>1, <2>5
      <4>2. QED
        BY <1>1, <4>1, PutMoves
    <3>2. /\ << >> \in Seq(Items) /\ Len(<< >>) = 0
          /\ \A i \in 1 .. Len(<< >>) : << >>[i].op # "resume"
      BY EmptySeq
    <3>3. /\ Head(todo) = todo[1] /\ todo' \in Seq(Items)
      BY <1>1, <3>1, <3>2, Replaced
    <3>4. TypeOK'
      BY <1>1, <2>1, <2>4, <2>5, <3>1, <3>3 DEF TypeOK, Items, Awaited
    <3>5. FilesEnd'
      BY <1>1, <2>3, <3>1, <3>2, EndsKept
    <3>6. Matched'
      <4>1. Resumes(<< >>) = {} /\ 1 \notin Resumes(todo)
        BY <1>1, <3>3 DEF Resumes
      <4>2. PICK after : /\ Cardinality(after) = Cardinality(Resumes(todo) \ {1})
                         /\ Resumes(todo') = Resumes(<< >>) \cup after
        BY <1>1, <3>1, <3>2, ResumesAfter
      <4>3. Resumes(todo)' = after /\ Resumes(todo) \ {1} = Resumes(todo)
        BY <4>1, <4>2 DEF Resumes
      <4>4. QED
        BY <2>3, <3>1, <4>2, <4>3 DEF Matched
    <3>7. Accounted'
      BY <2>1, <2>5 DEF Accounted
    <3>8. QED
      BY <3>4, <3>5, <3>6, <3>7 DEF ParserInv
  <2>6. CASE file # Unreadable
    <3> DEFINE outer == [text |-> text, pos |-> pos + 2]
               items == << Call("unit"), Call("resume") >>
    <3>1. /\ suspended' = Append(suspended, outer)
          /\ text' = file /\ pos' = 1
          /\ todo' = items \o Tail(todo)
          /\ had_error' = had_error
      BY <2>1, <2>6
    <3>2. /\ Call("unit") \in Items /\ Call("resume") \in Items
          /\ Call("unit").op = "unit" /\ Call("resume").op = "resume"
      BY DEF Call, Item, Items, Ops, Awaited
    <3>3. /\ items \in Seq(Items) /\ Len(items) = 2
          /\ items[1].op = "unit" /\ items[2].op = "resume"
      <4>1. \A a, b \in Items : << a, b >> \in Seq(Items) /\ Len(<< a, b >>) = 2
        OBVIOUS
      <4>2. QED
        BY <3>2, <4>1
    <3>4. outer \in Parsers /\ outer.pos \in 1 .. Len(outer.text) + 1
      <4>1. pos + 1 <= Len(text)
        BY <1>1, <1>3, Types DEF Peek, TokenAt, EOF
      <4>2. pos + 2 \in 1 .. Len(text) + 1 /\ text \in Text
        BY <1>1, <4>1, Types DEF Text
      <4>3. QED
        BY <4>2 DEF Parsers
    <3>5. Clean(text, pos) => Clean(outer.text, outer.pos)
      <4>1. NextAreClean(2)
        <5>1. TokenAt(pos + 0) = Current /\ TokenAt(pos + 1) = Peek
          BY <1>1, Types DEF Current, Peek
        <5>2. \A i \in 0 .. 2 - 1 : i = 0 \/ i = 1
          OBVIOUS
        <5>3. QED
          BY <1>3, <5>1, <5>2 DEF Include, AtTop, NextAreClean, Faulty
      <4>2. outer.pos \in 1 .. Len(text) + 1 /\ outer.pos <= pos + 2 /\ outer.text = text
        BY <1>1, <3>4, Types
      <4>3. QED
        BY <1>1, <4>1, <4>2, CleanFurther
    <3> HIDE DEF outer, items
    <3>6. /\ suspended' \in Seq(Parsers) /\ Len(suspended') = Len(suspended) + 1
          /\ \A n \in 1 .. Len(suspended) : suspended'[n] = suspended[n]
          /\ suspended'[Len(suspended) + 1] = outer
          /\ DOMAIN suspended' = 1 .. Len(suspended) + 1
          /\ DOMAIN suspended = 1 .. Len(suspended) /\ Len(suspended) \in Nat
      <4>1. suspended \in Seq(Parsers) /\ outer \in Parsers
        BY <1>1, <3>4, Types
      <4>2. /\ suspended' \in Seq(Parsers) /\ Len(suspended') = Len(suspended) + 1
            /\ \A n \in 1 .. Len(suspended) : suspended'[n] = suspended[n]
            /\ suspended'[Len(suspended) + 1] = outer
        BY <3>1, <4>1, AppendProperties
      <4>3. QED
        BY <4>1, <4>2, LenProperties
    <3>7. /\ Len(todo) \in Nat \ {0} /\ todo' \in Seq(Items)
          /\ Len(todo') = Len(todo) + 1
          /\ todo'[1].op = "unit" /\ todo'[2].op = "resume"
          /\ \A i \in 2 .. Len(todo) : todo'[i + 1] = todo[i]
          /\ Head(todo) = todo[1] /\ DOMAIN items = 1 .. 2
      <4>1. /\ Len(todo) \in Nat \ {0} /\ todo' \in Seq(Items)
            /\ Len(todo') = Len(items) + Len(todo) - 1
            /\ \A i \in 1 .. Len(items) : todo'[i] = items[i]
            /\ \A i \in 2 .. Len(todo) : todo'[Len(items) + i - 1] = todo[i]
            /\ Head(todo) = todo[1] /\ DOMAIN items = 1 .. Len(items)
        BY <1>1, <3>1, <3>3, Replaced
      <4>2. 1 \in 1 .. Len(items) /\ 2 \in 1 .. Len(items)
        BY <3>3
      <4>3. \A i \in 2 .. Len(todo) : Len(items) + i - 1 = i + 1
        BY <3>3, <4>1
      <4>4. QED
        BY <3>3, <4>1, <4>2, <4>3
    <3>8. TypeOK'
      <4>1. \A n \in DOMAIN suspended' :
              suspended'[n].pos \in 1 .. Len(suspended'[n].text) + 1
        <5>1. \A n \in DOMAIN suspended :
                suspended[n].pos \in 1 .. Len(suspended[n].text) + 1
          BY <1>1, Types
        <5>2. \A n \in DOMAIN suspended' :
                \/ n \in DOMAIN suspended /\ suspended'[n] = suspended[n]
                \/ suspended'[n] = outer
          BY <3>6
        <5>3. QED
          BY <3>4, <5>1, <5>2
      <4>2. pos' \in 1 .. Len(text') + 1
        BY <2>2, <3>1, LenProperties DEF Text
      <4>3. QED
        BY <1>1, <2>2, <2>4, <3>1, <3>6, <3>7, <4>1, <4>2
        DEF TypeOK, Items, Awaited, Parsers
    <3>9. FilesEnd'
      <4> SUFFICES ASSUME NEW i \in 1 .. Len(todo') + 1, Ends(i)'
                   PROVE  IF i = 1 THEN Current' = EOF ELSE todo'[i - 1].op = "unit"
        BY DEF FilesEnd
      <4>1. i = Len(todo') + 1 \/ todo'[i].op = "resume"
        BY DEF Ends
      <4>2. i # 1
        BY <3>7, <4>1
      <4>3. CASE i = 2
        BY <3>7, <4>3
      <4>4. CASE i > 2
        <5>1. i - 1 \in 2 .. Len(todo) + 1
          BY <3>7, <4>4
        <5>2. Ends(i - 1)
          <6>1. CASE i = Len(todo') + 1
            BY <3>7, <6>1 DEF Ends
          <6>2. CASE i # Len(todo') + 1
            <7>1. i - 1 \in 2 .. Len(todo) /\ (i - 1) + 1 = i
              BY <3>7, <4>4, <6>2
            <7>2. todo'[i] = todo[i - 1]
              BY <3>7, <7>1
            <7>3. QED
              BY <4>1, <6>2, <7>2 DEF Ends
          <6>3. QED
            BY <6>1, <6>2
        <5>3. todo[(i - 1) - 1].op = "unit"
          BY <2>3, <3>7, <5>1, <5>2 DEF FilesEnd
        <5>4. i - 1 # 2
          BY <1>1, <3>7, <5>3
        <5>5. i - 2 \in 2 .. Len(todo) /\ (i - 2) + 1 = i - 1 /\ (i - 1) - 1 = i - 2
          BY <3>7, <4>4, <5>1, <5>4
        <5>6. todo'[i - 1] = todo[i - 2]
          BY <3>7, <5>5
        <5>7. QED
          BY <4>2, <5>3, <5>5, <5>6
      <4>5. QED
        BY <3>7, <4>2, <4>3, <4>4
    <3>10. Matched'
      <4>1. Resumes(items) = {2} /\ 1 \notin Resumes(todo)
        BY <1>1, <3>3, <3>7 DEF Resumes
      <4>2. PICK after : /\ IsFiniteSet(after)
                         /\ Cardinality(after) = Cardinality(Resumes(todo) \ {1})
                         /\ Resumes(todo') = Resumes(items) \cup after
                         /\ \A i \in after : i > Len(items)
        BY <1>1, <3>1, <3>3, ResumesAfter
      <4>3. 2 \notin after
        BY <3>3, <4>2
      <4>4. Resumes(todo)' = after \cup {2} /\ Resumes(todo) \ {1} = Resumes(todo)
        BY <4>1, <4>2 DEF Resumes
      <4>5. Cardinality(after \cup {2}) = Cardinality(after) + 1
        BY <4>2, <4>3, FS_AddElement
      <4>6. QED
        BY <2>3, <3>6, <4>2, <4>4, <4>5 DEF Matched
    <3>11. Accounted'
      <4>1. CASE had_error
        BY <3>1, <4>1 DEF Accounted
      <4>2. CASE ~had_error
        <5>1. /\ Clean(text, pos)
              /\ \A n \in DOMAIN suspended : Clean(suspended[n].text, suspended[n].pos)
              /\ \A s \in parsed :
                   \/ s = text
                   \/ \E n \in DOMAIN suspended : s = suspended[n].text
                   \/ Clean(s, Len(s) + 1)
          BY <1>1, <4>2 DEF Accounted
        <5>2. Clean(text', pos')
          BY <3>1 DEF Clean
        <5>3. \A n \in DOMAIN suspended' : Clean(suspended'[n].text, suspended'[n].pos)
          BY <3>5, <3>6, <5>1
        <5>4. ASSUME NEW s \in parsed'
              PROVE  \/ s = text'
                     \/ \E n \in DOMAIN suspended' : s = suspended'[n].text
                     \/ Clean(s, Len(s) + 1)
          <6>1. s = file \/ s \in parsed
            BY <2>1
          <6>2. CASE s = file
            BY <3>1, <6>2
          <6>3. ASSUME s = text
                PROVE  \E n \in DOMAIN suspended' : s = suspended'[n].text
            <7>1. outer.text = text
              BY DEF outer
            <7>2. QED
              BY <3>6, <6>3, <7>1
          <6>4. ASSUME NEW n \in DOMAIN suspended, s = suspended[n].text
                PROVE  \E k \in DOMAIN suspended' : s = suspended'[k].text
            BY <3>6, <6>4
          <6>5. QED
            BY <5>1, <6>1, <6>2, <6>3, <6>4
        <5>5. QED
          BY <5>2, <5>3, <5>4 DEF Accounted, Clean
      <4>3. QED
        BY <4>1, <4>2
    <3>12. QED
      BY <3>8, <3>9, <3>10, <3>11 DEF ParserInv
  <2>7. QED
    BY <2>5, <2>6
<1>4. QED
  BY <1>2, <1>3

(* A crash leaves nothing to do.                                           *)
LEMMA CrashKeeps ==
  ASSUME ParserInv, Crash
  PROVE  ParserInv'
<1>1. TypeOK /\ Accounted
  BY DEF ParserInv
<1>2. Call("crashed") \in [op : Ops, toks : SUBSET (Tokens \ Faulty), number : Nat]
  BY DEF Call, Item, Ops
<1>3. TypeOK'
  BY <1>1, <1>2 DEF TypeOK, Crash
<1>4. Accounted'
  BY <1>1 DEF Accounted, Clean, Crash
<1>5. Crashed'
  BY DEF Crashed, Crash
<1>6. QED
  BY <1>3, <1>4, <1>5 DEF ParserInv

-----------------------------------------------------------------------------
(***************************************************************************)
(* The theorems.                                                           *)
(***************************************************************************)

(* A parser has read nothing, and its file ends with its top-level loop.   *)
LEMMA InitInv ==
  Init => ParserInv
<1> SUFFICES ASSUME Init
             PROVE  ParserInv
  OBVIOUS
<1>1. /\ text \in Text /\ Len(text) \in Nat
      /\ pos = 1 /\ suspended = << >> /\ had_error = FALSE /\ parsed = {text}
  BY TextsAssumption, LenProperties DEF Init, Text
<1>2. /\ Call("unit") \in Items /\ Call("unit").op = "unit"
  BY DEF Call, Item, Items, Ops, Awaited
<1>3. /\ todo \in Seq(Items) /\ Len(todo) = 1 /\ todo[1].op = "unit"
      /\ DOMAIN todo = {1}
  <2>1. todo = << Call("unit") >>
    BY DEF Init, Program
  <2>2. QED
    BY <1>2, <2>1
<1>4. TypeOK
  <2>1. suspended \in Seq([text : Text, pos : Nat]) /\ DOMAIN suspended = {}
    BY <1>1, EmptySeq
  <2>2. pos \in 1 .. Len(text) + 1
    BY <1>1
  <2>3. parsed \subseteq Text /\ had_error \in BOOLEAN
    BY <1>1
  <2>4. QED
    BY <1>1, <1>3, <2>1, <2>2, <2>3 DEF TypeOK, Items, Awaited
<1>5. FilesEnd
  BY <1>3 DEF FilesEnd, Ends
<1>6. Matched
  <2>1. Resumes(todo) = {}
    BY <1>3 DEF Resumes
  <2>2. Len(suspended) = 0
    BY <1>1
  <2>3. QED
    BY <2>1, <2>2, FS_EmptySet DEF Matched
<1>7. Accounted
  <2>1. Clean(text, pos)
    BY <1>1 DEF Clean
  <2>2. DOMAIN suspended = {}
    BY <1>1
  <2>3. QED
    BY <1>1, <2>1, <2>2 DEF Accounted
<1>8. QED
  BY <1>4, <1>5, <1>6, <1>7 DEF ParserInv

(* Every step of the parser keeps the invariant.                           *)
LEMMA NextInv ==
  ParserInv /\ [Next]_vars => ParserInv'
<1> SUFFICES ASSUME ParserInv, [Next]_vars
             PROVE  ParserInv'
  OBVIOUS
<1>1. TypeOK
  BY DEF ParserInv
<1>2. CASE UNCHANGED vars
  BY <1>2 DEF vars, ParserInv, TypeOK, Crashed, FilesEnd, Ends, Current, TokenAt, Matched,
              Resumes, Accounted, Clean
<1>3. CASE parse_translation_unit
  BY <1>3, UnitKeeps
<1>4. CASE Resume
  BY <1>4, ResumeKeeps
<1>5. CASE Include
  BY <1>5, IncludeKeeps
<1>6. CASE parse_binary
  BY <1>1, <1>6, BinaryOperators, WithinFileKeeps, CrashKeeps
<1>7. CASE \/ parser_expect \/ parser_match \/ parse_primary \/ ExprList
           \/ parse_postfix \/ SizeofOperand \/ parse_prefix \/ OptionalExpr
  BY <1>1, <1>7, Expressions, WithinFileKeeps
<1>8. CASE parse_type \/ parse_decl \/ Params \/ VariadicParams \/ Body
  BY <1>1, <1>8, Declarations, WithinFileKeeps
<1>9. CASE \/ parse_stmt \/ parse_block \/ Statements \/ IfStmt \/ WhileStmt
           \/ DoWhileStmt \/ ForStmt \/ SwitchStmt \/ ReturnStmt \/ ThrowStmt
           \/ JumpStmt \/ TryStmt \/ AsmStmt \/ OtherStmt
  BY <1>1, <1>9, StatementForms, WithinFileKeeps
<1>10. CASE ClassDecl \/ EnumDecl \/ Define \/ Directive \/ OtherTopLevel
  BY <1>1, <1>10, Constructs, WithinFileKeeps
<1>11. QED
  BY <1>2, <1>3, <1>4, <1>5, <1>6, <1>7, <1>8, <1>9, <1>10 DEF Next

(* The invariant says what an accepted program has been through.           *)
LEMMA InvAcceptedIsRead ==
  ParserInv => AcceptedIsRead
<1> SUFFICES ASSUME ParserInv, todo = << >>, ~had_error
             PROVE  /\ Current = EOF /\ suspended = << >>
                    /\ \A file \in parsed : \A i \in DOMAIN file : file[i] \notin Faulty
  BY DEF AcceptedIsRead, Accepted, Returned
<1>1. TypeOK /\ Accounted
  BY DEF ParserInv
<1>2. FilesEnd /\ Matched
  BY DEF ParserInv, Crashed
<1>3. Len(todo) = 0 /\ DOMAIN todo = {}
  OBVIOUS
<1>4. Current = EOF
  BY <1>2, <1>3 DEF FilesEnd, Ends
<1>5. suspended = << >>
  <2>1. Resumes(todo) = {}
    BY <1>3 DEF Resumes
  <2>2. Len(suspended) = 0
    BY <1>2, <2>1, FS_EmptySet DEF Matched
  <2>3. suspended \in Seq(Parsers)
    BY <1>1, Types
  <2>4. QED
    BY <2>2, <2>3, EmptySeq
<1>6. ASSUME NEW file \in parsed
      PROVE  \A i \in DOMAIN file : file[i] \notin Faulty
  <2>1. file \in Seq(Tokens)
    BY <1>1, Types DEF Text
  <2>2. DOMAIN file = 1 .. Len(file) /\ Len(file) \in Nat
    BY <2>1, LenProperties
  <2>3. DOMAIN suspended = {}
    BY <1>5
  <2>4. Clean(text, Len(text) + 1)
    BY <1>1, <1>4, AtTheEnd DEF Accounted
  <2>5. Clean(file, Len(file) + 1)
    BY <1>1, <2>3, <2>4 DEF Accounted
  <2>6. QED
    BY <2>2, <2>5 DEF Clean
<1>7. QED
  BY <1>4, <1>5, <1>6

(* On every text, with whatever files it includes.                         *)
THEOREM ParserInvariant == Spec => []ParserInv
<1>1. Init => ParserInv
  BY InitInv
<1>2. ParserInv /\ [Next]_vars => ParserInv'
  BY NextInv
<1>3. QED
  BY <1>1, <1>2, PTL DEF Spec

(* The parser's state has its types whatever it is given: it is never past *)
(* the end of a text, and goes on with a file where it left it.            *)
THEOREM ParserTypeCorrect == Spec => []TypeOK
<1>1. ParserInv => TypeOK
  BY DEF ParserInv
<1>2. QED
  BY <1>1, ParserInvariant, PTL

(* What is accepted has been read to the end, the included files too, and  *)
(* no token that no rule expects has been passed over in silence.          *)
THEOREM AcceptedIsAlwaysRead == Spec => []AcceptedIsRead
BY InvAcceptedIsRead, ParserInvariant, PTL
=============================================================================
