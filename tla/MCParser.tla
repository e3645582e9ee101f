------------------------------ MODULE MCParser ------------------------------
(***************************************************************************)
(* Parser on all short sentences of a grammar and all texts one token away *)
(* from them.  Each grammar is a part of the language, with one kind of    *)
(* operator, operand or statement standing for the others where they only  *)
(* nest.                                                                   *)
(***************************************************************************)
EXTENDS Parser, Grammar, HolyC, SequencesExt

CONSTANT Samples   \* the parts of the language sampled, with their bounds

InLanguage(s) == Derives(HolyCRules, << "Unit" >>, s)
InDocumentation(s) == Derives(DocumentedRules, << "Unit" >>, s)

Empty == {"Stmts", "Exprs", "Params", "Param", "Type", "Stars", "Dims", "Init", "Name",
          "Comma", "Mods", "Maybe", "Start", "Variadic", "Text", "Cases", "Members",
          "Enumerators"}

(* The sentences of at most `max' tokens, and those of at most `edited'    *)
(* tokens with an error put in as well.                                    *)
Part(rules, max, edited) == [rules |-> rules, max |-> max, edited |-> edited]

TextsOf(part) ==
  LET short  == Sentences(part.rules, Empty, "Top", part.max)
      edited == {s \in short : Len(s) <= part.edited}
      tokens == UNION {ToSet(s) : s \in edited} \cup {"error", "overflow"}
  IN short \cup UNION {NearMisses(s, tokens) : s \in edited}

Texts == UNION {TextsOf(Samples[i]) : i \in DOMAIN Samples}

Id == << "identifier" >>
Many(item, list) == {<< >>, << item, list >>}
Commas(item, more) == {<< item >>, << item, ",", more >>}

SomeExpressions ==
  [Top   |-> {<< "Expr", ";" >>},
   Exprs |-> {<< >>, << "Args" >>},
   Args  |-> Commas("Expr", "Args"),
   Expr  |-> {Id, << "*", "Expr" >>, << "++", "Expr" >>, << "Expr", "*", "Expr" >>,
              << "Expr", "<", "Expr" >>, << "Expr", "==", "Expr" >>,
              << "Expr", "=", "Expr" >>,
              << "Expr", "?", "Expr", ":", "Expr" >>,
              << "(", "Expr", ")" >>, << "(", "type", ")", "Expr" >>,
              << "Expr", "[", "Expr", "]" >>, << "Expr", "(", "Exprs", ")" >>,
              << "{", "Exprs", "}" >>,
              << "Expr", "++" >>, << "Expr", ".", "identifier" >>}]

(* Statements that nest.                                                   *)
SomeNested ==
  [Top   |-> {<< "Stmt" >>},
   Stmts |-> Many("Stmt", "Stmts"),
   Maybe |-> {<< >>, Id},
   Start |-> {<< >>, << "type", "identifier" >>},
   Stmt  |-> {<< "identifier", ";" >>, << "{", "Stmts", "}" >>,
              << "if", "(", "identifier", ")", "Stmt" >>,
              << "if", "(", "identifier", ")", "Stmt", "else", "Stmt" >>,
              << "while", "(", "identifier", ")", "Stmt" >>,
              << "do", "Stmt", "while", "(", "identifier", ")", ";" >>,
              << "for", "(", "Start", ";", "Maybe", ";", "Maybe", ")", "Stmt" >>}]

(* Statements that leave, and try.                                         *)
SomeJumps ==
  [Top   |-> {<< "Stmt" >>},
   Maybe |-> {<< >>, Id},
   Param |-> {<< >>, << "(", "identifier", ")" >>},
   Text  |-> {<< >>, << "(", ")" >>, << "(", "string", ")" >>},
   Stmt  |-> {<< "identifier", ";" >>, << "break", ";" >>, << "identifier", ":" >>,
              << "return", "Maybe", ";" >>, << "throw", "Maybe", ";" >>,
              << "goto", "identifier", ";" >>, << "asm", "Text", ";" >>,
              << "no_warn", "identifier", ";" >>,
              << "try", "Stmt", "catch", "Param", "Stmt" >>}]

SomeSwitches ==
  [Top   |-> {<< "Stmt" >>},
   Stmts |-> Many("Stmt", "Stmts"),
   Maybe |-> {<< >>, Id},
   Cases |-> {<< >>, << "Case", "Stmts", "Cases" >>},
   Case  |-> {<< "case", "Maybe", ":" >>, << "default", ":" >>,
              << "case", "identifier", "...", "identifier", ":" >>},
   Stmt  |-> {<< "identifier", ";" >>, << "break", ";" >>,
              << "switch", "(", "identifier", ")", "{", "Stmts", "Cases", "}" >>}]

(* Declarations of variables, with modifiers or without.                   *)
SomeDeclarations ==
  [Top    |-> {<< "Mods", "type", "Stars", "identifier", "Dims", "Init", ";" >>},
   Mods   |-> {a \o b \o c : a \in {<< >>, << "no_warn" >>}, b \in {<< >>, << "static" >>},
                             c \in {<< >>, << "extern" >>, << "public", "_extern" >>}},
   Stars  |-> {<< >>, << "*", "Stars" >>},
   Dims   |-> {<< >>, << "[", "]", "Dims" >>, << "[", "identifier", "]", "Dims" >>},
   Init   |-> {<< >>, << "=", "identifier" >>}]

(* Functions and pointers to them: the two kinds of parameter lists.       *)
SomeParameters ==
  [Top      |-> {<< "type", "identifier", "(", "Variadic", ")", "Body" >>,
                 << "type", "(", "*", "identifier", ")", "(", "Params", ")", "Init", ";" >>},
   Variadic |-> {<< >>, << "..." >>, << "Param" >>, << "Param", ",", "Variadic" >>},
   Params   |-> {<< >>, << "Param" >>, << "Param", ",", "Params" >>},
   Param    |-> {<< "Type" >>, << "Type", "identifier" >>},
   Type     |-> {<< >>, << "type" >>},
   Init     |-> {<< >>, << "=", "identifier" >>},
   Body     |-> {<< ";" >>, << "{", "}" >>}]

(* Classes: fields, methods and stray statements.                          *)
SomeClasses ==
  [Top     |-> {<< "class", "Name", "{", "Members", "}", ";" >>},
   Name    |-> {<< >>, Id},
   Members |-> Many("Member", "Members"),
   Member  |-> {<< "Type", "identifier", ";" >>,
                << "Type", "identifier", "(", "Params", ")", "Body" >>,
                << "{", "Stmts", "}" >>},
   Type    |-> {<< "type" >>, << "identifier", "*" >>},
   Params  |-> {<< >>, << "Param" >>, << "Param", ",", "Params" >>},
   Param   |-> {<< "Type" >>, << "Type", "identifier" >>},
   Body    |-> {<< ";" >>, << "{", "Stmts", "}" >>},
   Stmts   |-> {<< >>, << "identifier", ";" >>}]

(* What else stands at top level.                                          *)
SomeFiles ==
  [Top |-> {<< "Construct" >>, << "Construct", "Construct" >>},
   Construct |->
     {<< "include" >>, << "include", "string" >>, << "directive" >>, << "define" >>,
      << "define", "identifier" >>, << "define", "identifier", "literal" >>,
      << "identifier", ";" >>, << "identifier", "=", "Size", ";" >>,
      << "enum", "Name", "{", "Enumerators", "}", ";" >>},
   Name  |-> {<< >>, Id},
   Init  |-> {<< >>, << "=", "literal" >>},
   Comma |-> {<< >>, << "," >>},
   Enumerators |-> {<< >>, << "identifier", "Init", "Comma", "Enumerators" >>},
   Size  |-> {<< "sizeof", "(", "type", ")" >>, << "sizeof", "identifier" >>}]

StatementParts ==
  << Part(SomeNested, 10, 7), Part(SomeSwitches, 10, 9), Part(SomeJumps, 8, 6),
     Part(SomeDeclarations, 8, 5), Part(SomeParameters, 10, 7), Part(SomeClasses, 10, 7) >>
FileParts == << Part(SomeExpressions, 6, 4), Part(SomeFiles, 8, 4) >>
AllParts == StatementParts \o FileParts
NoPart == << >>

(* The contents of included files, right and wrong, nested twice.          *)
Headers ==
  LET plain == {Unreadable, << >>, << "identifier", ";" >>, << "identifier" >>}
  IN << plain \cup {<< "include", "string", "identifier", ";" >>}, plain >>
MalformedNumber == << {<< "identifier", "=", "malformed", ";" >>} >>

(* Programs of the documentation, each with one of the forms that the      *)
(* parser refuses, and a chained comparison.                               *)
Documented ==
  {<< "class", "identifier", "{", "type", "identifier", ";", "}", ";",
      "identifier", "identifier", ";" >>,
   << "try", "{", "throw", "literal", ";", "}",
      "catch", "(", "type", "identifier", ")", "{", "}" >>,
   << "offset", "(", "identifier", ".", "identifier", ")", ";" >>,
   << "reg", "type", "identifier", "identifier", ";" >>,
   << "const", "type", "identifier", "=", "literal", ";" >>,
   << "type", "identifier", ",", "identifier", ",", "identifier", ";" >>,
   << "directive", "identifier", "string", ";", "directive" >>,
   << "sizeof", "(", "literal", ")", ";" >>,
   << "identifier", "<", "identifier", "+", "literal", "<=", "identifier", ";" >>}

(* Programs with an error: an enumerator that is a number, two dots, and a *)
(* number without digits in an included file.                              *)
Mistaken ==
  {<< "enum", "{", "literal", "}", ";" >>, << "identifier", "..", "identifier", ";" >>,
   << "include", "string" >>}

DocumentedAndMistaken == Documented \cup Mistaken

ASSUME DocumentedAssumption == \A s \in Documented : InDocumentation(s)
ASSUME MistakenAssumption ==
  \A s \in (Mistaken \ {<< "include", "string" >>}) \cup MalformedNumber[1] : ~InDocumentation(s)

(* The parser accepts exactly the forms of the language that it has rules  *)
(* for: it reports an error if and only if the file it was given, or one   *)
(* included, is not derived by the grammar (parser.c, all of it).  The     *)
(* forms it refuses, and errors lost in included files, are the subject of *)
(* HandledAsDocumented.                                                    *)
AcceptsLanguage == Returned => (Accepted <=> \A s \in parsed : InLanguage(s))

(* The parser returns on every text of statements, declarations and        *)
(* classes, right or wrong: every loop consumes (parser.c:201, 549-598,    *)
(* 799-869, 906-953).                                                      *)
StatementTexts == UNION {TextsOf(StatementParts[i]) : i \in DOMAIN StatementParts}
StatementsTerminate == text \in StatementTexts => Terminates

(* The parser returns, on right programs and wrong ones ("compilation      *)
(* continues to find more errors", ARCHITECTURE.md:230), and has accepted  *)
(* exactly those that are in the language of the documentation with all    *)
(* the files they include (LANGUAGE.md, at the lines of Refused; the lexer *)
(* "produces TOK_ERROR tokens for invalid input" and "all errors go        *)
(* through the Diagnostics interface", ARCHITECTURE.md:41, 306).           *)
HandledAsDocumented ==
  <>(Returned /\ (Accepted <=> \A s \in parsed : InDocumentation(s)))
=============================================================================
