-------------------------------- MODULE HolyC --------------------------------
(***************************************************************************)
(* The language of src/parser/parser.c as a grammar: the reference that    *)
(* the parser is compared with.  It spells out what the order of the       *)
(* parser's tests decides (what a statement may begin with, which of two   *)
(* readings is tried first), and the liberties the parser takes: a missing *)
(* type is void, the commas of an enum are optional, an include without a  *)
(* file name is passed over, a macro at the end of a file has no value.    *)
(* The forms of the documentation that the parser has no rule for stand on *)
(* their own, as Refused.                                                  *)
(***************************************************************************)
LOCAL INSTANCE Sequences
LOCAL INSTANCE TLC

LOCAL Many(item, list)   == {<< >>, << item, list >>}
LOCAL Commas(item, list) == {<< item >>, << item, ",", list >>}
LOCAL Maybe(form)        == {<< >>, form}

BinaryOps == {"bit", "*", "/", "+", "-", "<<", "<", "<=", "==", "&", "^", "|", "&&", "||", "="}
PrefixOps == {"-", "!", "*", "&", "++", "--"}
Keys      == {"class", "union", "enum"}

(* Operands are told apart by the token they begin with.                   *)
LOCAL Expressions ==
  [Expr     |-> {<< "Operand", "More" >>},
   More     |-> {<< >>, << "?", "Expr", ":", "Expr" >>}
                \cup {<< op, "Expr" >> : op \in BinaryOps},
   Operand  |-> {<< "ByName" >>, << "ByString" >>, << "ByBrace" >>, << "ByParen" >>,
                 << "ByOther" >>},
   ByName   |-> {<< "identifier", "Suffixes" >>},
   ByString |-> {<< "string", "Suffixes" >>},
   ByBrace  |-> {<< "{", "Exprs", "}", "Suffixes" >>},
   ByParen  |-> {<< "(", "Expr", ")", "Suffixes" >>, << "(", "type", "Stars", ")", "Operand" >>,
                 << "(", "class", "Stars", ")", "Operand" >>,
                 << "(", "union", "Stars", ")", "Operand" >>},
   ByOther  |-> {<< "literal", "Suffixes" >>, << "sizeof", "(", "Found", ")" >>,
                 << "sizeof", "(", "Key", ")" >>, << "sizeof", "ByName" >>,
                 << "sizeof", "ByString" >>, << "sizeof", "ByBrace" >>, << "sizeof", "ByOther" >>}
                \cup {<< op, "Operand" >> : op \in PrefixOps},
   Suffixes |-> {<< >>, << "[", "Expr", "]", "Suffixes" >>, << "(", "Exprs", ")", "Suffixes" >>,
                 << ".", "identifier", "Suffixes" >>, << "->", "identifier", "Suffixes" >>,
                 << "++", "Suffixes" >>, << "--", "Suffixes" >>},
   Exprs    |-> Maybe(<< "Args" >>),
   Args     |-> Commas("Expr", "Args")]

(* Found is a type that is there: its name, or the stars of a void.        *)
LOCAL Declarations ==
  [Stars    |-> Many("*", "Stars"),
   Key      |-> {<< k >> : k \in Keys},
   Found    |-> {<< "type", "Stars" >>, << "identifier", "Stars" >>, << "*", "Stars" >>,
                 << "Key", "identifier", "Stars" >>, << "Key", "*", "Stars" >>},
   Named    |-> {<< "identifier", "Dims", "Init", ";" >>,
                 << "identifier", "Dims", "(", "VParams", ")", "Body" >>},
   Pointer  |-> {<< "(", "*", "identifier", ")", "(", "Params", ")", "Init", ";" >>},
   Typed    |-> {<< "type", "Stars", "Named" >>, << "type", "Stars", "Pointer" >>},
   Untyped  |-> {<< "Found", "Named" >>, << "Found", "Pointer" >>, << "Key", "Pointer" >>,
                 << "Pointer" >>},
   Dims     |-> {<< >>, << "[", "]", "Dims" >>, << "[", "Expr", "]", "Dims" >>},
   Init     |-> Maybe(<< "=", "Expr" >>),
   VParams  |-> {<< >>, << "..." >>, << "Params" >>, << "Params", ",", "..." >>},
   Params   |-> Commas("Param", "Params"),
   Param    |-> {<< >>, << "Found" >>, << "Found", "identifier" >>, << "Key" >>},
   Body     |-> {<< ";" >>, << "Block" >>},
   Block    |-> {<< "{", "Stmts", "}" >>}]

(* Modifiers have an order; what comes after each one.                     *)
LOCAL Modifiers ==
  LET linkage == {<< "extern" >>, << "extern", "public" >>, << "public" >>,
                  << "public", "_extern" >>, << "_extern" >>}
      hidden  == {<< "static", "AfterHidden" >>, << "private", "AfterHidden" >>}
      held    == {<< "noreg", "AfterNoreg" >>}
  IN [AfterHidden |-> {<< >>} \cup linkage,
      AfterNoreg  |-> {<< "AfterHidden" >>} \cup hidden,
      AfterReg    |-> {<< "AfterNoreg" >>} \cup held,
      AfterNoWarn |-> {<< "AfterReg" >>, << "reg", "AfterReg" >>},
      TopMods     |-> {<< "no_warn", "AfterNoWarn" >>, << "reg", "AfterReg" >>}
                      \cup held \cup hidden \cup linkage,
      StmtMods    |-> {<< "reg", "AfterReg" >>, << "private", "AfterHidden" >>,
                       << "public" >>, << "public", "_extern" >>} \cup held]

LOCAL Statements ==
  [Stmts   |-> Many("Stmt", "Stmts"),
   Stmt    |-> {<< "Bare" >>, << "no_warn", "Bare" >>},
   Bare    |-> {<< "Lead" >>, << "Quoted" >>, << "Grouped" >>, << "Other" >>},
   Lead    |-> {<< "Typed" >>, << "identifier", ":" >>, << "ByName", "More", ";" >>},
   Quoted  |-> {<< "ByString", "More", ";" >>},
   Grouped |-> {<< "ByParen", "More", ";" >>},
   Other   |-> {<< "ByOther", "More", ";" >>, << "StmtMods", "Untyped" >>, << "Block" >>,
                << "if", "Test", "Stmt" >>, << "if", "Test", "Stmt", "else", "Stmt" >>,
                << "while", "Test", "Stmt" >>,
                << "do", "Stmt", "while", "Test", ";" >>,
                << "for", "(", "ForInit", "Value", ";", "Value", ")", "Stmt" >>,
                << "switch", "Test", "{", "Stmts", "Cases", "}" >>,
                << "return", "Value", ";" >>, << "throw", "Value", ";" >>,
                << "break", ";" >>, << "continue", ";" >>, << "goto", "identifier", ";" >>,
                << "try", "Stmt", "catch", "Handler" >>,
                << "asm", "AsmText", ";" >>},
   Test    |-> {<< "(", "Expr", ")" >>},
   Value   |-> Maybe(<< "Expr" >>),
   ForInit |-> {<< "Typed" >>, << "Value", ";" >>},
   Cases   |-> Many("Case", "Cases"),
   Case    |-> {<< "case", "Value", ":", "Stmts" >>, << "default", ":", "Stmts" >>,
                << "case", "Expr", "...", "Expr", ":", "Stmts" >>},
   Handler |-> {<< "(", "Expr", ")", "Stmt" >>, << "no_warn", "Bare" >>, << "Lead" >>,
                << "Quoted" >>, << "Other" >>},
   AsmText |-> {<< >>, << "(", ")" >>, << "(", "string", ")" >>}]

(* A string after `include' is its file, so that Rest begins with none.    *)
LOCAL TopLevel ==
  [Unit    |-> {<< "Rest" >>, << "Quoted", "Unit" >>},
   Rest    |-> {<< >>, << "Top", "Unit" >>, << "define" >>, << "define", "identifier" >>,
                << "include", "Rest" >>, << "include", "string", "Unit" >>},
   Top     |-> {<< "Lead" >>, << "Grouped" >>, << "Other" >>, << "TopMods", "Untyped" >>,
                << "directive" >>, << "define", "identifier", "Expr" >>,
                << "define", "Macro", "More" >>,
                << "Struct", "Name", "{", "Members", "}", ";" >>,
                << "enum", "Name", "{", "Enumerators", "}", ";" >>},
   Macro   |-> {<< "ByString" >>, << "ByBrace" >>, << "ByParen" >>, << "ByOther" >>},
   Struct  |-> {<< "class" >>, << "union" >>},
   Name    |-> Maybe(<< "identifier" >>),
   Members |-> Many("Member", "Members"),
   Member  |-> {<< "Field", "identifier", ";" >>,
                << "Field", "identifier", "(", "Params", ")", "Body" >>,
                << "no_warn", "Bare" >>, << "Quoted" >>, << "Grouped" >>, << "Other" >>},
   Field   |-> {<< "type", "Stars" >>, << "identifier", "Stars" >>},
   Enumerators |-> {<< >>, << "identifier", "Init", "Comma", "Enumerators" >>},
   Comma   |-> Maybe(<< "," >>)]

HolyCRules == Expressions @@ Declarations @@ Modifiers @@ Statements @@ TopLevel

(* What the documentation shows beside these rules (docs/LANGUAGE.md):     *)
(* several names in a declaration (151), a constant (161) and a register   *)
(* with its name (162), a variable whose type is a class (977), the        *)
(* offset of a field (475), the size of an expression (474), the typed     *)
(* parameter of a handler (988), and what #ifdef asks for (564).           *)
Refused ==
  [Named   |-> {<< "identifier", "Dims", "Init", ",", "Names", ";" >>},
   Names   |-> Commas("identifier", "Names"),
   Lead    |-> {<< "const", "Typed" >>, << "identifier", "Named" >>},
   Other   |-> {<< "reg", "type", "Stars", "identifier", "Named" >>},
   Top     |-> {<< "reg", "type", "Stars", "identifier", "Named" >>,
                << "directive", "identifier" >>},
   ByOther |-> {<< "offset", "(", "identifier", ".", "identifier", ")" >>,
                << "sizeof", "(", "Expr", ")" >>},
   Handler |-> {<< "(", "type", "identifier", ")", "Stmt" >>}]

LOCAL FormsIn(rules, x) == IF x \in DOMAIN rules THEN rules[x] ELSE {}
DocumentedRules ==
  [x \in DOMAIN HolyCRules \cup DOMAIN Refused |-> FormsIn(HolyCRules, x) \cup FormsIn(Refused, x)]
=============================================================================
