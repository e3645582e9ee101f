------------------------------ MODULE Semantic ------------------------------
(***************************************************************************)
(* The semantic analyser of src/semantic/semantic.c as the recursive       *)
(* descent it is: `frames' is the C stack of semantic_analyze_stmt, one    *)
(* frame per AST node whose children are still being visited, and an       *)
(* action is the code run between two recursive calls.  The AST is not a   *)
(* data structure here: each action chooses the next node among those the  *)
(* parser can put in that place, so that the behaviours range over all     *)
(* programs of at most MaxNodes nodes and MaxDepth nesting.                *)
(*                                                                         *)
(* Some nodes are walked by nobody: semantic_analyze_stmt returns at once  *)
(* from a try statement, hands the body of a do statement to the           *)
(* expression analyser (which ignores statements), and stops at the first  *)
(* method of a class.  Their text is still part of the program, so the     *)
(* frames go through it, with every variable of the analyser unchanged.    *)
(*                                                                         *)
(* An expression is abstracted to the set of identifiers in it, and a node *)
(* to the names it declares, those in the sizes of the array it declares   *)
(* and those it reads.  The names that semantic_analyze_expr comes across  *)
(* and does not check (the operands of throw and sizeof, a called name, an *)
(* array's initialiser) are in nodes of their own.                         *)
(***************************************************************************)
EXTENDS SymbolTable, FiniteSets

CONSTANTS
  Undeclared,    \* names the program reads and declares nowhere
  ReturnTypes,   \* return types of functions
  NoType,        \* current_func_return outside a function (NULL)
  Constructs,    \* the constructs the programs of this instance use
  MaxNodes,      \* bound on the statements visited
  MaxDepth       \* bound on the nesting of statements

ASSUME NamesAssumption == Undeclared \subseteq Names
ASSUME TypesAssumption == NoType \notin ReturnTypes
ASSUME BoundsAssumption == MaxNodes \in Nat /\ MaxDepth \in Nat

NoNode == [construct |-> "none", names |-> {}, sizes |-> {}, reads |-> {}]

VARIABLES
  symtab,               \* s->symtab
  diag,                 \* s->diag
  loop_depth,           \* s->loop_depth
  switch_depth,         \* s->switch_depth
  current_func_return,  \* s->current_func_return
  frames,               \* the recursion of semantic_analyze_stmt
  result,               \* what semantic_analyze has returned
  node,                 \* the node last visited: its construct, the names it
                        \* declares, those in its sizes and those it reads
  visited               \* the number of nodes visited, for MaxNodes

analyser == << symtab, diag, loop_depth, switch_depth, current_func_return >>
vars == << analyser, frames, result, node, visited >>

-----------------------------------------------------------------------------
(***************************************************************************)
(* Frames.                                                                 *)
(***************************************************************************)

(* Nodes that visit any number of statements, and nodes that visit exactly *)
(* `left' more (an if statement may stop with its else branch to come).    *)
ListKinds == {"unit", "include", "params", "func", "block", "switch", "case",
              "enum", "class"}
FrameKinds == ListKinds \cup {"if", "while", "forinit", "forbody", "do", "try"}

Frame == [kind : FrameKinds, left : 0 .. 2,
          prev_return : ReturnTypes \cup {NoType}]

Arity(kind) == IF kind \in {"if", "try"} THEN 2 ELSE 1
NewFrame(kind) ==
  [kind |-> kind, left |-> Arity(kind), prev_return |-> current_func_return]

Top == frames[Len(frames)]
SetTop(frame) == [frames EXCEPT ![Len(frames)] = frame]

(* The caller moves on to the sibling of the node it is about to visit.    *)
Consumed ==
  IF Top.kind \in ListKinds THEN frames
                            ELSE SetTop([Top EXCEPT !.left = @ - 1])

TopLevel == Top.kind \in {"unit", "include"}

(* Where the parser can place a statement, a variable declaration and a    *)
(* function declaration (a method, directly in a class).                   *)
StatementAllowed ==
  Top.left > 0 /\ Top.kind \notin {"params", "enum", "class", "forinit"}
VarAllowed  == StatementAllowed \/ (Top.kind = "forinit" /\ Top.left > 0)
FuncAllowed == \/ TopLevel
               \/ "method" \in Constructs /\ Top.kind = "class"
               \/ "nested function" \in Constructs /\ VarAllowed

(* Nodes whose children semantic.c does not analyse.                       *)
UnwalkedKinds == {"do", "try", "class"}
UnwalkedIn(fs) == \E i \in DOMAIN fs : fs[i].kind \in UnwalkedKinds
Unwalked == UnwalkedIn(frames)

Reads == {{}} \cup {{n} : n \in Names}

-----------------------------------------------------------------------------
(***************************************************************************)
(* Pieces of the handlers.                                                 *)
(***************************************************************************)

(* AST_IDENTIFIER in semantic_analyze_expr: an error per failed lookup.    *)
analyze_reads(st, reads) ==
  IF \A n \in reads : symbol_lookup(st.table, n)
  THEN st
  ELSE State(st.table, diag_error(st.diag))

Here == State(symtab, diag)

Visit(construct, names, sizes, reads) ==
  /\ construct \in Constructs
  /\ result = "running"
  /\ frames # << >>
  /\ visited < MaxNodes
  /\ visited' = visited + 1
  /\ node' = [construct |-> construct, names |-> names, sizes |-> sizes,
              reads |-> reads]
  /\ result' = result

(* The symbol table and the diagnostics become those of `st' when the node *)
(* is analysed, and stay as they are when it is part of an unwalked node.  *)
Report(st) ==
  /\ symtab' = IF Unwalked THEN symtab ELSE st.table
  /\ diag'   = IF Unwalked THEN diag ELSE st.diag

Counters == << loop_depth, switch_depth, current_func_return >>

SizedLeaf(construct, names, sizes, reads, st) ==
  /\ Visit(construct, names, sizes, reads)
  /\ frames' = Consumed
  /\ Report(st)
  /\ UNCHANGED Counters

Leaf(construct, names, reads, st) ==
  SizedLeaf(construct, names, {}, reads, st)

Enter(construct, names, reads, kind, st) ==
  /\ Visit(construct, names, {}, reads)
  /\ Len(frames) < MaxDepth
  /\ frames' = Append(Consumed, NewFrame(kind))
  /\ Report(st)

-----------------------------------------------------------------------------
(***************************************************************************)
(* Declarations.                                                           *)
(***************************************************************************)

(* semantic_resolve_type analyses the sizes of an array before the name is *)
(* added, and the name is added before its initialiser is analysed.        *)
declare(name, sizes) ==
  LET sized == analyze_reads(Here, sizes)
  IN IF symbol_lookup_current_scope(symtab, name)
     THEN State(sized.table, diag_note(diag_error(sized.diag)))
     ELSE symbol_add(sized, name, "VARIABLE")

(* A bug: the initialiser is not analysed.                                 *)
VarDecl_unread(name, sizes, reads) ==
  /\ VarAllowed
  /\ SizedLeaf("var", {name}, sizes, reads, declare(name, sizes))

(* A bug: the name is added before the sizes are analysed.                 *)
VarDecl_early(name, sizes, reads) ==
  /\ VarAllowed
  /\ SizedLeaf("var", {name}, sizes, reads,
               analyze_reads(analyze_reads(declare(name, {}), sizes), reads))

VarDecl(name, sizes, reads) ==
  /\ VarAllowed
  /\ SizedLeaf("var", {name}, sizes, reads,
               analyze_reads(declare(name, sizes), reads))

(* A list in braces as initialiser: semantic_analyze_expr has no case for  *)
(* it, so that nothing in it is looked up.                                 *)
ListDecl(name, sizes, reads) ==
  /\ VarAllowed
  /\ SizedLeaf("list", {name}, sizes, reads, declare(name, sizes))

(* A declaration without a body adds the name as a definition would.       *)
FuncPrototype(name) ==
  /\ FuncAllowed
  /\ Leaf("prototype", {name}, {}, symbol_add(Here, name, "FUNCTION"))

(* A bug: the return type of the enclosing function is left in place.      *)
FuncDecl_untyped(name, return_type) ==
  /\ FuncAllowed
  /\ LET st == symbol_add(Here, name, "FUNCTION")
     IN Enter("func", {name}, {}, "params",
              State(scope_push(st.table, "FUNCTION"), st.diag))
  /\ UNCHANGED Counters

FuncDecl(name, return_type) ==
  /\ FuncAllowed
  /\ LET st == symbol_add(Here, name, "FUNCTION")
     IN Enter("func", {name}, {}, "params",
              State(scope_push(st.table, "FUNCTION"), st.diag))
  /\ current_func_return' = IF Unwalked THEN current_func_return ELSE return_type
  /\ UNCHANGED << loop_depth, switch_depth >>

Param(name) ==
  /\ Top.kind = "params"
  /\ Leaf("func", {name}, {}, symbol_add(Here, name, "VARIABLE"))

FuncBody ==
  /\ result = "running"
  /\ frames # << >>
  /\ Top.kind = "params"
  /\ frames' = SetTop([Top EXCEPT !.kind = "func"])
  /\ node' = NoNode
  /\ UNCHANGED << analyser, result, visited >>

(* Fields are not symbols; the methods that follow them are not visited.   *)
StructDecl(name) ==
  /\ TopLevel
  /\ Enter("class", {name}, {}, "class", symbol_add(Here, name, "STRUCT"))
  /\ UNCHANGED Counters

EnumDecl(name) ==
  /\ TopLevel
  /\ Enter("enum", {name}, {}, "enum", symbol_add(Here, name, "ENUM"))
  /\ UNCHANGED Counters

Enumerator(name) ==
  /\ Top.kind = "enum"
  /\ Leaf("enum", {name}, {}, symbol_add(Here, name, "CONSTANT"))

(* Without a name, the first member is taken for it and lost: an enumerator *)
(* is then no symbol, and fields never are.                                *)
NamelessClass ==
  /\ TopLevel
  /\ Enter("class", {}, {}, "class", Here)
  /\ UNCHANGED Counters

NamelessEnum(first) ==
  /\ TopLevel
  /\ Enter("nameless", first, {}, "enum", Here)
  /\ UNCHANGED Counters

(* The names of macros are no symbols (the default branch).                *)
Define(name) ==
  /\ TopLevel
  /\ Leaf("define", {name}, {}, Here)

(* A label is a symbol of the current scope.                               *)
LabelStmt(name) ==
  /\ StatementAllowed
  /\ Leaf("label", {name}, {}, symbol_add(Here, name, "LABEL"))

(* The spliced declarations of an included file (the default branch).      *)
Include ==
  /\ TopLevel
  /\ Enter("include", {}, {}, "include", Here)
  /\ UNCHANGED Counters

-----------------------------------------------------------------------------
(***************************************************************************)
(* Statements.                                                             *)
(***************************************************************************)

(* AST_EXPR_STMT and AST_RETURN_STMT.                                      *)
ExprStmt(reads) ==
  /\ StatementAllowed
  /\ Leaf("expr", {}, reads, analyze_reads(Here, reads))

(* Neither the label of a goto nor the operand of a throw is analysed.     *)
GotoStmt ==
  /\ StatementAllowed
  /\ Leaf("goto", {}, {}, Here)

ThrowStmt(reads) ==
  /\ StatementAllowed
  /\ Leaf("throw", {}, reads, Here)

(* A called name is looked up for its type alone; the arguments are read   *)
(* like those of any expression.                                           *)
CallExpr(called) ==
  /\ StatementAllowed
  /\ Leaf("call", {}, called, Here)

SizeofExpr(operand) ==
  /\ StatementAllowed
  /\ Leaf("sizeof", {}, operand, Here)

BreakStmt ==
  /\ StatementAllowed
  /\ Leaf("break", {}, {},
          IF loop_depth = 0 /\ switch_depth = 0
          THEN State(symtab, diag_error(diag))
          ELSE Here)

(* A bug: a switch is taken for a loop.                                    *)
ContinueStmt_inSwitch ==
  /\ StatementAllowed
  /\ Leaf("continue", {}, {},
          IF loop_depth = 0 /\ switch_depth = 0
          THEN State(symtab, diag_error(diag))
          ELSE State(symtab, diag_warning(diag)))

ContinueStmt ==
  /\ StatementAllowed
  /\ Leaf("continue", {}, {},
          IF loop_depth = 0
          THEN State(symtab, diag_error(diag))
          ELSE State(symtab, diag_warning(diag)))

Block ==
  /\ StatementAllowed
  /\ Enter("block", {}, {}, "block", State(scope_push(symtab, "BLOCK"), diag))
  /\ UNCHANGED Counters

IfStmt(reads) ==
  /\ StatementAllowed
  /\ Enter("if", {}, reads, "if", analyze_reads(Here, reads))
  /\ UNCHANGED Counters

(* A bug: the depth is not raised.                                         *)
WhileStmt_uncounted(reads) ==
  /\ StatementAllowed
  /\ Enter("while", {}, reads, "while", analyze_reads(Here, reads))
  /\ UNCHANGED Counters

WhileStmt(reads) ==
  /\ StatementAllowed
  /\ Enter("while", {}, reads, "while", analyze_reads(Here, reads))
  /\ loop_depth' = IF Unwalked THEN loop_depth ELSE loop_depth + 1
  /\ UNCHANGED << switch_depth, current_func_return >>

(* The depth is raised and lowered around a body nobody walks.             *)
DoWhileStmt ==
  /\ StatementAllowed
  /\ Enter("do", {}, {}, "do", Here)
  /\ UNCHANGED Counters

TryStmt ==
  /\ StatementAllowed
  /\ Enter("try", {}, {}, "try", Here)
  /\ UNCHANGED Counters

ForStmt ==
  /\ StatementAllowed
  /\ Enter("for", {}, {}, "forinit", State(scope_push(symtab, "BLOCK"), diag))
  /\ UNCHANGED Counters

(* An expression as the first clause of a for is passed to                 *)
(* semantic_analyze_stmt, whose default branch does nothing with it.       *)
ForInitExpr(reads) ==
  /\ Top.kind = "forinit" /\ Top.left > 0
  /\ Leaf("for expression", {}, reads, Here)

ForBody(reads) ==
  /\ Top.kind = "forinit"
  /\ Visit("for", {}, {}, reads)
  /\ frames' = SetTop([Top EXCEPT !.kind = "forbody", !.left = 1])
  /\ Report(analyze_reads(Here, reads))
  /\ loop_depth' = IF Unwalked THEN loop_depth ELSE loop_depth + 1
  /\ UNCHANGED << switch_depth, current_func_return >>

SwitchStmt(reads) ==
  /\ StatementAllowed
  /\ Enter("switch", {}, reads, "switch", analyze_reads(Here, reads))
  /\ switch_depth' = IF Unwalked THEN switch_depth ELSE switch_depth + 1
  /\ UNCHANGED << loop_depth, current_func_return >>

(* case, default, and the case range of the default branch, whose bounds   *)
(* are not analysed (reads is empty for the last two).  Statements after   *)
(* it belong to it, not to the switch.                                     *)
CaseStmt(reads) ==
  /\ Top.kind = "switch"
  /\ Visit("case", {}, {}, reads)
  /\ Len(frames) < MaxDepth
  /\ frames' = Append(SetTop([Top EXCEPT !.left = 0]), NewFrame("case"))
  /\ Report(analyze_reads(Here, reads))
  /\ UNCHANGED Counters

-----------------------------------------------------------------------------
(***************************************************************************)
(* Returning from a node, and the entry point.                             *)
(***************************************************************************)

MayLeave ==
  /\ Top.kind \notin {"unit", "params", "forinit"}
  /\ \/ Top.kind \in ListKinds
     \/ Top.left = 0
     \/ Top.kind = "if" /\ Top.left = 1

Popped == SubSeq(frames, 1, Len(frames) - 1)

(* What each handler undoes after the last of its children.                *)
Leave ==
  /\ result = "running"
  /\ frames # << >>
  /\ MayLeave
  /\ frames' = Popped
  /\ IF Unwalked
     THEN UNCHANGED analyser
     ELSE /\ symtab' = IF Top.kind \in {"func", "block", "forbody"}
                       THEN scope_pop(symtab) ELSE symtab
          /\ loop_depth' = IF Top.kind \in {"while", "forbody"}
                           THEN loop_depth - 1 ELSE loop_depth
          /\ switch_depth' = IF Top.kind = "switch"
                             THEN switch_depth - 1 ELSE switch_depth
          /\ current_func_return' = IF Top.kind = "func"
                                    THEN Top.prev_return ELSE current_func_return
          /\ diag' = diag
  /\ node' = NoNode
  /\ UNCHANGED << result, visited >>

Begin ==
  /\ result = "idle"
  /\ result' = "running"
  /\ symtab' = scope_push(symtab, "GLOBAL")
  /\ frames' = << NewFrame("unit") >>
  /\ node' = NoNode
  /\ UNCHANGED << diag, Counters, visited >>

(* A bug: the program's scope is left open.                                *)
Finish_scopeOpen ==
  /\ result = "running"
  /\ Len(frames) = 1
  /\ frames' = << >>
  /\ result' = IF diag.had_error THEN "rejected" ELSE "accepted"
  /\ node' = NoNode
  /\ UNCHANGED << symtab, diag, Counters, visited >>

Finish ==
  /\ result = "running"
  /\ Len(frames) = 1
  /\ symtab' = scope_pop(symtab)
  /\ frames' = << >>
  /\ result' = IF diag.had_error THEN "rejected" ELSE "accepted"
  /\ node' = NoNode
  /\ UNCHANGED << diag, Counters, visited >>

Init ==
  /\ symtab = symbol_table_create
  /\ diag = diagnostics_create
  /\ loop_depth = 0
  /\ switch_depth = 0
  /\ current_func_return = NoType
  /\ frames = << >>
  /\ result = "idle"
  /\ node = NoNode
  /\ visited = 0

Declarable == Names \ Undeclared

VisitNode ==
  \/ \E n \in Declarable :
       \/ FuncPrototype(n)
       \/ Param(n)
       \/ StructDecl(n)
       \/ EnumDecl(n)
       \/ Enumerator(n)
       \/ LabelStmt(n)
       \/ Define(n)
       \/ \E z, r \in Reads : VarDecl(n, z, r) \/ ListDecl(n, z, r)
       \/ \E t \in ReturnTypes : FuncDecl(n, t)
  \/ \E r \in Reads :
       \/ ExprStmt(r)
       \/ ThrowStmt(r)
       \/ CallExpr(r)
       \/ SizeofExpr(r)
       \/ IfStmt(r)
       \/ WhileStmt(r)
       \/ ForInitExpr(r)
       \/ ForBody(r)
       \/ SwitchStmt(r)
       \/ CaseStmt(r)
  \/ NamelessClass
  \/ \E first \in {{}} \cup {{n} : n \in Declarable} : NamelessEnum(first)
  \/ Include
  \/ GotoStmt
  \/ BreakStmt
  \/ ContinueStmt
  \/ Block
  \/ DoWhileStmt
  \/ TryStmt
  \/ ForStmt

Next == (frames # << >> /\ VisitNode) \/ FuncBody \/ Leave \/ Begin \/ Finish

Spec == Init /\ [][Next]_vars
-----------------------------------------------------------------------------
(***************************************************************************)
(* Correctness.                                                            *)
(***************************************************************************)

Node == [construct : Constructs \cup {"none"}, names : SUBSET Names,
         sizes : SUBSET Names, reads : SUBSET Names]

TypeOK ==
  /\ symtab \in Table
  /\ diag \in Collector /\ Len(diag.list) <= MaxDiagnostics
  /\ loop_depth \in Nat
  /\ switch_depth \in Nat
  /\ current_func_return \in ReturnTypes \cup {NoType}
  /\ frames \in Seq(Frame)
  /\ result \in {"idle", "running", "accepted", "rejected"}
  /\ node \in Node
  /\ visited \in 0 .. MaxNodes

(* The open nodes of a set of kinds that the analyser is itself inside of. *)
OpenIn(fs, kinds) ==
  {i \in DOMAIN fs : /\ fs[i].kind \in kinds
                     /\ \A j \in 1 .. i : fs[j].kind \notin UnwalkedKinds}
Open(kinds) == OpenIn(frames, kinds)

LoopKinds   == {"while", "forbody"}
SwitchKinds == {"switch"}
FuncKinds   == {"params", "func"}
ScopedKinds == FuncKinds \cup {"block", "forinit", "forbody"}

(* The depths count the enclosing loops and switches and the scope chain   *)
(* has one scope per enclosing construct that opens one: every push and    *)
(* increment on the way down was matched on the way up, on every path      *)
(* through the recursion (semantic.c:473-511, 328-349, 453-462).           *)
DepthsMatchNesting ==
  result = "running" =>
    /\ loop_depth = Cardinality(Open(LoopKinds))
    /\ switch_depth = Cardinality(Open(SwitchKinds))
    /\ Len(symtab) = 2 + Cardinality(Open(ScopedKinds))

(* The return type of the enclosing function is set exactly inside one.    *)
ReturnTypeMatchesNesting ==
  result = "running" => (current_func_return = NoType <=> Open(FuncKinds) = {})

(* Duplicate detection keeps the names of every scope distinct, for names  *)
(* added by any kind of declaration (symbol.c:73-106, semantic.c:359-367). *)
ScopesHaveUniqueNames == UniqueNames(symtab)

(* When semantic_analyze returns, accepting or not, the analyser is as     *)
(* symbol_table_create left it: no scope leaks out of the walk, and no     *)
(* symbol was put in the scope that outlives it (semantic.c:584-592).      *)
RestoredAtEnd ==
  result \in {"accepted", "rejected"} =>
    /\ symtab = symbol_table_create
    /\ loop_depth = 0 /\ switch_depth = 0
    /\ current_func_return = NoType

(* The loops and switches of the source text around the current node,      *)
(* within the innermost function, whether or not the analyser walks them.  *)
OwnFrames ==
  {i \in DOMAIN frames :
     \A j \in i .. Len(frames) : frames[j].kind \notin FuncKinds}
InsideLoop   == \E i \in OwnFrames : frames[i].kind \in {"while", "forbody", "do"}
InsideSwitch == \E i \in OwnFrames : frames[i].kind = "switch"

StrayJump ==
  \/ node.construct = "break" /\ ~InsideLoop /\ ~InsideSwitch
  \/ node.construct = "continue" /\ ~InsideLoop

(* A break with no loop or switch around it in its function, and a         *)
(* continue with no loop, leave the program rejected: "Error detection:    *)
(* ... break/continue outside loops" (docs/ARCHITECTURE.md:93).            *)
StrayJumpsReported == StrayJump => diag.had_error

(* Reading a name that is declared nowhere leaves the program rejected:    *)
(* "Error detection: Undeclared variables" (docs/ARCHITECTURE.md:93).      *)
UndeclaredReadsReported ==
  (node.sizes \cup node.reads) \cap Undeclared # {} => diag.had_error

(* Where the analyser can tell, it does: a stray break or continue in the  *)
(* text it walks is reported unless a loop or switch is open around the    *)
(* function it is in, because the depth counters know of no functions      *)
(* (semantic.c:328-349, 533-545).                                          *)
WalkedJumpsReported ==
  /\ StrayJump /\ ~Unwalked
  /\ Open(LoopKinds \cup SwitchKinds) \subseteq OwnFrames
  => diag.had_error

(* Nodes whose reads nobody looks up: operands of throw and sizeof, called *)
(* names, lists of initial values, the first clause of a for; and nodes    *)
(* whose names become no symbols: macros, and a nameless enumeration's     *)
(* first enumerator.                                                       *)
UnreadConstructs     == {"throw", "call", "sizeof", "list", "for expression"}
UndeclaredConstructs == {"define", "nameless"}

(* A name that is declared nowhere and read in the text it walks is        *)
(* reported, whatever has been declared before and wherever the scopes     *)
(* stand: in the sizes of any array, and in any expression that is looked  *)
(* into (semantic.c:85-93, 121-135, 353-374, 491).                         *)
WalkedReadsReported ==
  /\ ~Unwalked
  /\ \/ node.sizes \cap Undeclared # {}
     \/ node.reads \cap Undeclared # {} /\ node.construct \notin UnreadConstructs
  => diag.had_error

-----------------------------------------------------------------------------
(***************************************************************************)
(* The rules the analyser implements.  What is not walked is no part of    *)
(* the program they see: a node of that kind is a statement with nothing   *)
(* in it.                                                                  *)
(***************************************************************************)
RoleOf(kind) ==
  CASE kind \in LoopKinds   -> "loop"
    [] kind \in SwitchKinds -> "switch"
    [] OTHER -> "none"

(* The scope a walked frame declares in, among those of the chain: the     *)
(* program's is the second, and each frame that opens one has one more.    *)
ScopeOf(fs, i) == 2 + Cardinality({j \in 1 .. i : fs[j].kind \in ScopedKinds})
NamesIn(scope) == {scope.symbols[k].name : k \in DOMAIN scope.symbols}

(* The contexts that a recursion and its scope chain stand for.            *)
ContextOf(fs, table, i) ==
  LET scoped == i = 1 \/ fs[i].kind \in ScopedKinds
  IN [scoped |-> scoped,
      role   |-> RoleOf(fs[i].kind),
      names  |-> IF scoped THEN NamesIn(table[ScopeOf(fs, i)]) ELSE {}]
ContextsOf(fs, table) == [i \in OpenIn(fs, FrameKinds) |-> ContextOf(fs, table, i)]
Contexts == ContextsOf(frames, symtab)

(* A node the rules hear of: one that is walked, or stands for one that is *)
(* not; and what they hear of it.                                          *)
Heard == ~Unwalked \/ (node.construct \in UnwalkedKinds /\ ~UnwalkedIn(Popped))
StatementHeard ==
  [kind  |-> IF ~Heard \/ node.construct = "none" THEN "none"
             ELSE IF node.construct \in {"break", "continue"} THEN node.construct
             ELSE "other",
   names |-> IF Heard /\ node.construct \notin UndeclaredConstructs
             THEN node.names ELSE {},
   sizes |-> IF Heard THEN node.sizes ELSE {},
   reads |-> IF Heard /\ node.construct \notin UnreadConstructs
             THEN node.reads ELSE {}]

Verdict == IF result \in {"accepted", "rejected"} THEN result ELSE "open"

Rules == INSTANCE LexicalRules
  WITH contexts <- Contexts, statement <- StatementHeard,
       rejected <- diag.had_error, verdict <- Verdict

(* In what it walks of any program, the reads and names of the constructs  *)
(* above excepted, the analyser implements the rules: scope chain, depth   *)
(* counters and error flag reject exactly the programs that break a rule,  *)
(* and at the node that breaks it.                                         *)
ImplementsLexicalRules == Rules!Spec
=============================================================================
