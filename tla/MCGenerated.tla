---------------------------- MODULE MCGenerated ----------------------------
(***************************************************************************)
(* The C that is generated for some programs, as a C compiler reads it and *)
(* as it runs, against what docs/LANGUAGE.md says of the programs.  The    *)
(* generator (CodeGen) writes the C, which is then run where it has to do  *)
(* with exceptions (TryCatch).                                             *)
(***************************************************************************)
EXTENDS MCCodeGen

VARIABLES program, stack, outcome, jmp_buf

running == << program, stack, outcome, jmp_buf >>

(* The programs, which are those of MCTryCatch, and one that does nothing. *)
Statements == INSTANCE MCTryCatch WITH Programs <- {}
Idle == [main |-> << >>, f |-> << >>]
Throwing == Statements!ThrowAfterTry

TC == INSTANCE MCTryCatch WITH Programs <- {Idle} \cup Throwing

(* The tree of a program of module Exceptions.                             *)
RECURSIVE Tree(_)
Tree(stmts) ==
  [i \in DOMAIN stmts |->
     CASE stmts[i].op = "throw"  -> Node("THROW_STMT", "", << >>)
       [] stmts[i].op = "return" -> Node("RETURN_STMT", "", << >>)
       [] stmts[i].op = "call"   -> Stmt(Node("CALL_EXPR", "", << Id("F") >>))
       [] OTHER -> Node("TRY_STMT", "", << Block(Tree(stmts[i].body)),
                        Node("CATCH_STMT", "", << Block(Tree(stmts[i].handler)) >>) >>)]
UnitOf(prog) == Unit(<< Func("F", << >>, Tree(prog.f)), Func("main", << >>, Tree(prog.main)) >>)

-----------------------------------------------------------------------------
Including(item) == Node("INCLUDE", "", << Leaf("STRING_LITERAL", << >>), item >>)
Function(name, used) == Func(name, << >>, << Stmt(Id(used)) >>)
A == Func("a", << >>, << >>)

Expressions ==
  {Node("SIZEOF_EXPR", "", << I64 >>), Binary("-", Leaf("FLOAT_LITERAL", 4), Id("x")),
   Unary("-", Unary("-", Id("x"))), Node("INDEX_EXPR", "", << Unary("++", Id("x")), Id("x") >>)}
Literal(s) == Leaf("STRING_LITERAL", s)
StrangeStrings == {<< "$", "n", "$", "F" >>, << "n", "$", "F" >>, Red \o << "n" >>}
OddSwitches ==
  {Switch(<< Node("CASE_STMT", "", << Number(0), Mark(1) >>), Node("DEFAULT_STMT", "", << Mark(2) >>) >>),
   Switch(<< Node("CASE_RANGE", "", << Minus1, Number(1), Mark(1) >>) >>)}

(* Included functions used in a wrapped file; statements beside a main and *)
(* from an included file; bare names of an included function and of a      *)
(* variable that hides a function; a function that stands below its use.   *)
OddFiles ==
  {Unit(<< Including(A), Function("b", "a"), Stmt(Id("b")) >>),
   Unit(<< A, Func("main", << >>, << >>), Stmt(Id("a")) >>),
   Unit(<< A, Including(Stmt(Id("a"))) >>),
   Unit(<< Including(A), Function("main", "a") >>),
   Unit(<< Func("a", << >>, << Var("a", << >>), Stmt(Id("a")) >>) >>),
   Unit(<< Function("b", "a"), A >>)}

Grid == Array(Array(I64, "c"), "d")   \* of I64 v[c][d]
OddDeclarations ==
  {InFunction(Node("VAR_DECL", {}, << Grid, Id("v") >>)),
   InFunction(Node("FOR_STMT", "",
     << Node("VAR_DECL", {}, << Array(I64, "c"), Id("v") >>), None, None, Stmt(Id("s")) >>)),
   Unit(<< Node("STRUCT_DECL", "", << Id("S"), Field("x"), Func("g", << >>, << Stmt(Id("s")) >>),
                                      Field("y") >>) >>)}

OddUnits ==
  {Returned(e) : e \in Expressions \cup {Literal(s) : s \in StrangeStrings}}
  \cup OddSwitches \cup OddFiles \cup OddDeclarations
UnitsOfAll == OddUnits \cup {UnitOf(p) : p \in Throwing}

-----------------------------------------------------------------------------
DocumentedInit ==
  /\ Init
  /\ TC!TryCatchInit
  /\ unit \in IF program = Idle THEN OddUnits ELSE {UnitOf(program)}

Generate == Next /\ UNCHANGED running
Execute  == Finished /\ program # Idle /\ TC!TryCatchNext /\ UNCHANGED vars

DocumentedSpec == DocumentedInit /\ [][Generate \/ Execute]_<< vars, running >>

-----------------------------------------------------------------------------
IsReturned == Finished /\ IsBody("RETURN_STMT")

(* docs/LANGUAGE.md:464, 474, 1022 and :510-512.                           *)
ExpressionsKept ==
  /\ IsReturned /\ ReturnsExpression => ReadsBack
  /\ IsReturned /\ Body[1].kids # << >> /\ Body[1].kids[1].kind = "STRING_LITERAL" =>
       StringReadsBack(Body[1].kids[1])

(* docs/LANGUAGE.md:663, 1034.                                             *)
OneCaseRuns == Finished /\ IsBody("SWITCH_STMT") => \A v \in -1 .. 1 : Run(v) = Meant(v)

(* docs/LANGUAGE.md:169, 195, 230-235, 547, 638, 1046.                     *)
FilesHoldTogether ==
  Finished /\ unit \in OddFiles =>
    /\ UsesAreDeclared
    /\ NothingBegunOutside
    /\ \A n \in Names : \A p \in Bare(n) : CalledIfFunction(p, n)

(* The sizes of an array in the order of the source, where the parser puts *)
(* each of them around the type so far (parser.c:833-841).                 *)
RECURSIVE SizesOf(_)
SizesOf(type) ==
  IF type.kind = "ARRAY_TYPE" THEN Append(SizesOf(type.kids[1]), type.kids[2].value) ELSE << >>

(* docs/LANGUAGE.md:124, 358-372, 1002.                                    *)
DeclarationsKept ==
  Finished /\ unit \in OddDeclarations =>
    /\ EveryNameWritten
    /\ \A v \in {n \in Nodes(unit) : n.kind = "VAR_DECL"} :
         LET sizes == SizesOf(v.kids[1]) IN
         \A i, j \in DOMAIN sizes : i < j => Place(sizes[i]) < Place(sizes[j])

(* The generated C does what the documentation says of the program: it     *)
(* computes the same expressions and shows the same strings, runs one case *)
(* of a switch, declares before it uses, has its statements in functions   *)
(* and its bare names called, and enters the handler of the innermost try  *)
(* (codegen.c:253-563, 723, 803-811, 852-884, 929-985, 1091-1135).         *)
GeneratedAsDocumented ==
  /\ ExpressionsKept
  /\ OneCaseRuns
  /\ FilesHoldTogether
  /\ DeclarationsKept
  /\ TC!ThrowReachesInnermost
=============================================================================
