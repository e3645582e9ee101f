------------------------------- MODULE MCRules -------------------------------
(***************************************************************************)
(* The analyser and the rules that the documentation has beyond those of   *)
(* LexicalRules: what a name may stand for, and where.  The history of a   *)
(* program is kept beside the analyser's state, as far as the rules need   *)
(* it.                                                                     *)
(***************************************************************************)
EXTENDS MCSemantic

CONSTANT argv   \* the arguments of a variadic function; in no declaration

VARIABLES
  given,    \* the names declared so far, each with its construct
  unknown   \* the names read where nothing had given them a meaning

(* The meanings that are no symbols of the analyser's: a macro or an       *)
(* enumerator further up, and argv in a function, which all functions of   *)
(* these programs are variadic for.                                        *)
MeansSomething(n) ==
  \/ \E construct \in UndeclaredConstructs : << construct, n >> \in given
  \/ n = argv /\ Open(FuncKinds) # {}

Meaningless(names, table) ==
  {n \in names : ~symbol_lookup(table, n) /\ ~MeansSomething(n)}

(* A program that gives each name one meaning, and declares no argv.       *)
OneMeaning ==
  \A n \in node'.names : n # argv /\ \A g \in given : g[2] # n

RulesInit == MCInit /\ given = {} /\ unknown = {}
RulesNext ==
  /\ MCNext
  /\ given' = given \cup {<< node'.construct, n >> : n \in node'.names}
  /\ unknown' = unknown \cup Meaningless(node'.sizes, symtab)
                         \cup Meaningless(node'.reads, symtab')
  /\ fragment = "meanings" => OneMeaning
RulesSpec == RulesInit /\ [][RulesNext]_<< vars, fragment, given, unknown >>

Functions == {g[2] : g \in {h \in given : h[1] = "func"}}

(* A program of declarations and reads is rejected only for a name that    *)
(* means nothing: functions have their meaning anywhere in the file        *)
(* (docs/LANGUAGE.md:195), argv in a variadic function (215), macros and   *)
(* enumerators behind their definitions (530).                             *)
RightProgramsAccepted ==
  fragment = "meanings" /\ result = "rejected" => unknown \ Functions # {}

(* The rules on stray jumps and on undeclared names hold wherever in a     *)
(* program they apply, and no program is rejected without reason.          *)
RulesEnforced ==
  StrayJumpsReported /\ UndeclaredReadsReported /\ RightProgramsAccepted
=============================================================================
