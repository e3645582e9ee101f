----------------------------- MODULE MCSemantic -----------------------------
(***************************************************************************)
(* Semantic on small instances.  A program of an instance is written in    *)
(* one of its fragments of the language: the constructs and names it uses  *)
(* and its size.                                                           *)
(***************************************************************************)
EXTENDS Semantic

CONSTANT Fragments, x, u

VARIABLE fragment

(* The constructs the analyser walks.                                      *)
Walked ==
  {"var", "func", "class", "include", "expr", "break", "continue", "block",
   "if", "while", "for", "switch", "case"}

(* What nests, walked or not, with functions inside functions.             *)
Nesting ==
  {"func", "nested function", "class", "method", "block", "while", "for", "switch",
   "do", "try", "continue", "throw", "for expression"}

(* Names in every place where nobody looks them up or makes them symbols,  *)
(* among those that are.                                                   *)
Naming ==
  {"var", "list", "prototype", "label", "enum", "nameless", "define", "call",
   "sizeof", "throw", "goto", "block", "expr", "for", "for expression"}

(* What gives names a meaning, each name once.                             *)
Meanings == {"var", "func", "enum", "nameless", "define", "expr"}

(* Statements in every place a program has for them.                       *)
EveryPlace ==
  {"func", "nested function", "class", "method", "while", "do", "try", "for",
   "for expression", "break", "expr", "throw", "call", "sizeof", "list"}

(* The fragments, with the number of nodes and the depth of a program.     *)
Fragment(constructs, names, nodes, depth) ==
  [constructs |-> constructs, names |-> names, nodes |-> nodes, depth |-> depth]
Details ==
  [walked  |-> Fragment(Walked, {x, u}, 5, 4),
   nesting |-> Fragment(Nesting, {x}, 5, 6),
   naming  |-> Fragment(Naming, {x, u}, 4, 4),
   places  |-> Fragment(EveryPlace, {x, u}, 5, 5),
   meanings |-> Fragment(Meanings, Names \ {u}, 4, 4)]
Of == Details[fragment]

AllConstructs == UNION {Details[f].constructs : f \in Fragments}

InFragment ==
  /\ node.construct \in Of.constructs \cup {"none"}
  /\ node.names \cup node.sizes \cup node.reads \subseteq Of.names
  /\ visited <= Of.nodes
  /\ Len(frames) <= Of.depth

(* Where the fragment has functions: at top level, as methods in classes,  *)
(* nested in functions.                                                    *)
FunctionPlaced ==
  \/ TopLevel
  \/ "method" \in Of.constructs /\ Top.kind = "class"
  \/ "nested function" \in Of.constructs /\ Top.kind # "class"
IsFunction == visited' # visited /\ node'.construct \in {"func", "prototype"}

MCInit == Init /\ fragment \in Fragments
MCNext ==
  /\ Next
  /\ UNCHANGED fragment
  /\ InFragment'
  /\ IsFunction => FunctionPlaced
MCSpec == MCInit /\ [][MCNext]_<< vars, fragment >>
=============================================================================
