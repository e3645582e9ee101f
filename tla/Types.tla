-------------------------------- MODULE Types --------------------------------
(***************************************************************************)
(* Who owns a type: the heap of src/types/types.c as the semantic analyser *)
(* fills it (src/semantic/semantic.c:50-281).  Resolving a type annotation *)
(* and analysing an expression both return a pointer to a type, which may  *)
(* be new or one that a symbol, a class or another type refers to; only    *)
(* the type of an array's size is ever destroyed.                          *)
(*                                                                         *)
(* The recursion over the tree is unfolded: `operands' holds what has been *)
(* returned for the parts of the annotation or expression being walked,    *)
(* and an action handles one node once its parts are there, which is the   *)
(* order of the code.  Sizes, alignments and names are left out.           *)
(***************************************************************************)
EXTENDS SymbolTable, Integers, FiniteSets

CONSTANTS
  MaxTypes,      \* bounds the heap, which the program does not, as do the
  MaxParts,      \* next two the fields of a class, the depth of expressions
  MaxOperands,
  MaxScopes,     \* and of scopes, and
  MaxSymbols     \* the symbols in scope

ASSUME BoundsAssumption ==
  {MaxTypes, MaxParts, MaxOperands, MaxScopes, MaxSymbols} \subseteq Nat

(* "SCALAR" stands for every kind without parts but F64: the integers, the *)
(* enumerations, Bool, void, the error and the unresolved type; "UNUSED"   *)
(* is an address without a type.                                           *)
Kinds == {"UNUSED", "SCALAR", "FLOATING", "POINTER", "ARRAY", "FUNCTION", "AGGREGATE"}
(* parts: the base of a pointer or array, the return type and parameters   *)
(* of a function, the fields of a class or union.                          *)
NULL == 0
Type == [kind : Kinds, parts : Seq(Nat), freed : BOOLEAN]
New(kind, parts) == [kind |-> kind, parts |-> parts, freed |-> FALSE]
Unused == New("UNUSED", << >>)

(* What an annotation or an expression has returned.  `borrowed' says that *)
(* the type of an expression is read off a declaration.                    *)
Operand == [of : {"annotation", "expression"}, type : Nat, borrowed : BOOLEAN]

VARIABLES
  types,      \* the types, by address
  table,      \* the scopes; a symbol has a type besides its name and kind
  operands,   \* the types returned for the parts of the current node
  aggregate,  \* the class whose fields are being read, or NULL
  fault,      \* "none" until a pointer is used that may not be
  sized,      \* whether a borrowed type was the type of an array's size
  label_read  \* whether an expression has read a label

heap == << types, table, operands, aggregate >>
vars == << types, table, operands, aggregate, fault, sized, label_read >>

-----------------------------------------------------------------------------
(***************************************************************************)
(* Addresses.  Types that nothing refers to any more are leaked; the model *)
(* takes their addresses back (Settle) to give them out again, which       *)
(* nothing can tell.                                                       *)
(***************************************************************************)
Addresses == 1 .. MaxTypes

Parts(h, t) == {h[t].parts[i] : i \in DOMAIN h[t].parts} \ {NULL}

Closed(h, S) == \A t \in S : Parts(h, t) \subseteq S

(* The types of heap h that can be got at from those in R: they are in     *)
(* every set that holds R and the parts of its own members.                *)
Reach(h, R) ==
  LET closed == {S \in SUBSET Addresses : R \subseteq S \cup {NULL} /\ Closed(h, S)}
  IN Addresses \ UNION {Addresses \ S : S \in closed}

Symbols == UNION {{table[d].symbols[i] : i \in DOMAIN table[d].symbols} : d \in DOMAIN table}
(* What the scopes, the tree walk and the class that is open refer to.     *)
Held == {s.type : s \in Symbols} \cup {operands[i].type : i \in DOMAIN operands}
        \cup {aggregate}

Garbage == {t \in Addresses : types[t] = Unused}
Fit(n)  == Cardinality(Garbage) >= n
(* The first and the second address to be given out, and the heap with one *)
(* or two new types at them.                                               *)
Least(S) == CHOOSE t \in S : \A u \in S : t <= u
Spare(n) == IF n = 1 THEN Least(Garbage) ELSE Least(Garbage \ {Least(Garbage)})
With(new) ==
  IF Len(new) = 1 THEN [types EXCEPT ![Spare(1)] = new[1]]
  ELSE [types EXCEPT ![Spare(1)] = new[1], ![Spare(2)] = new[2]]

(* The heap becomes h, when all else has its next value.                   *)
Settle(h) ==
  \E reached \in {Reach(h, Held')} :
    types' = [t \in Addresses |-> IF t \in reached THEN h[t] ELSE Unused]

-----------------------------------------------------------------------------
(* The outcome of reading a type through a pointer.                        *)
Reading(t) == IF t = NULL THEN "null" ELSE IF types[t].freed THEN "freed" ELSE "none"

(* Nothing more is done once a read has gone wrong: what the program does  *)
(* then has no meaning.                                                    *)
Fails(t) ==
  /\ Reading(t) # "none" /\ fault' = Reading(t)
  /\ UNCHANGED << heap, sized, label_read >>
Sound == fault' = fault

Kind(t) == types[t].kind
Base(t) == types[t].parts[1]

Count  == Len(operands)
Top(n) == operands[Count - n]          \* the n-th from the last one
IsExpr(n) == n < Count /\ Top(n).of = "expression"
Annotations == \A i \in DOMAIN operands : operands[i].of = "annotation"

(* The last n operands give way to the result for their node: a type that  *)
(* is there, or the last of those in `new'.                                *)
Replace(n, of, t, borrowed) ==
  operands' = Append(SubSeq(operands, 1, Count - n),
                     [of |-> of, type |-> t, borrowed |-> borrowed])
Return(n, of, t, borrowed) == Replace(n, of, t, borrowed) /\ Settle(types)
Create(n, of, new, borrowed) ==
  /\ Fit(Len(new))
  /\ Replace(n, of, Spare(Len(new)), borrowed)
  /\ Settle(With(new))

Scalar == << New("SCALAR", << >>) >>
Fresh(n, new) == Create(n, "expression", new, FALSE)
Same(n, t, borrowed) == Return(n, "expression", t, borrowed)

Running == fault = "none"
Visit   == Running /\ UNCHANGED << table, aggregate >>
Expression == Visit /\ UNCHANGED << sized, label_read >>

(* An annotation begins a declaration; an expression is the size in it,    *)
(* part of another or, outside a class, a statement.                       *)
MayAnnotate == Count < MaxOperands /\ Annotations
MayExpress  ==
  /\ Count < MaxOperands /\ ~(IsExpr(0) /\ IsExpr(1))
  /\ Count > 0 \/ aggregate = NULL

-----------------------------------------------------------------------------
(***************************************************************************)
(* The symbol a lookup finds: the first from the innermost scope outwards. *)
(***************************************************************************)
found(n) ==
  LET d == CHOOSE d \in DOMAIN table :
             Declares(table[d], n) /\ \A e \in d + 1 .. Len(table) : ~Declares(table[e], n)
      symbols == table[d].symbols
  IN symbols[CHOOSE i \in DOMAIN symbols : symbols[i].name = n]

Typed(name, kind, t) == [name |-> name, kind |-> kind, type |-> t]

(* symbol_add, with the type: a duplicate is not added.                    *)
add(scopes, symbol) ==
  IF symbol_lookup_current_scope(scopes, symbol.name) THEN scopes
  ELSE AppendSymbol(scopes, symbol)

-----------------------------------------------------------------------------
(***************************************************************************)
(* semantic_resolve_type.                                                  *)
(***************************************************************************)
Resolve == Visit /\ Sound /\ UNCHANGED << sized, label_read >>

Builtin ==
  /\ Resolve /\ MayAnnotate
  /\ \E kind \in {"SCALAR", "FLOATING"} :
       Create(0, "annotation", << New(kind, << >>) >>, FALSE)

(* A class or enumeration lends its type; any other name is unresolved.    *)
NamedType(n) ==
  /\ Resolve /\ MayAnnotate
  /\ IF symbol_lookup(table, n) /\ found(n).kind \in {"STRUCT", "ENUM"}
     THEN Return(0, "annotation", found(n).type, FALSE)
     ELSE Create(0, "annotation", Scalar, FALSE)

PointerType ==
  /\ Resolve /\ Count > 0 /\ ~IsExpr(0)
  /\ Top(0).type = NULL \/ Kind(Top(0).type) \notin {"ARRAY", "FUNCTION"}
  /\ Create(1, "annotation", << New("POINTER", << Top(0).type >>) >>, FALSE)

FuncPointerType ==
  /\ Resolve /\ Count \in {1, 2} /\ Annotations /\ Fit(2)
  /\ Create(Count, "annotation",
            << New("FUNCTION", [i \in DOMAIN operands |-> operands[i].type]),
               New("POINTER", << Spare(1) >>) >>, FALSE)

(* type_destroy visits the type, its parts, theirs and so on, each as      *)
(* often as there are ways to it.                                          *)
Ways(S, u) ==
  UNION {{<< t, i >> : i \in {j \in DOMAIN types[t].parts : types[t].parts[j] = u}} : t \in S}
FreesTwice(t) ==
  LET S == Reach(types, {t}) IN
  \E u \in S :
    \/ types[u].freed
    \/ u = t /\ Ways(S, u) # {}
    \/ \E v, w \in Ways(S, u) : v # w

type_destroy(S) ==
  LET destroyed == Reach(types, S)
  IN [u \in Addresses |->
        IF u \in destroyed THEN [types[u] EXCEPT !.freed = TRUE] ELSE types[u]]

(* The size's type is destroyed, and then the base's size is read.         *)
ArrayType ==
  LET base == Top(1).type
      size == Top(0)
      after == type_destroy({size.type})
  IN /\ Visit /\ label_read' = label_read
     /\ IsExpr(0) /\ Count > 1
     /\ ~IsExpr(1)
     /\ sized' = (sized \/ size.borrowed)
     /\ IF FreesTwice(size.type) \/ base = NULL \/ after[base].freed
        THEN /\ fault' = IF ~FreesTwice(size.type) /\ base = NULL THEN "null" ELSE "freed"
             /\ UNCHANGED << types, operands >>
        ELSE /\ Sound /\ Fit(1)
             /\ Replace(2, "annotation", Spare(1), FALSE)
             /\ Settle([after EXCEPT ![Spare(1)] = New("ARRAY", << base >>)])

UnsizedArrayType ==
  /\ Count > 0 /\ Annotations
  /\ \/ Running /\ Fails(Top(0).type)
     \/ /\ Reading(Top(0).type) = "none" /\ Resolve
        /\ Create(1, "annotation", << New("ARRAY", << Top(0).type >>) >>, FALSE)

-----------------------------------------------------------------------------
(***************************************************************************)
(* semantic_analyze_expr.  The unary operators that return their operand   *)
(* make no step.                                                           *)
(***************************************************************************)
(* Literals, sizeof and what is not analysed.                              *)
Literal ==
  /\ Expression /\ Sound /\ MayExpress
  /\ \/ \E kind \in {"SCALAR", "FLOATING"} : Fresh(0, << New(kind, << >>) >>)
     \/ Fit(2) /\ Fresh(0, Append(Scalar, New("POINTER", << Spare(1) >>)))

(* A bug: a name that is not declared has no type.                         *)
Identifier_untyped(n) ==
  /\ Visit /\ Sound /\ MayExpress /\ sized' = sized
  /\ IF symbol_lookup(table, n)
     THEN /\ Same(0, found(n).type, TRUE)
          /\ label_read' = (label_read \/ found(n).kind = "LABEL")
     ELSE Return(0, "expression", NULL, FALSE) /\ label_read' = label_read

Identifier(n) ==
  /\ Visit /\ Sound /\ MayExpress /\ sized' = sized
  /\ IF symbol_lookup(table, n)
     THEN /\ Same(0, found(n).type, TRUE)
          /\ label_read' = (label_read \/ found(n).kind = "LABEL")
     ELSE Fresh(0, Scalar) /\ label_read' = label_read

Dereference ==
  LET x == Top(0) IN
  /\ IsExpr(0)
  /\ \/ Running /\ Fails(x.type)
     \/ /\ Reading(x.type) = "none" /\ Expression /\ Sound
        /\ IF Kind(x.type) = "POINTER" THEN Same(1, Base(x.type), x.borrowed) ELSE Fresh(1, Scalar)

AddressOf ==
  /\ IsExpr(0) /\ Expression /\ Sound
  /\ Create(1, "expression", << New("POINTER", << Top(0).type >>) >>, Top(0).borrowed)

Negation == IsExpr(0) /\ Expression /\ Sound /\ Fresh(1, Scalar)

Comparison == IsExpr(0) /\ IsExpr(1) /\ Expression /\ Sound /\ Fresh(2, Scalar)

Assignment ==
  IsExpr(0) /\ IsExpr(1) /\ Expression /\ Sound /\ Same(2, Top(1).type, Top(1).borrowed)

(* The right operand is looked at only when the left one is not floating.  *)
Arithmetic ==
  LET left == Top(1)
      right == Top(0)
      LeftFloats == Reading(left.type) = "none" /\ Kind(left.type) = "FLOATING"
  IN /\ IsExpr(0) /\ IsExpr(1)
     /\ \/ Running /\ Fails(left.type)
        \/ Running /\ Reading(left.type) = "none" /\ ~LeftFloats /\ Fails(right.type)
        \/ /\ Reading(left.type) = "none" /\ (LeftFloats \/ Reading(right.type) = "none")
           /\ Expression /\ Sound
           /\ IF LeftFloats \/ Kind(right.type) = "FLOATING"
              THEN Fresh(2, << New("FLOATING", << >>) >>)
              ELSE Same(2, left.type, left.borrowed)

(* The name of the function is not analysed; its type is looked at.        *)
Call(n) ==
  LET sym == found(n) IN
  \E args \in {0, 1} :
    /\ IF args = 0 THEN MayExpress ELSE IsExpr(0)
    /\ IF symbol_lookup(table, n) /\ sym.type # NULL
       THEN \/ Running /\ Fails(sym.type)
            \/ /\ Reading(sym.type) = "none" /\ Expression /\ Sound
               /\ IF Kind(sym.type) = "FUNCTION"
                  THEN Same(args, Base(sym.type), TRUE) ELSE Fresh(args, Scalar)
       ELSE Expression /\ Sound /\ Fresh(args, Scalar)

Index ==
  LET x == Top(1) IN
  /\ IsExpr(0) /\ IsExpr(1)
  /\ \/ Running /\ Fails(x.type)
     \/ /\ Reading(x.type) = "none" /\ Expression /\ Sound
        /\ IF Kind(x.type) \in {"POINTER", "ARRAY"}
           THEN Same(2, Base(x.type), x.borrowed) ELSE Fresh(2, Scalar)

(* A field of class t, or none of that name.                               *)
FieldOf(t, borrowed) ==
  IF Kind(t) = "AGGREGATE"
  THEN \/ \E i \in DOMAIN types[t].parts : Same(1, types[t].parts[i], borrowed)
       \/ Fresh(1, Scalar)
  ELSE Fresh(1, Scalar)

Member ==
  LET x == Top(0) IN
  /\ IsExpr(0)
  /\ \/ x.type # NULL /\ Running /\ Fails(x.type)
     \/ /\ x.type = NULL \/ Reading(x.type) = "none"
        /\ Expression /\ Sound
        /\ IF x.type = NULL THEN Fresh(1, Scalar) ELSE FieldOf(x.type, x.borrowed)

PointerMember ==
  LET x == Top(0)
      deref == IF x.type # NULL /\ Reading(x.type) = "none" /\ Kind(x.type) = "POINTER"
               THEN Base(x.type) ELSE NULL
  IN /\ IsExpr(0)
     /\ \/ x.type # NULL /\ Running /\ Fails(x.type)
        \/ deref # NULL /\ Running /\ Fails(deref)
        \/ /\ x.type = NULL \/ Reading(x.type) = "none"
           /\ deref = NULL \/ Reading(deref) = "none"
           /\ Expression /\ Sound
           /\ IF deref = NULL THEN Fresh(1, Scalar) ELSE FieldOf(deref, x.borrowed)

(* The target is resolved first; the parser takes none but a builtin type  *)
(* and pointers to it.                                                     *)
Cast ==
  /\ IsExpr(0) /\ Expression /\ Sound
  /\ \/ \E kind \in {"SCALAR", "FLOATING"} : Fresh(1, << New(kind, << >>) >>)
     \/ Fit(2) /\ Fresh(1, Append(Scalar, New("POINTER", << Spare(1) >>)))

(* A type that nobody asks for: that of a statement, an initialiser, the   *)
(* condition of a ?: before its other operands, and its third operand.     *)
Drop ==
  /\ IsExpr(0) /\ Expression /\ Sound
  /\ operands' = SubSeq(operands, 1, Count - 1) /\ Settle(types)

-----------------------------------------------------------------------------
(***************************************************************************)
(* Declarations (semantic_analyze_stmt).                                   *)
(***************************************************************************)
Declaration == Running /\ Sound /\ UNCHANGED << sized, label_read >>
Outside     == aggregate = NULL /\ aggregate' = NULL
Statement   == Declaration /\ Outside /\ operands = << >> /\ operands' = << >>
Room        == Cardinality(Symbols) < MaxSymbols

VarDecl(n) ==
  /\ Declaration /\ Outside /\ Room
  /\ Count = 1 /\ Annotations /\ operands' = << >>
  /\ table' = add(table, Typed(n, "VARIABLE", operands[1].type))
  /\ Settle(types)

(* A bug: the return type is left out of the function's.                   *)
FuncDecl_noReturn(n, p, body) ==
  /\ Declaration /\ Outside /\ Room
  /\ Count \in {1, 2} /\ Annotations /\ operands' = << >>
  /\ Fit(1)
  /\ table' = add(table, Typed(n, "FUNCTION", Spare(1)))
  /\ Settle(With(<< New("FUNCTION", [i \in 1 .. Count - 1 |-> operands[i + 1].type]) >>))

(* With a body, the parameter shares its type with the function.            *)
FuncDecl(n, p, body) ==
  LET scopes == add(table, Typed(n, "FUNCTION", Spare(1)))
      inner  == scope_push(scopes, "FUNCTION")
  IN /\ Declaration /\ Outside /\ Room
     /\ Count \in {1, 2} /\ Annotations /\ operands' = << >>
     /\ body => Len(table) < MaxScopes
     /\ Fit(1)
     /\ table' = IF ~body THEN scopes
                 ELSE IF Count = 1 THEN inner
                 ELSE add(inner, Typed(p, "VARIABLE", operands[2].type))
     /\ Settle(With(<< New("FUNCTION", [i \in DOMAIN operands |-> operands[i].type]) >>))

BlockBegin ==
  /\ Statement /\ Len(table) < MaxScopes
  /\ table' = scope_push(table, "BLOCK") /\ Settle(types)

(* A bug: what its symbols refer to goes with a scope.                     *)
ScopeEnd_destroys ==
  /\ Statement /\ Len(table) > 1
  /\ table' = scope_pop(table)
  /\ LET symbols == current_scope(table).symbols
     IN Settle(type_destroy({symbols[i].type : i \in DOMAIN symbols}))

(* The end of a block or function frees its symbols and leaves their types.*)
ScopeEnd ==
  /\ Statement /\ Len(table) > 1
  /\ table' = scope_pop(table) /\ Settle(types)

(* The class is a symbol before its fields are read.                       *)
ClassDecl(n) ==
  /\ Declaration /\ Room /\ aggregate = NULL /\ operands = << >> /\ operands' = << >>
  /\ Len(table) = 1 /\ Fit(1)
  /\ aggregate' = Spare(1)
  /\ table' = add(table, Typed(n, "STRUCT", Spare(1)))
  /\ Settle(With(<< New("AGGREGATE", << >>) >>))

(* The size of the field's type is read.                                   *)
Field ==
  /\ aggregate # NULL /\ Count = 1 /\ Annotations
  /\ \/ Running /\ Fails(operands[1].type)
     \/ /\ Reading(operands[1].type) = "none"
        /\ Declaration /\ UNCHANGED << table, aggregate >>
        /\ operands' = << >> /\ Len(types[aggregate].parts) < MaxParts
        /\ Settle([types EXCEPT ![aggregate].parts = Append(@, operands[1].type)])

ClassEnd ==
  /\ Declaration /\ aggregate # NULL /\ operands = << >>
  /\ aggregate' = NULL /\ UNCHANGED << table, operands >> /\ Settle(types)

(* An enumeration and a constant of it.                                    *)
EnumDecl(n, constant) ==
  /\ Statement /\ Room /\ Len(table) = 1 /\ Fit(2)
  /\ table' = add(add(table, Typed(n, "ENUM", Spare(1))),
                      Typed(constant, "CONSTANT", Spare(2)))
  /\ Settle(With(Scalar \o Scalar))

LabelStmt(n) ==
  /\ Statement /\ Room
  /\ table' = add(table, Typed(n, "LABEL", NULL)) /\ Settle(types)

-----------------------------------------------------------------------------
Init ==
  /\ types = [t \in Addresses |-> Unused]
  /\ table = symbol_table_create
  /\ operands = << >>
  /\ aggregate = NULL
  /\ fault = "none"
  /\ sized = FALSE /\ label_read = FALSE

Next ==
  \/ Builtin \/ PointerType \/ FuncPointerType \/ ArrayType \/ UnsizedArrayType
  \/ Literal \/ Dereference \/ AddressOf \/ Negation \/ Comparison \/ Assignment
  \/ Arithmetic \/ Index \/ Member \/ PointerMember \/ Cast \/ Drop
  \/ BlockBegin \/ ScopeEnd \/ Field \/ ClassEnd
  \/ \E n \in Names :
       \/ NamedType(n) \/ Identifier(n) \/ Call(n)
       \/ VarDecl(n) \/ ClassDecl(n) \/ LabelStmt(n)
       \/ \E m \in Names : EnumDecl(n, m) \/ \E body \in BOOLEAN : FuncDecl(n, m, body)

Spec == Init /\ [][Next]_vars

-----------------------------------------------------------------------------
(* A type has the parts of its kind, and a symbol a type of its own; what  *)
(* is referred to is in the heap, or the type that a label has not         *)
(* (types.h:42-86, semantic.c:324-435).                                    *)
PartsFit(type) ==
  /\ type.kind \in {"UNUSED", "SCALAR", "FLOATING"} => type.parts = << >>
  /\ type.kind \in {"POINTER", "ARRAY"} => Len(type.parts) = 1
  /\ type.kind = "FUNCTION" => type.parts # << >>
TypeFits(s) ==
  /\ s.kind = "LABEL" <=> s.type = NULL
  /\ s.kind = "FUNCTION" => Kind(s.type) = "FUNCTION"
  /\ s.kind = "STRUCT" => Kind(s.type) = "AGGREGATE"
  /\ s.kind \in {"ENUM", "CONSTANT"} => Kind(s.type) = "SCALAR"

TypeOK ==
  /\ types \in [Addresses -> Type]
  /\ operands \in Seq(Operand) /\ Count <= MaxOperands
  /\ fault \in {"none", "null", "freed"} /\ {sized, label_read} \subseteq BOOLEAN
  /\ Held \cup UNION {Parts(types, t) : t \in Addresses} \subseteq Addresses \cup {NULL}
  /\ \A t \in Addresses : PartsFit(types[t])
  /\ \A s \in Symbols : TypeFits(s)

Live(t) == t = NULL \/ ~types[t].freed

(* As long as the size of no array has been an expression whose type       *)
(* belongs to a declaration, no pointer is left to a type that was         *)
(* destroyed: not in a scope, not in another type, not in what the walk    *)
(* still holds; and none is read or destroyed again (semantic.c:87-95,     *)
(* types.c:16-60).                                                         *)
NothingDangles ==
  ~sized => fault # "freed" /\ \A t \in Reach(types, Held) : Live(t)

(* A null type is read only after an expression has read a label: every    *)
(* other path of the analyser returns a type (semantic.c:50-281, 554).     *)
NullOnlyFromLabels == fault = "null" => label_read

(* docs/ARCHITECTURE.md:139 says of types: "Each type is heap-allocated,   *)
(* owned by symbol table": while a symbol is in the table the type it      *)
(* refers to is there (semantic.c:92 destroys it).                         *)
OwnedByTable == \A s \in Symbols : Live(s.type)
=============================================================================
